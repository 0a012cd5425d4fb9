----------------------------- MODULE MCEvidence -----------------------------
(* Evidence over a contract that moves between two pieces of code while it is read, a    *)
(* third that publishes no interface and one that is too large.                           *)
EXTENDS Evidence

CONSTANTS a, b, c, d, s0, s1, k, x

Ledger(executable, storage, installed) ==
  [instance |-> [executable |-> executable, storage |-> storage], installed |-> installed]

MCGenesis == {
  Ledger(a, s1, {a, b}), Ledger(Asset, s0, {}),
  [instance |-> Nothing, installed |-> {c, d}]}

Line(contract, net, endpoint) == [contract |-> contract, network |-> net, endpoint |-> endpoint]

MCCommandLines == {
  Line("fixture", "missing", FALSE), Line("unknown-fixture", "missing", FALSE),
  Line("wasm", "missing", FALSE), Line("contract-id", "known", FALSE),
  Line("contract-id", "missing", FALSE), Line("other", "unknown", TRUE),
  Line("mistyped-id", "known", FALSE)}

MCLoose == {
  [remote |-> TRUE,  code |-> b, status |-> "CONFORMANT", pinned |-> TRUE],
  [remote |-> FALSE, code |-> Nothing, status |-> "NON_CONFORMANT", pinned |-> FALSE]}

MCHashes == Codes \cup {Nothing}
=============================================================================
