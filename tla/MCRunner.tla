------------------------------ MODULE MCRunner ------------------------------
(* Runner over two vectors, two runs, one edit of the checkout and one upgrade. *)
EXTENDS Runner

Line(target, tagged, rep, receipt, key, noFail, verbose) ==
  [target |-> target, tagged |-> tagged, report |-> rep, receipt |-> receipt, key |-> key,
   noFail |-> noFail, verbose |-> verbose]

\* Revision 3 does not load, and as a vector revision 2 cannot be reported; vector 2 is optional under revision 1 only.
MCOptional == [r \in {1, 2, 3} |-> IF r = 1 THEN {2} ELSE {}]

MCArguments == {
  Line("remote",  FALSE, TRUE,  TRUE,  "good",      FALSE, FALSE),
  Line("wasm",    FALSE, TRUE,  FALSE, "good",      FALSE, FALSE),
  Line("fixture", TRUE,  TRUE,  TRUE,  "none",      TRUE,  TRUE),
  Line("remote",  TRUE,  FALSE, FALSE, "malformed", FALSE, FALSE)}

MCTagged == {2}
=============================================================================
