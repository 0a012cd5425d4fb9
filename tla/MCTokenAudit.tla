--------------------------- MODULE MCTokenAudit ---------------------------
(* TokenAudit over two accounts, amounts up to two and a refused negative amount. *)
EXTENDS TokenAudit

CONSTANTS alice, bob

MCAccounts == {alice, bob}
MCAmounts  == {-1, 0, 1, 2}
MCLedgers  == {1, 2}
MCGranting == {<<alice, bob>>, <<bob, bob>>}

\* No action reads `last`, so two states that differ only there have the same future.
MCView == <<balance, grant, ledger, granted, drawn>>
=============================================================================
