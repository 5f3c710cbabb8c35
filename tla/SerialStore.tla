----------------------------- MODULE SerialStore -----------------------------
(***************************************************************************)
(* What the services take a transaction for: it takes effect at once,      *)
(* whole, and as if no other had run since it read.  Every change of the   *)
(* rows comes with the event that announces it, every migration with the   *)
(* record that it was applied.                                             *)
(***************************************************************************)
EXTENDS Naturals

CONSTANT Wrap       \* where the counts start again

VARIABLE table      \* table[t]: how often table t changed

Init == table = [t \in {"rows", "outbox", "schema", "migrations"} |-> 0]

Commit(ts) == table' = [t \in DOMAIN table |-> IF t \in ts THEN (table[t] + 1) % Wrap ELSE table[t]]

Next == Commit({"rows", "outbox"}) \/ Commit({"schema", "migrations"})

Spec == Init /\ [][Next]_table
=============================================================================
