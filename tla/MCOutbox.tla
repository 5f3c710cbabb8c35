------------------------------ MODULE MCOutbox ------------------------------
(* Outbox on small instances. *)
EXTENDS Outbox, TLC

\* Workers are interchangeable, and so are administrators (safety runs only).
Symmetry == Permutations(Workers) \cup Permutations(Admins)
=============================================================================
