----------------------------- MODULE MCListing -----------------------------
EXTENDS Listing, TLC

\* The second comment answers the first.
Answers == [i \in Items |-> IF i = 2 THEN 1 ELSE 0]
=============================================================================
