----------------------------- MODULE MCCapital -----------------------------
(***************************************************************************)
(* Instances of Capital for TLC.                                           *)
(***************************************************************************)
EXTENDS Capital, TLC

CONSTANTS k1, k2, c1, c2, d1, d2, d3

Buyer == [d \in Deals |-> "buyer"]

Flat == [d \in Deals |-> 1]

Interchangeable == Permutations({c1, c2}) \cup Permutations({d1, d2, d3})

\* Bound: only the first mandate lapses and is edited.
EditsOfTheFirst == overdue \subseteq {k1} /\ edits \subseteq {k1} \X Edit

=============================================================================
