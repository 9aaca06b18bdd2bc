----------------------------- MODULE MCMandates -----------------------------
(* Two people with one identity between them, two drafts, two requests.     *)
EXTENDS Mandates, TLC

CONSTANTS u1, u2

MCUsers == {u1, u2}
RowSymmetry == Permutations(Sessions) \cup Permutations(MCUsers)
=============================================================================
