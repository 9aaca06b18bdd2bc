----------------------------- MODULE MCSessions -----------------------------
(* Two people with one address, three tokens, two requests at a time.       *)
EXTENDS Sessions, TLC

CONSTANTS u1, u2

MCUsers == {u1, u2}
MCEmail == [u \in MCUsers |-> "ada@example.org"]
TokenSymmetry == Permutations(Tokens) \cup Permutations(Requests)
=============================================================================
