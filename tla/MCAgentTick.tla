---------------------------- MODULE MCAgentTick ----------------------------
(* Two agents, one offer, two ticks at a time and a task to spare; a call   *)
(* of the model is cheap or reaches the cap of its tick.                    *)
EXTENDS AgentTick, TLC

CONSTANTS u1, u2, e1

MCUsers == {u1, u2}
TickSymmetry == Permutations(Ticks)
MCRecipient == [e \in Events |-> u1]
=============================================================================
