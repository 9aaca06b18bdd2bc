----------------------------- MODULE MCRowLocks -----------------------------
(***************************************************************************)
(* Instances of RowLocks for TLC: two buyers' matches over one item.       *)
(***************************************************************************)
EXTENDS RowLocks, TLC

CONSTANTS a1, b1, s1, m1, m2, t1, t2, t3, t4, t5, t6

RaceBuy   == (m1 :> a1) @@ (m2 :> b1)
RaceSell  == (m1 :> s1) @@ (m2 :> s1)
RaceOrder == (b1 :> 1) @@ (s1 :> 2) @@ (a1 :> 3)

\* Competing accepts, one of them by an agent's tool as well, a first or later
\* offer, the cancellation of the item, and an edit that also stores new pairs.
RaceHandler == (t1 :> "accept_offer") @@ (t2 :> "accept_offer")
                    @@ (t3 :> "tool_accept_offer") @@ (t4 :> "start_or_continue")
                    @@ (t5 :> "cancel_intent") @@ (t6 :> "update_intent")
RaceSubject == (t1 :> m1) @@ (t2 :> m2) @@ (t3 :> m2) @@ (t4 :> m2)
                    @@ (t5 :> s1) @@ (t6 :> s1)

\* The handlers that lock in different orders: an accept takes a negotiation, its
\* match and its intents, a cascade the other negotiations and matches.
EndHandler == (t1 :> "accept_offer") @@ (t2 :> "tool_accept_offer")
                   @@ (t3 :> "start_or_continue") @@ (t4 :> "cancel_intent")
                   @@ (t5 :> "discover")
EndSubject == (t1 :> m1) @@ (t2 :> m2) @@ (t3 :> m2) @@ (t4 :> s1) @@ (t5 :> m2)

=============================================================================
