------------------------- MODULE TradeWindow_proofs -------------------------
(***************************************************************************)
(* The trade of a deal is in order for every item, price and number of     *)
(* requests in flight.  The argument: one request at a time holds the      *)
(* deal's row, so what it checked when it got the row still holds when it  *)
(* stores (HeldRequestPasses), and each check is what the next state of    *)
(* the trade needs.                                                        *)
(***************************************************************************)
EXTENDS TradeWindow, FiniteSetTheorems, TLAPS

\* The row lock: at most one request is between its checks and its commit.
LockIsExclusive ==
    \A s, r \in Sessions : work[s] # Idle /\ work[r] # Idle => s = r

HeldRequestPasses == \A s \in Sessions : work[s] # Idle => Passes(work[s])

SelectionIsAllowed == selection # NoSelection => selection.method \in Allowed(item)

\* The types of all but the message counter.
RowsAreTyped ==
    /\ item \in Item
    /\ deal \in [status : DealStatus, signed : SUBSET Role,
                 shipping : ShippingStatus, stamps : SUBSET Stamp]
    /\ selection \in Selection \cup {NoSelection}
    /\ work \in [Sessions -> Request \cup {Idle}]
    /\ revoking \subseteq Role

TradeInv ==
    /\ RowsAreTyped
    /\ LockIsExclusive
    /\ HeldRequestPasses
    /\ SelectionIsAllowed
    /\ TimelineIsOrdered

ChatInv ==
    /\ messages \in Nat
    /\ sending \subseteq Sessions
    /\ messages + Cardinality(sending) < MaxMessages + Cardinality(Sessions)
    /\ messages > 0 \/ sending # {} => Reached("confirmed_at")

-----------------------------------------------------------------------------
(***************************************************************************)
(* The pure part: the method the policy recommends is one it allows.       *)
(***************************************************************************)

\* calculate_shipping_options recommends a method that select_shipping_method
\* accepts, for every item.
THEOREM RecommendedIsAllowed == \A i \in Item : RecommendedCode(i) \in Allowed(i)
  BY DEF Item, RecommendedCode, Allowed, HighValue, LowValue

-----------------------------------------------------------------------------
(***************************************************************************)
(* The invariant holds initially.                                          *)
(***************************************************************************)

LEMMA TradeInit == Init => TradeInv
<1> SUFFICES ASSUME Init PROVE TradeInv
  OBVIOUS
<1>1. RowsAreTyped
  BY DEF Init, RowsAreTyped, DealStatus, ShippingStatus, Idle
<1>2. LockIsExclusive /\ HeldRequestPasses
  BY DEF Init, LockIsExclusive, HeldRequestPasses
<1>3. SelectionIsAllowed /\ TimelineIsOrdered
  BY DEF Init, SelectionIsAllowed, TimelineIsOrdered, Reached
<1> QED
  BY <1>1, <1>2, <1>3 DEF TradeInv

-----------------------------------------------------------------------------
(***************************************************************************)
(* What the five ways of writing the rows do to the stamps.  The request   *)
(* that writes passes its checks in the state it writes in.                *)
(***************************************************************************)

\* The parts of the invariant that speak of the rows alone.
RowsInv == SelectionIsAllowed /\ TimelineIsOrdered

LEMMA StoreKeepsRows ==
  ASSUME RowsAreTyped, RowsInv, NEW s \in Sessions, work[s] \in Request,
         Passes(work[s]), Store(s)
  PROVE  /\ RowsInv'
         /\ item' \in Item
         /\ deal' \in [status : DealStatus, signed : SUBSET Role,
                       shipping : ShippingStatus, stamps : SUBSET Stamp]
         /\ selection' \in Selection \cup {NoSelection}
<1> USE DEF RowsAreTyped, RowsInv, SelectionIsAllowed,
            TimelineIsOrdered, Reached
<1>1. item' = item /\ Allowed(item)' = Allowed(item)
  BY DEF Store, Allowed, HighValue, LowValue
<1>2. CASE StoreSignature(s)
  <2>1. deal.status = "pending_signatures" /\ work[s].role \in Role
    BY <1>2 DEF StoreSignature, Passes, Request
  <2>2. CASE deal.signed \cup {work[s].role} = Role
    <3>1. deal' = [deal EXCEPT !.signed = Role, !.status = "confirmed",
                               !.stamps = @ \cup {"confirmed_at"}]
      BY <1>2, <2>2 DEF StoreSignature, Signed
    <3>2. /\ deal'.status = "confirmed" /\ deal'.signed = Role
          /\ deal'.shipping = deal.shipping
          /\ deal'.stamps = deal.stamps \cup {"confirmed_at"}
          /\ selection' = selection
      BY <1>2, <3>1 DEF StoreSignature
    <3>3. RowsInv'
      BY <1>1, <2>1, <3>2
    <3> QED
      BY <1>1, <1>2, <3>1, <3>2, <3>3 DEF StoreSignature, Stamp, DealStatus
  <2>3. CASE deal.signed \cup {work[s].role} # Role
    <3>1. deal' = [deal EXCEPT !.signed = @ \cup {work[s].role}]
      BY <1>2, <2>3 DEF StoreSignature, Signed
    <3> QED
      BY <1>1, <1>2, <2>1, <3>1 DEF StoreSignature
  <2> QED
    BY <2>2, <2>3
<1>3. CASE StoreEnd(s)
  <2>1. deal.status = "pending_signatures"
    BY <1>3 DEF StoreEnd, Passes
  <2>2. PICK end \in {"cancelled", "expired"} : deal' = [deal EXCEPT !.status = end]
    BY <1>3 DEF StoreEnd
  <2> QED
    BY <1>1, <1>3, <2>1, <2>2 DEF StoreEnd, DealStatus
<1>4. CASE StoreSelection(s)
  <2>1. SelectionMutable /\ work[s].method \in Allowed(item)
    BY <1>4 DEF StoreSelection, Passes
  <2>2. work[s].method \in Method /\ work[s].paid_by \in Payer
    BY <1>4 DEF StoreSelection, Request
  <2>3. selection' \in Selection /\ selection' # NoSelection
    BY <1>4, <2>2 DEF StoreSelection, Selection, NoSelection, Payer
  <2>4. selection'.method \in Allowed(item)
    BY <1>4, <2>1 DEF StoreSelection
  <2> QED
    BY <1>1, <1>4, <2>3, <2>4 DEF StoreSelection
<1>5. CASE StoreTradeAction(s)
  <2>1. Mutable /\ deal.status = "confirmed"
    BY <1>5 DEF StoreTradeAction, Passes, Mutable, Visible
  <2>2. CASE work[s].kind = "mark_shipped"
    <3>1. deal.shipping = "shipping_pending" /\ selection # NoSelection
      BY <2>2 DEF Passes, CanShip
    <3>2. deal' = [deal EXCEPT !.shipping = "shipped", !.stamps = @ \cup {"shipped_at"}]
      BY <1>5, <2>2 DEF StoreTradeAction, Traded, Advanced
    <3>3. /\ deal'.status = deal.status /\ deal'.signed = deal.signed
          /\ deal'.shipping = "shipped"
          /\ deal'.stamps = deal.stamps \cup {"shipped_at"}
          /\ selection' = selection
      BY <1>5, <3>2 DEF StoreTradeAction
    <3>4. RowsInv'
      BY <1>1, <2>1, <3>1, <3>3
    <3> QED
      BY <1>1, <1>5, <3>2, <3>3, <3>4 DEF StoreTradeAction, Stamp, ShippingStatus
  <2>3. CASE work[s].kind = "mark_delivered"
    <3>1. deal.shipping = "shipped"
      BY <2>3 DEF Passes
    <3>2. deal' = [deal EXCEPT !.shipping = "delivered", !.stamps = @ \cup {"delivered_at"}]
      BY <1>5, <2>3 DEF StoreTradeAction, Traded, Advanced
    <3>3. /\ deal'.status = deal.status /\ deal'.signed = deal.signed
          /\ deal'.shipping = "delivered"
          /\ deal'.stamps = deal.stamps \cup {"delivered_at"}
          /\ selection' = selection
      BY <1>5, <3>2 DEF StoreTradeAction
    <3>4. RowsInv'
      BY <1>1, <2>1, <3>1, <3>3
    <3> QED
      BY <1>1, <1>5, <3>2, <3>3, <3>4 DEF StoreTradeAction, Stamp, ShippingStatus
  <2>4. CASE work[s].kind = "mark_completed"
    <3>1. deal.shipping = "delivered"
      BY <2>4 DEF Passes
    <3>2. deal' = [deal EXCEPT !.shipping = "completed", !.stamps = @ \cup {"completed_at"},
                               !.status = "completed"]
      BY <1>5, <2>4 DEF StoreTradeAction, Traded, Advanced
    <3> QED
      BY <1>1, <1>5, <2>1, <3>1, <3>2 DEF StoreTradeAction, Stamp, ShippingStatus, DealStatus
  <2> QED
    BY <1>5, <2>2, <2>3, <2>4 DEF StoreTradeAction
<1> QED
  BY <1>2, <1>3, <1>4, <1>5 DEF Store

\* An UPDATE of a revocation writes over any status, after the row is free.
LEMMA RevocationKeepsRows ==
  ASSUME RowsAreTyped, RowsInv, NEW u \in Role, RevocationWrites(u)
  PROVE  /\ RowsInv'
         /\ deal' \in [status : DealStatus, signed : SUBSET Role,
                       shipping : ShippingStatus, stamps : SUBSET Stamp]
<1> USE DEF RowsAreTyped, RowsInv, SelectionIsAllowed,
            TimelineIsOrdered, Reached
<1>1. item' = item /\ Allowed(item)' = Allowed(item) /\ selection' = selection
  BY DEF RevocationWrites, Allowed, HighValue, LowValue
<1>2. deal' = [deal EXCEPT !.status = "cancelled_revoked"]
  BY DEF RevocationWrites
<1> QED
  BY <1>1, <1>2 DEF DealStatus

-----------------------------------------------------------------------------
(***************************************************************************)
(* Every step keeps the invariant.                                         *)
(***************************************************************************)

LEMMA RequestIsNotIdle == \A q \in Request : q # Idle
BY DEF Request, Idle

\* A step that leaves the rows alone keeps what is said of them.
LEMMA RowsUnchanged ==
  ASSUME RowsInv, UNCHANGED <<item, deal, selection>>
  PROVE  RowsInv' /\ \A q : Passes(q)' <=> Passes(q)
<1>1. RowsInv'
  BY DEF RowsInv, SelectionIsAllowed, TimelineIsOrdered, Reached,
     Allowed, HighValue, LowValue
<1>2. \A q : Passes(q)' <=> Passes(q)
  BY DEF Passes, SelectionMutable, Mutable, Visible, CanShip, Allowed, HighValue, LowValue
<1> QED
  BY <1>1, <1>2

LEMMA TradeStep == TradeInv /\ [Next]_vars => TradeInv'
<1> SUFFICES ASSUME TradeInv, [Next]_vars PROVE TradeInv'
  OBVIOUS
<1> USE DEF TradeInv
<1>r. RowsInv
  BY DEF RowsInv
<1>1. ASSUME NEW s \in Sessions, NEW q \in Request, LockDeal(s, q) PROVE TradeInv'
  <2>1. UNCHANGED <<item, deal, selection, revoking>> /\ work' = [work EXCEPT ![s] = q]
    BY <1>1 DEF LockDeal
  <2>2. RowsInv' /\ Passes(q)'
    BY <1>1, <1>r, <2>1, RowsUnchanged DEF LockDeal
  <2>3. RowsAreTyped'
    BY <2>1 DEF RowsAreTyped, Item
  <2>4. \A r \in Sessions : work'[r] = IF r = s THEN q ELSE Idle
    BY <1>1, <2>1 DEF RowsAreTyped, LockDeal, Unlocked
  <2>5. LockIsExclusive' /\ HeldRequestPasses'
    BY <2>2, <2>4 DEF LockIsExclusive, HeldRequestPasses
  <2> QED
    BY <2>2, <2>3, <2>5 DEF RowsInv
<1>2. ASSUME NEW s \in Sessions, Store(s) PROVE TradeInv'
  <2>1. work[s] # Idle /\ work[s] \in Request
    BY <1>2 DEF Store, StoreSignature, StoreEnd, StoreSelection, StoreTradeAction,
       Idle, RowsAreTyped
  <2>2. \A r \in Sessions : work'[r] = Idle
    BY <1>2, <2>1 DEF Store, LockIsExclusive, RowsAreTyped
  <2>3. LockIsExclusive' /\ HeldRequestPasses'
    BY <2>2 DEF LockIsExclusive, HeldRequestPasses
  <2>4. Passes(work[s])
    BY <2>1 DEF HeldRequestPasses
  <2>5. /\ RowsInv'
        /\ item' \in Item
        /\ deal' \in [status : DealStatus, signed : SUBSET Role,
                      shipping : ShippingStatus, stamps : SUBSET Stamp]
        /\ selection' \in Selection \cup {NoSelection}
    BY <1>2, <1>r, <2>1, <2>4, StoreKeepsRows
  <2>6. work' \in [Sessions -> Request \cup {Idle}] /\ revoking' \subseteq Role
    BY <1>2 DEF Store, RowsAreTyped
  <2> QED
    BY <2>3, <2>5, <2>6 DEF RowsInv, RowsAreTyped
<1>3. ASSUME NEW s \in Sessions, Abort(s) PROVE TradeInv'
  <2>1. UNCHANGED <<item, deal, selection, revoking>> /\ work' = [work EXCEPT ![s] = Idle]
    BY <1>3 DEF Abort
  <2>2. RowsInv' /\ \A q : Passes(q)' <=> Passes(q)
    BY <1>r, <2>1, RowsUnchanged
  <2>3. RowsAreTyped'
    BY <2>1 DEF RowsAreTyped, Item
  <2>4. LockIsExclusive' /\ HeldRequestPasses'
    BY <2>1, <2>2 DEF LockIsExclusive, HeldRequestPasses, RowsAreTyped
  <2> QED
    BY <2>2, <2>3, <2>4 DEF RowsInv
<1>4. ASSUME UNCHANGED <<item, deal, selection, work>>, revoking' \subseteq Role
      PROVE  TradeInv'
  <2>1. RowsInv' /\ \A q : Passes(q)' <=> Passes(q)
    BY <1>4, <1>r, RowsUnchanged
  <2>2. RowsAreTyped'
    BY <1>4 DEF RowsAreTyped, Item
  <2>3. LockIsExclusive' /\ HeldRequestPasses'
    BY <1>4, <2>1 DEF LockIsExclusive, HeldRequestPasses
  <2> QED
    BY <2>1, <2>2, <2>3 DEF RowsInv
<1>5. ASSUME NEW u \in Role, RevocationWrites(u) PROVE TradeInv'
  <2>1. /\ RowsInv'
        /\ deal' \in [status : DealStatus, signed : SUBSET Role,
                      shipping : ShippingStatus, stamps : SUBSET Stamp]
    BY <1>5, <1>r, RevocationKeepsRows
  <2>2. RowsAreTyped'
    BY <1>5, <2>1 DEF RevocationWrites, RowsAreTyped, Item
  <2>3. LockIsExclusive' /\ HeldRequestPasses'
    BY <1>5 DEF RevocationWrites, Unlocked, LockIsExclusive, HeldRequestPasses
  <2> QED
    BY <2>1, <2>2, <2>3 DEF RowsInv
<1>6. ASSUME NEW u \in Role, RevocationReads(u) PROVE TradeInv'
  BY <1>4, <1>6 DEF RevocationReads, RowsAreTyped
<1>7. ASSUME NEW s \in Sessions, CheckQuota(s) \/ SendMessage(s) PROVE TradeInv'
  BY <1>4, <1>7 DEF CheckQuota, SendMessage, RowsAreTyped
<1>8. CASE UNCHANGED vars
  BY <1>4, <1>8 DEF vars, RowsAreTyped
<1> QED
  BY <1>1, <1>2, <1>3, <1>5, <1>6, <1>7, <1>8 DEF Next

\* No request decides on a deal that another is writing: what the holder of
\* the row lock checked is true when it commits.
THEOREM TradeIsInvariant == Spec => []TradeInv
BY TradeInit, TradeStep, PTL DEF Spec

-----------------------------------------------------------------------------
(***************************************************************************)
(* The chat.                                                               *)
(***************************************************************************)

LEMMA ChatInit == Init => ChatInv
BY SessionsAssumption, MessagesAssumption, FS_EmptySet, FS_CardinalityType
   DEF Init, ChatInv

LEMMA ChatStep == TradeInv /\ ChatInv /\ [Next]_vars => ChatInv'
<1> SUFFICES ASSUME TradeInv, ChatInv, [Next]_vars PROVE ChatInv'
  OBVIOUS
<1> USE DEF ChatInv
<1>1. /\ IsFiniteSet(sending) /\ Cardinality(sending) \in Nat
      /\ Cardinality(Sessions) \in Nat /\ MaxMessages \in Nat
  BY SessionsAssumption, MessagesAssumption, FS_Subset, FS_CardinalityType
<1>2. ASSUME NEW s \in Sessions, CheckQuota(s) PROVE ChatInv'
  <2>1. sending' = sending \cup {s} /\ messages' = messages /\ messages < MaxMessages
    BY <1>2 DEF CheckQuota
  <2>2. IsFiniteSet(sending') /\ Cardinality(sending') <= Cardinality(Sessions)
    BY <2>1, SessionsAssumption, FS_Subset
  <2>3. Cardinality(sending') \in Nat
    BY <2>2, FS_CardinalityType
  <2>4. Reached("confirmed_at")'
    BY <1>2 DEF CheckQuota, TradeInv, TimelineIsOrdered, Reached
  <2> QED
    BY <1>1, <2>1, <2>2, <2>3, <2>4
<1>3. ASSUME NEW s \in Sessions, SendMessage(s) PROVE ChatInv'
  <2>1. /\ sending' = sending \ {s} /\ messages' = messages + 1
        /\ s \in sending /\ deal' = deal
    BY <1>3 DEF SendMessage
  <2>2. Cardinality(sending') = Cardinality(sending) - 1
    BY <1>1, <2>1, FS_RemoveElement
  <2> QED
    BY <1>1, <2>1, <2>2 DEF Reached
<1>4. ASSUME UNCHANGED <<messages, sending>>, deal.stamps \subseteq deal'.stamps
      PROVE  ChatInv'
  BY <1>4 DEF Reached
<1>5. ASSUME NEW s \in Sessions, Store(s) PROVE ChatInv'
  <2>1. deal.stamps \subseteq deal'.stamps
    <3> USE DEF TradeInv, RowsAreTyped
    <3>1. CASE StoreSignature(s)
      BY <3>1 DEF StoreSignature, Signed
    <3>2. CASE StoreEnd(s) \/ StoreSelection(s)
      BY <3>2 DEF StoreEnd, StoreSelection
    <3>3. CASE StoreTradeAction(s)
      BY <3>3 DEF StoreTradeAction, Traded, Advanced
    <3> QED
      BY <1>5, <3>1, <3>2, <3>3 DEF Store
  <2> QED
    BY <1>4, <1>5, <2>1 DEF Store
<1>6. ASSUME NEW u \in Role, RevocationWrites(u) PROVE ChatInv'
  BY <1>4, <1>6 DEF RevocationWrites, TradeInv, RowsAreTyped
<1>7. CASE UNCHANGED <<deal, messages, sending>>
  BY <1>4, <1>7
<1>8. ASSUME NEW s \in Sessions, NEW q \in Request, LockDeal(s, q) PROVE ChatInv'
  BY <1>7, <1>8 DEF LockDeal
<1>9. ASSUME NEW s \in Sessions, Abort(s) PROVE ChatInv'
  BY <1>7, <1>9 DEF Abort
<1>10. ASSUME NEW u \in Role, RevocationReads(u) PROVE ChatInv'
  BY <1>7, <1>10 DEF RevocationReads
<1>11. CASE UNCHANGED vars
  BY <1>7, <1>11 DEF vars
<1> QED
  BY <1>2, <1>3, <1>5, <1>6, <1>8, <1>9, <1>10, <1>11 DEF Next

LEMMA ChatIsInvariant == Spec => []ChatInv
BY ChatInit, ChatStep, TradeIsInvariant, PTL DEF Spec

\* send_message counts before it stores: with any number of senders the cap
\* of a deal is passed by at most one message less than there are senders.
THEOREM ChatBounded == Spec => []ChatIsBounded
<1>1. ChatInv => ChatIsBounded
  BY DEF ChatInv, ChatIsBounded
<1> QED
  BY <1>1, ChatIsInvariant, PTL

-----------------------------------------------------------------------------
(***************************************************************************)
(* What the invariant gives.                                               *)
(***************************************************************************)

\* Every column of the deal, the selection and the messages holds a value the
\* schema lists.
THEOREM TradeTypeCorrect == Spec => []TypeOK
<1>1. TradeInv /\ ChatInv => TypeOK
  <2> SUFFICES ASSUME TradeInv, ChatInv PROVE TypeOK
    OBVIOUS
  <2>1. messages \in 0 .. (MaxMessages + Cardinality(Sessions))
    <3>1. IsFiniteSet(sending) /\ Cardinality(sending) \in Nat
          /\ Cardinality(Sessions) \in Nat
      BY SessionsAssumption, FS_Subset, FS_CardinalityType DEF ChatInv
    <3> QED
      BY <3>1, MessagesAssumption DEF ChatInv
  <2> QED
    BY <2>1 DEF TypeOK, TradeInv, RowsAreTyped, ChatInv
<1> QED
  BY <1>1, TradeIsInvariant, ChatIsInvariant, PTL

\* The stamps, the shipping status and the status of a deal tell one story,
\* whatever requests, expiries and revocations race for its row, the deals that
\* a revocation ended after their confirmation included.
THEOREM TimelineOrdered == Spec => []TimelineIsOrdered
<1>1. TradeInv => TimelineIsOrdered
  BY DEF TradeInv
<1> QED
  BY <1>1, TradeIsInvariant, PTL

\* What was under way when a trade ended changes nothing of it, except that a
\* revocation that had read it earlier still writes its status.
THEOREM EndedTradesStandStill == Spec => EndedTradeStandsStill
<1>1. TradeInv /\ [Next]_vars =>
        [deal.status \in {"cancelled", "expired", "cancelled_revoked", "completed"} =>
            \/ UNCHANGED <<deal, selection>>
            \/ /\ deal' = [deal EXCEPT !.status = "cancelled_revoked"]
               /\ \E u \in revoking : u \notin revoking'
               /\ UNCHANGED selection]_vars
  <2> SUFFICES ASSUME TradeInv, [Next]_vars,
                      deal.status \in {"cancelled", "expired", "cancelled_revoked", "completed"}
               PROVE  \/ UNCHANGED <<deal, selection>>
                      \/ /\ deal' = [deal EXCEPT !.status = "cancelled_revoked"]
                         /\ \E u \in revoking : u \notin revoking'
                         /\ UNCHANGED selection
    OBVIOUS
  <2>1. ASSUME NEW s \in Sessions, Store(s) PROVE FALSE
    <3>1. work[s] # Idle
      BY <2>1 DEF Store, StoreSignature, StoreEnd, StoreSelection, StoreTradeAction, Idle
    <3>2. Passes(work[s])
      BY <3>1 DEF TradeInv, HeldRequestPasses
    <3>3. work[s].kind \in {"sign", "cancel", "expire", "select", "mark_shipped",
                            "mark_delivered", "mark_completed"}
      BY <2>1 DEF Store, StoreSignature, StoreEnd, StoreSelection, StoreTradeAction
    <3> QED
      BY <3>2, <3>3 DEF Passes, SelectionMutable, Mutable, Visible
  <2>2. ASSUME NEW u \in Role, RevocationWrites(u)
        PROVE  /\ deal' = [deal EXCEPT !.status = "cancelled_revoked"]
               /\ \E r \in revoking : r \notin revoking'
               /\ UNCHANGED selection
    BY <2>2 DEF RevocationWrites
  <2> QED
    BY <2>1, <2>2 DEF Next, LockDeal, Abort, CheckQuota, SendMessage, RevocationReads, vars
<1> QED
  BY <1>1, TradeIsInvariant, PTL DEF Spec, EndedTradeStandsStill

\* The shipping method cannot change once the goods are under way.
THEOREM ShippedGoodsKeepTheirMethod == Spec => ShippedAsSelected
<1>1. TradeInv /\ [Next]_vars =>
        [Reached("shipped_at") => /\ selection' = selection
                                  /\ selection.method \in Allowed(item)]_vars
  <2> SUFFICES ASSUME TradeInv, [Next]_vars, Reached("shipped_at")
               PROVE  selection' = selection /\ selection.method \in Allowed(item)
    OBVIOUS
  <2>1. selection.method \in Allowed(item)
    BY DEF TradeInv, TimelineIsOrdered, SelectionIsAllowed
  <2>2. ASSUME NEW s \in Sessions, StoreSelection(s), Store(s) PROVE FALSE
    <3>1. work[s] # Idle /\ Passes(work[s])
      BY <2>2 DEF StoreSelection, Idle, TradeInv, HeldRequestPasses
    <3> QED
      BY <2>2, <3>1 DEF StoreSelection, Passes, SelectionMutable, TradeInv,
         TimelineIsOrdered
  <2>3. selection' = selection
    BY <2>2 DEF Next, LockDeal, Store, StoreSignature, StoreEnd, StoreTradeAction,
       Abort, CheckQuota, SendMessage, RevocationReads, RevocationWrites, vars
  <2> QED
    BY <2>1, <2>3
<1> QED
  BY <1>1, TradeIsInvariant, PTL DEF Spec, ShippedAsSelected

\* What the window asks a user to do is never refused, and somebody is always
\* asked until the trade is over.
THEOREM WindowAdviceIsGood == Spec => []WindowAsksForWhatPasses
<1>1. TradeInv => WindowAsksForWhatPasses
  <2> SUFFICES ASSUME TradeInv, Visible
               PROVE  /\ \A role \in Role :
                            LET asked == NextRequiredAction(role)
                            IN  asked \notin {"wait", "none"} =>
                                  \E q \in Request : /\ q.kind = asked
                                                     /\ asked = "select" \/ q.role = role
                                                     /\ Passes(q)
                      /\ deal.status = "confirmed" =>
                            \E role \in Role : NextRequiredAction(role) \notin {"wait", "none"}
    BY DEF WindowAsksForWhatPasses
  <2>1. deal.shipping \in ShippingStatus
    BY DEF TradeInv, RowsAreTyped
  <2>2. deal.shipping # "completed" <=> deal.status = "confirmed"
    BY DEF Visible, TradeInv, TimelineIsOrdered
  <2>3. ASSUME NEW role \in Role, NextRequiredAction(role) = "select"
        PROVE  \E q \in Request : q.kind = "select" /\ Passes(q)
    <3> DEFINE q == [kind |-> "select", method |-> "insured_tracked_parcel", paid_by |-> "buyer"]
    <3>1. q \in Request
      BY DEF Request, Method, Payer
    <3>2. deal.shipping = "shipping_pending"
      BY <2>1, <2>3 DEF NextRequiredAction, ShippingStatus
    <3>3. Passes(q)
      BY <2>2, <3>2 DEF Passes, SelectionMutable, Visible, Allowed
    <3> QED
      BY <3>1, <3>3
  <2>4. ASSUME NEW role \in Role, NEW asked \in {"mark_shipped", "mark_delivered", "mark_completed"},
               NextRequiredAction(role) = asked
        PROVE  \E q \in Request : q.kind = asked /\ q.role = role /\ Passes(q)
    <3> DEFINE q == [kind |-> asked, role |-> role]
    <3>1. q \in Request
      BY DEF Request
    <3>2. Mutable
      BY <2>1, <2>2, <2>4 DEF Mutable, NextRequiredAction, ShippingStatus
    <3>3. Passes(q)
      BY <2>1, <2>4, <3>2 DEF Passes, CanShip, NextRequiredAction, ShippingStatus
    <3> QED
      BY <3>1, <3>3
  <2>5. \A role \in Role : NextRequiredAction(role) \in
          {"select", "mark_shipped", "mark_delivered", "mark_completed", "wait", "none"}
    BY <2>1 DEF NextRequiredAction, ShippingStatus
  <2>6. deal.status = "confirmed" =>
          \E role \in Role : NextRequiredAction(role) \notin {"wait", "none"}
    <3> SUFFICES ASSUME deal.status = "confirmed"
                 PROVE  \/ NextRequiredAction("buyer") \notin {"wait", "none"}
                        \/ NextRequiredAction("seller") \notin {"wait", "none"}
      BY DEF Role
    <3> QED
      BY <2>1, <2>2 DEF NextRequiredAction, ShippingStatus
  <2> QED
    BY <2>3, <2>4, <2>5, <2>6
<1> QED
  BY <1>1, TradeIsInvariant, PTL

=============================================================================
