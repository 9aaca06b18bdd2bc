---------------------------- MODULE TradeWindow ----------------------------
(***************************************************************************)
(* One deal from its first signature to the end of its trade: the two      *)
(* signatures, the shipping method, the shipping states and the chat       *)
(* (deal_trade_window_service.py, deal_shipping_policy_service.py,         *)
(* deal_message_service.py).                                               *)
(*                                                                         *)
(* A handler that decides on the deal takes its row lock first, so it is   *)
(* two steps here: LockDeal (the SELECT ... FOR UPDATE and every check     *)
(* behind it) and Store (the writes and the commit).  Chat and mandate     *)
(* revocation read the deal without the lock and act later.                *)
(***************************************************************************)
EXTENDS Integers, FiniteSets

CONSTANTS Sessions,     \* handlers that may be in flight at the same time
          Kinds,        \* the kinds of item (_category_kind) of this instance
          Prices,       \* the agreed prices, in cents, of this instance
          MaxMessages   \* MAX_MESSAGES_PER_DEAL

ASSUME SessionsAssumption == IsFiniteSet(Sessions)
ASSUME KindsAssumption == Kinds \subseteq {"small", "electronics", "fragile", "unknown"}
ASSUME PricesAssumption == Prices \subseteq Nat
ASSUME MessagesAssumption == MaxMessages \in Nat \ {0}

VARIABLES item,        \* what is sold: its kind, its price, whether pickup is possible
          deal,        \* the row in deals
          selection,   \* the row in deal_shipping_selections, or NoSelection
          work,        \* the request each session carries out under the row lock
          revoking,    \* sides whose revocation has read the deal as pending
          messages,    \* how many rows deal_messages has
          sending      \* sessions that counted the messages and have not stored theirs

vars == <<item, deal, selection, work, revoking, messages, sending>>

-----------------------------------------------------------------------------
(* The shipping policy.                                                    *)

Method == {"pickup", "untracked_letter", "registered_letter",
           "tracked_parcel", "insured_tracked_parcel"}
Payer == {"buyer", "seller", "included"}
Item == [kind : Kinds, price : Prices, pickup : BOOLEAN]

HighValue(i) == i.price >= 50000
LowValue(i) == i.price < 2500

\* The methods calculate_shipping_options allows for an item.
Allowed(i) ==
    (IF i.pickup THEN {"pickup"} ELSE {})
    \cup (IF i.kind = "small" /\ LowValue(i) THEN {"untracked_letter"} ELSE {})
    \cup (IF i.kind = "small" \/ (i.kind = "unknown" /\ LowValue(i))
            THEN {"registered_letter"} ELSE {})
    \cup (IF HighValue(i) THEN {} ELSE {"tracked_parcel"})
    \cup {"insured_tracked_parcel"}

\* The one method it recommends.
RecommendedCode(i) ==
    IF i.pickup THEN "pickup"
    ELSE IF HighValue(i) \/ i.kind = "fragile" THEN "insured_tracked_parcel"
    ELSE IF LowValue(i) /\ i.kind = "small" THEN "untracked_letter"
    ELSE IF LowValue(i) /\ i.kind = "unknown" THEN "registered_letter"
    ELSE "tracked_parcel"

-----------------------------------------------------------------------------
Role == {"buyer", "seller"}
DealStatus == {"pending_signatures", "confirmed", "completed", "cancelled",
               "expired", "cancelled_revoked"}
ShippingStatus == {"shipping_pending", "shipped", "delivered", "completed"}
Selection == [method : Method, paid_by : Payer]
NoSelection == [method |-> "none", paid_by |-> "none"]

Stamp == {"confirmed_at", "shipped_at", "delivered_at", "completed_at"}

Request == [kind : {"sign", "cancel", "mark_shipped", "mark_delivered", "mark_completed"},
            role : Role]
           \cup [kind : {"expire"}]
           \cup [kind : {"select"}, method : Method, paid_by : Payer]
Idle == [kind |-> "idle"]

TypeOK ==
    /\ item \in Item
    /\ deal \in [status : DealStatus, signed : SUBSET Role,
                 shipping : ShippingStatus, stamps : SUBSET Stamp]
    /\ selection \in Selection \cup {NoSelection}
    /\ work \in [Sessions -> Request \cup {Idle}]
    /\ revoking \subseteq Role
    /\ messages \in 0..(MaxMessages + Cardinality(Sessions))
    /\ sending \subseteq Sessions

Init ==
    /\ item \in Item
    /\ deal = [status |-> "pending_signatures", signed |-> {},
               shipping |-> "shipping_pending", stamps |-> {}]
    /\ selection = NoSelection
    /\ work = [s \in Sessions |-> Idle]
    /\ revoking = {}
    /\ messages = 0
    /\ sending = {}

-----------------------------------------------------------------------------
(* What each handler checks once it holds the row.                         *)

Visible == /\ deal.status \in {"confirmed", "completed"}
           /\ "confirmed_at" \in deal.stamps

Mutable == /\ Visible
           /\ deal.status # "completed"
           /\ deal.shipping # "completed"

SelectionMutable == /\ deal.status = "confirmed"
                    /\ "confirmed_at" \in deal.stamps
                    /\ deal.shipping = "shipping_pending"

\* Mutant: mark_shipped without a selection.
CanShip_Unselected(q) == q.role = "seller" /\ deal.shipping = "shipping_pending"

CanShip(q) == /\ q.role = "seller"
              /\ deal.shipping = "shipping_pending"
              /\ selection # NoSelection

\* Mutant: a missing selection does not hold the seller up.
NextRequiredAction_Unselected(role) ==
    CASE deal.shipping = "shipping_pending" -> IF role = "seller" THEN "mark_shipped" ELSE "wait"
      [] deal.shipping = "shipped" -> IF role = "buyer" THEN "mark_delivered" ELSE "wait"
      [] deal.shipping = "delivered" -> "mark_completed"
      [] deal.shipping = "completed" -> "none"

\* What the window asks a user to do next, by the request that does it.
NextRequiredAction(role) ==
    CASE deal.shipping = "shipping_pending" ->
            IF selection = NoSelection THEN "select"
            ELSE IF role = "seller" THEN "mark_shipped" ELSE "wait"
      [] deal.shipping = "shipped" -> IF role = "buyer" THEN "mark_delivered" ELSE "wait"
      [] deal.shipping = "delivered" -> "mark_completed"
      [] deal.shipping = "completed" -> "none"

Passes(q) ==
    CASE q.kind = "sign" -> deal.status = "pending_signatures" /\ q.role \notin deal.signed
      [] q.kind \in {"cancel", "expire"} -> deal.status = "pending_signatures"
      [] q.kind = "select" -> SelectionMutable /\ q.method \in Allowed(item)
      [] q.kind = "mark_shipped" -> Mutable /\ CanShip(q)
      [] q.kind = "mark_delivered" -> Mutable /\ q.role = "buyer" /\ deal.shipping = "shipped"
      [] q.kind = "mark_completed" -> Mutable /\ deal.shipping = "delivered"

\* Mutant: the deal is loaded without FOR UPDATE.
Unlocked_NoLock == TRUE

\* No session holds the deal's row.
Unlocked == \A s \in Sessions : work[s] = Idle

-----------------------------------------------------------------------------
(* The handlers.                                                           *)

\* SELECT ... FOR UPDATE returned the row, and the request passed every
\* check.  A request that fails one rolls back and is no step.
LockDeal(s, q) ==
    /\ work[s] = Idle
    /\ s \notin sending
    /\ Unlocked
    /\ Passes(q)
    /\ work' = [work EXCEPT ![s] = q]
    /\ UNCHANGED <<item, deal, selection, revoking, messages, sending>>

\* submit_signature: the second signature confirms the deal.
Signed(role) ==
    LET both == deal.signed \cup {role} = Role
    IN  [deal EXCEPT !.signed = @ \cup {role},
                     !.status = IF both THEN "confirmed" ELSE @,
                     !.stamps = IF both THEN @ \cup {"confirmed_at"} ELSE @]

Advanced(shipping, stamp) ==
    [deal EXCEPT !.shipping = shipping, !.stamps = @ \cup {stamp}]

\* apply_trade_window_action: what each action writes.
Traded(action) ==
    CASE action = "mark_shipped" -> Advanced("shipped", "shipped_at")
      [] action = "mark_delivered" -> Advanced("delivered", "delivered_at")
      [] action = "mark_completed" ->
            [Advanced("completed", "completed_at") EXCEPT !.status = "completed"]

StoreSignature(s) ==
    /\ work[s].kind = "sign"
    /\ deal' = Signed(work[s].role)
    /\ UNCHANGED selection

StoreEnd(s) ==
    /\ work[s].kind \in {"cancel", "expire"}
    /\ deal' = [deal EXCEPT !.status = IF work[s].kind = "cancel" THEN "cancelled" ELSE "expired"]
    /\ UNCHANGED selection

StoreSelection(s) ==
    /\ work[s].kind = "select"
    /\ selection' = [method |-> work[s].method, paid_by |-> work[s].paid_by]
    /\ UNCHANGED deal

StoreTradeAction(s) ==
    /\ work[s].kind \in {"mark_shipped", "mark_delivered", "mark_completed"}
    /\ deal' = Traded(work[s].kind)
    /\ UNCHANGED selection

\* The writes and the commit, which releases the row.
Store(s) ==
    /\ \/ StoreSignature(s) \/ StoreEnd(s) \/ StoreSelection(s) \/ StoreTradeAction(s)
    /\ work' = [work EXCEPT ![s] = Idle]
    /\ UNCHANGED <<item, revoking, messages, sending>>

\* An error before the commit, or a lost connection: the row is released
\* and nothing was written.
Abort(s) ==
    /\ work[s] # Idle
    /\ work' = [work EXCEPT ![s] = Idle]
    /\ UNCHANGED <<item, deal, selection, revoking, messages, sending>>

\* _cascade_cancellations selects the pending deals of the user without a lock ...
RevocationReads(u) ==
    /\ deal.status = "pending_signatures"
    /\ u \notin revoking
    /\ revoking' = revoking \cup {u}
    /\ UNCHANGED <<item, deal, selection, work, messages, sending>>

\* ... and its UPDATE, which waits for the row, writes the status by id.
RevocationWrites(u) ==
    /\ u \in revoking
    /\ Unlocked
    /\ deal' = [deal EXCEPT !.status = "cancelled_revoked"]
    /\ revoking' = revoking \ {u}
    /\ UNCHANGED <<item, selection, work, messages, sending>>

\* Mutant: the count is compared with <= .
CheckQuota_Inclusive(s) ==
    /\ work[s] = Idle
    /\ s \notin sending
    /\ deal.status \in {"confirmed", "completed"}
    /\ messages <= MaxMessages
    /\ sending' = sending \cup {s}
    /\ UNCHANGED <<item, deal, selection, work, revoking, messages>>

\* send_message reads the status and counts the messages without a lock ...
CheckQuota(s) ==
    /\ work[s] = Idle
    /\ s \notin sending
    /\ deal.status \in {"confirmed", "completed"}
    /\ messages < MaxMessages
    /\ sending' = sending \cup {s}
    /\ UNCHANGED <<item, deal, selection, work, revoking, messages>>

\* ... and stores the message whatever was stored since.
SendMessage(s) ==
    /\ s \in sending
    /\ messages' = messages + 1
    /\ sending' = sending \ {s}
    /\ UNCHANGED <<item, deal, selection, work, revoking>>

-----------------------------------------------------------------------------
Next ==
    \/ \E s \in Sessions :
          \/ \E q \in Request : LockDeal(s, q)
          \/ Store(s)
          \/ Abort(s)
          \/ CheckQuota(s)
          \/ SendMessage(s)
    \/ \E u \in Role : RevocationReads(u) \/ RevocationWrites(u)

Spec == Init /\ [][Next]_vars

-----------------------------------------------------------------------------
(* Properties.                                                             *)

Reached(stamp) == stamp \in deal.stamps

\* The stamps of a deal tell one story, whatever its status: nothing is shipped
\* without a method and a confirmation, or confirmed without both signatures;
\* the shipping status is the last stamp, and the later stamps include the
\* earlier; a deal is confirmed or completed when its stamps say so, and not
\* otherwise.  A revocation can end a deal at any point of this story, the
\* confirmed and the completed deal included.
TimelineIsOrdered ==
    /\ Reached("confirmed_at") => deal.signed = Role
    /\ Reached("shipped_at") => Reached("confirmed_at") /\ selection # NoSelection
    /\ Reached("shipped_at") <=> deal.shipping \in {"shipped", "delivered", "completed"}
    /\ Reached("delivered_at") <=> deal.shipping \in {"delivered", "completed"}
    /\ Reached("completed_at") <=> deal.shipping = "completed"
    /\ deal.status # "cancelled_revoked" =>
          /\ deal.status \in {"confirmed", "completed"} <=> Reached("confirmed_at")
          /\ deal.status = "completed" <=> Reached("completed_at")

\* A trade that is over stands still: no signature, stamp or selection is added
\* to a deal that was cancelled, expired, revoked or completed, by whatever was
\* under way.  The one thing that can still be written is the status of a
\* revocation that had read the deal when it was pending.
EndedTradeStandsStill ==
    [][deal.status \in {"cancelled", "expired", "cancelled_revoked", "completed"} =>
          \/ UNCHANGED <<deal, selection>>
          \/ /\ deal' = [deal EXCEPT !.status = "cancelled_revoked"]
             /\ \E u \in revoking : u \notin revoking'
             /\ UNCHANGED selection]_vars

\* What mandate_revocation_service.py says of its cascade: "Confirmed/completed
\* deals are NOT touched."  It does not hold: the status is written over
\* signatures that committed after the cascade had read the deal.
RevocationSparesConfirmed ==
    deal.status = "cancelled_revoked" => ~Reached("confirmed_at")

\* The window never asks for what the next request would be refused: whatever
\* a user is told to do passes every check, and while the trade is open the
\* two are not both told to wait for each other.
WindowAsksForWhatPasses ==
    Visible =>
        /\ \A role \in Role :
              LET asked == NextRequiredAction(role)
              IN  asked \notin {"wait", "none"} =>
                    \E q \in Request : /\ q.kind = asked
                                       /\ asked = "select" \/ q.role = role
                                       /\ Passes(q)
        /\ deal.status = "confirmed" =>
              \E role \in Role : NextRequiredAction(role) \notin {"wait", "none"}

\* Goods that are under way travel by the method, and at the cost of the
\* party, that was selected and allowed when the seller handed them over:
\* a selection that raced with mark_shipped does not change it afterwards.
ShippedAsSelected ==
    [][Reached("shipped_at") => /\ selection' = selection
                                /\ selection.method \in Allowed(item)]_vars

\* Concurrent senders count before they store: the cap is passed by at most
\* one message less than there are senders, and no message belongs to a deal
\* that was never confirmed.
ChatIsBounded ==
    /\ messages + Cardinality(sending) < MaxMessages + Cardinality(Sessions)
    /\ messages > 0 => Reached("confirmed_at")

=============================================================================
