----------------------------- MODULE Proposals -----------------------------
(***************************************************************************)
(* The content of one negotiation: who proposed which terms in which turn, *)
(* which proposal an accept agrees to, and at which price the deal is      *)
(* struck (negotiation_service.py, the offer tools of tool_layer.py).      *)
(*                                                                         *)
(* A request of the API locks the rows before it reads them and is one     *)
(* step.  Two agent tools load the negotiation first and call the service  *)
(* with the row already in their session: the later SELECT ... FOR UPDATE  *)
(* waits for the lock and leaves the loaded attributes as they were.  Such *)
(* a call is Preload, then CounterOffer or AcceptUnderMandate, with        *)
(* anything in between.  A proposal hash covers the negotiation and the    *)
(* terms, so the terms stand for the hash.                                 *)
(***************************************************************************)
EXTENDS Integers, Sequences, FiniteSets, SequencesExt

CONSTANTS Calls,       \* tool calls that preload rows
          Tool,        \* the tool of each: "send_counter_offer" or "accept_offer_under_capital_mandate"
          Caller,      \* the side that each call acts for
          Prices,      \* the prices that are offered
          Deltas,      \* the terms_delta values that are sent
          MaxRounds    \* MAX_ROUNDS

ASSUME RoundsAssumption == MaxRounds \in Nat \ {0}
ASSUME PricesAssumption == Prices \subseteq Nat \ {0}

Side == {"buyer", "seller"}
Other(side) == IF side = "buyer" THEN "seller" ELSE "buyer"

ASSUME CallerAssumption == Caller \in [Calls -> Side]
ASSUME ToolAssumption ==
    Tool \in [Calls -> {"send_counter_offer", "accept_offer_under_capital_mandate"}]

VARIABLES nego,     \* the row: status, state["turns"], rounds_used
          match,    \* the match's status
          onOffer,  \* both intents are active
          deals,    \* the deals of this negotiation, by price (the idempotency key)
          loaded    \* per call, the rows its session holds

vars == <<nego, match, onOffer, deals, loaded>>

-----------------------------------------------------------------------------
(* Canonical terms.                                                        *)

NoMethod == "none"
NoPayer == "none"

\* SHIPPING_METHOD_POLICIES
TrackingPolicy == {"registered_letter", "tracked_parcel", "insured_tracked_parcel"}
InsurancePolicy == {"insured_tracked_parcel"}
ShippingMethod == TrackingPolicy \cup {"pickup", "untracked_letter"}

Terms == [item_price_cents : Prices, shipping_required : BOOLEAN,
          shipping_paid_by : {"buyer", "seller", "included", NoPayer},
          shipping_method_preference : ShippingMethod \cup {NoMethod},
          tracking_required : BOOLEAN, insurance_required : BOOLEAN]

\* A delta that passes validation holds values of some of the terms.
ASSUME DeltasAssumption ==
    \A delta \in Deltas : \E t \in Terms :
        /\ DOMAIN delta \subseteq DOMAIN t
        /\ delta = [k \in DOMAIN delta |-> t[k]]

EmptyTerms(price) ==
    [item_price_cents |-> price, shipping_required |-> FALSE,
     shipping_paid_by |-> NoPayer, shipping_method_preference |-> NoMethod,
     tracking_required |-> FALSE, insurance_required |-> FALSE]

\* _normalize_terms_delta: a method or a payer implies shipping.
Normalized(delta) ==
    LET names(key, none) == key \in DOMAIN delta /\ delta[key] # none
    IN  IF /\ "shipping_required" \notin DOMAIN delta
           /\ \/ names("shipping_method_preference", NoMethod)
              \/ names("shipping_paid_by", NoPayer)
        THEN [k \in DOMAIN delta \cup {"shipping_required"} |->
                IF k = "shipping_required" THEN TRUE ELSE delta[k]]
        ELSE delta

\* The previous terms with the keys of the delta replaced.
Merged(previous, price, delta) ==
    [k \in DOMAIN previous |->
        IF k = "item_price_cents" THEN price
        ELSE IF k \in DOMAIN delta THEN delta[k] ELSE previous[k]]

\* Mutant: the policy does not override the flag a delta has set.
WithMethodPolicy_KeepsFlags(t) ==
    LET method == t.shipping_method_preference
    IN  [t EXCEPT !.tracking_required = @ \/ method \in TrackingPolicy,
                  !.insurance_required = @ \/ method \in InsurancePolicy]

\* The policy of the chosen method overrides the two flags.
WithMethodPolicy(t) ==
    LET method == t.shipping_method_preference
    IN  IF method = NoMethod THEN t
        ELSE [t EXCEPT !.tracking_required = method \in TrackingPolicy,
                       !.insurance_required = @ \/ method \in InsurancePolicy]

WithoutShipping(t) == IF t.shipping_required THEN t ELSE EmptyTerms(t.item_price_cents)

ApplyTermsDelta(previous, price, delta) ==
    WithoutShipping(WithMethodPolicy(Merged(previous, price, Normalized(delta))))

-----------------------------------------------------------------------------
(* Turns.                                                                  *)

IsProposal(turn) == turn.type \in {"offer", "counter_offer"}
Turn == [type : {"offer", "counter_offer", "accept", "reject"}, by : Side, terms : Terms]

ProposalsIn(turns) == {i \in DOMAIN turns : IsProposal(turns[i])}

\* _last_proposal_terms
LastProposalTerms(turns, price) ==
    IF ProposalsIn(turns) = {} THEN EmptyTerms(price) ELSE turns[Max(ProposalsIn(turns))].terms

NewTurn(turns, by, price, delta) ==
    [type |-> IF turns = <<>> THEN "offer" ELSE "counter_offer", by |-> by,
     terms |-> ApplyTermsDelta(LastProposalTerms(turns, price), price, delta)]

\* Mutant: the author of the last turn may answer it.
Answerable_OwnTurn(row, by) ==
    /\ row.status = "active"
    /\ row.turns # <<>>

\* accept_offer and reject_offer answer the last turn of the other side.
Answerable(row, by) ==
    /\ row.status = "active"
    /\ row.turns # <<>>
    /\ Last(row.turns).by # by

NegoStatus == {"none", "active", "agreed", "rejected", "cancelled"}
MatchStatus == {"discovered", "negotiating", "agreed", "rejected", "expired"}
DealStatus == {"none", "pending_signatures", "ended"}
Row == [status : NegoStatus, turns : Seq(Turn), rounds : 0..MaxRounds]
LoadedRow == [status : NegoStatus, turns : Seq(Turn), rounds : 0..MaxRounds, onOffer : BOOLEAN]
NotLoaded == [status |-> "unread", turns |-> <<>>, rounds |-> 0, onOffer |-> FALSE]
Answered == [NotLoaded EXCEPT !.status = "answered"]

TypeOK ==
    /\ nego \in Row
    /\ match \in MatchStatus
    /\ onOffer \in BOOLEAN
    /\ deals \in [Prices -> DealStatus]
    /\ loaded \in [Calls -> LoadedRow \cup {NotLoaded, Answered}]

Init ==
    /\ nego = [status |-> "none", turns |-> <<>>, rounds |-> 0]
    /\ match = "discovered"
    /\ onOffer = TRUE
    /\ deals = [p \in Prices |-> "none"]
    /\ loaded = [c \in Calls |-> NotLoaded]

-----------------------------------------------------------------------------
(* The service.  row is what the session believes of the negotiation: the  *)
(* committed row for a request, the loaded one for a tool.                 *)

\* Mutant: the last round is counted one too late.
CanContinue_OneMore(row) ==
    /\ match \in {"discovered", "negotiating"}
    /\ row.status \in {"none", "active"}
    /\ row.rounds <= MaxRounds

\* Mutant: the status is not checked: after a rollback the agreed turns go on.
CanContinue_AnyStatus(row) ==
    /\ match \in {"discovered", "negotiating"}
    /\ row.rounds < MaxRounds

CanContinue(row) ==
    /\ match \in {"discovered", "negotiating"}
    /\ row.status \in {"none", "active"}
    /\ row.rounds < MaxRounds

\* Both columns are written from the session's row, whatever is stored now.
AddTurn(row, by, price, delta) ==
    /\ CanContinue(row)
    /\ nego' = [status |-> IF row.status = "none" THEN "active" ELSE nego.status,
                turns |-> Append(row.turns, NewTurn(row.turns, by, price, delta)),
                rounds |-> row.rounds + 1]
    /\ match' = IF row.status = "none" THEN "negotiating" ELSE match
    /\ UNCHANGED <<onOffer, deals>>

\* create_pending_deal: one deal for a negotiation and a price, new or found.
CreatePendingDeal(price) ==
    deals' = [deals EXCEPT ![price] = IF @ = "none" THEN "pending_signatures" ELSE @]

\* named is the proposal hash the caller passes, or nothing.
HashMatches(row, named) == named \in {{}, {Last(row.turns).terms}}

Agree(row, offered, by, named) ==
    /\ Answerable(row, by)
    /\ HashMatches(row, named)
    /\ offered
    /\ LET terms == Last(row.turns).terms
       IN  /\ nego' = [nego EXCEPT
                         !.status = "agreed",
                         !.turns = Append(row.turns, [type |-> "accept", by |-> by, terms |-> terms])]
           /\ CreatePendingDeal(terms.item_price_cents)
    /\ match' = "agreed"
    /\ onOffer' = FALSE

\* The hashes a caller can know: those of the turns in the row.
Known == {{}} \cup {{nego.turns[i].terms} : i \in DOMAIN nego.turns}

-----------------------------------------------------------------------------
(* Requests of the API, and send_offer and accept_offer of an agent.       *)

StartOrContinue(by, price, delta) ==
    /\ AddTurn(nego, by, price, delta)
    /\ UNCHANGED loaded

AcceptOffer(by, named) ==
    /\ Agree(nego, onOffer, by, named)
    /\ UNCHANGED loaded

RejectOffer(by) ==
    /\ Answerable(nego, by)
    /\ nego' = [nego EXCEPT !.status = "rejected",
                            !.turns = Append(@, [type |-> "reject", by |-> by,
                                                 terms |-> Last(@).terms])]
    /\ match' = "rejected"
    /\ UNCHANGED <<onOffer, deals, loaded>>

-----------------------------------------------------------------------------
(* Tools that preload.                                                     *)

\* db.get(Negotiation, ...); the capital tool also reads match and intents.
Preload(c) ==
    /\ loaded[c] = NotLoaded
    /\ nego.status # "none"
    /\ loaded' = [loaded EXCEPT ![c] = [status |-> nego.status, turns |-> nego.turns,
                                        rounds |-> nego.rounds, onOffer |-> onOffer]]
    /\ UNCHANGED <<nego, match, onOffer, deals>>

InFlight(c, tool) == Tool[c] = tool /\ loaded[c].status \in NegoStatus

Finish(c) == loaded' = [loaded EXCEPT ![c] = Answered]

CounterOffer(c, price, delta) ==
    /\ InFlight(c, "send_counter_offer")
    /\ AddTurn(loaded[c], Caller[c], price, delta)
    /\ Finish(c)

AcceptUnderMandate(c, named) ==
    /\ InFlight(c, "accept_offer_under_capital_mandate")
    /\ Agree(loaded[c], loaded[c].onOffer, Caller[c], named)
    /\ Finish(c)

\* A check of the tool or of the service refuses the call.
CallFails(c) ==
    /\ loaded[c].status \in NegoStatus
    /\ Finish(c)
    /\ UNCHANGED <<nego, match, onOffer, deals>>

-----------------------------------------------------------------------------
(* What happens to the pair from outside.                                  *)

\* A competing accept, or the cancellation of an intent, closes the pair.
CancelNegotiations ==
    /\ onOffer
    /\ match \in {"discovered", "negotiating"}
    /\ nego' = IF nego.status = "active" THEN [nego EXCEPT !.status = "cancelled"] ELSE nego
    /\ match' = "expired"
    /\ onOffer' = FALSE
    /\ UNCHANGED <<deals, loaded>>

\* The deal is cancelled or expires: _rollback_deal_state.
EndDeal(price) ==
    /\ deals[price] = "pending_signatures"
    /\ deals' = [deals EXCEPT ![price] = "ended"]
    /\ match' = IF match = "agreed" THEN "discovered" ELSE match
    /\ onOffer' = TRUE
    /\ UNCHANGED <<nego, loaded>>

Next ==
    \/ \E by \in Side, price \in Prices, delta \in Deltas : StartOrContinue(by, price, delta)
    \/ \E by \in Side, named \in Known : AcceptOffer(by, named)
    \/ \E by \in Side : RejectOffer(by)
    \/ \E c \in Calls :
          \/ Preload(c)
          \/ CallFails(c)
          \/ \E price \in Prices, delta \in Deltas : CounterOffer(c, price, delta)
          \/ \E named \in Known : AcceptUnderMandate(c, named)
    \/ CancelNegotiations
    \/ \E price \in Prices : EndDeal(price)

Spec == Init /\ [][Next]_vars

-----------------------------------------------------------------------------
(* Properties.                                                             *)

Coherent(t) ==
    LET method == t.shipping_method_preference
    IN  /\ ~t.shipping_required => t = EmptyTerms(t.item_price_cents)
        /\ method # NoMethod => t.tracking_required = (method \in TrackingPolicy)
        /\ method \in InsurancePolicy => t.insurance_required

\* Terms never contradict the shipping method they name, and terms without
\* shipping ask for nothing, however often a delta replaced parts of them.
TermsAreCoherent == \A i \in DOMAIN nego.turns : Coherent(nego.turns[i].terms)

\* Whatever calls overlap, an agreement whose deal has not ended closes the
\* turns and repeats, word for word, a proposal of the other side.
AgreedIsTheirs ==
    match = "agreed" =>
        LET n == Len(nego.turns)
        IN  /\ n >= 2
            /\ nego.turns[n].type = "accept"
            /\ IsProposal(nego.turns[n - 1])
            /\ nego.turns[n - 1].by # nego.turns[n].by
            /\ nego.turns[n - 1].terms = nego.turns[n].terms
            /\ deals[nego.turns[n].terms.item_price_cents] # "none"

\* Nothing is proposed after an answer, and no exchange passes the limit of
\* rounds, not even when a tool overwrites a turn it has not seen.
TurnsEndWithTheAnswer ==
    /\ \A i \in DOMAIN nego.turns : ~IsProposal(nego.turns[i]) => i = Len(nego.turns)
    /\ Cardinality(ProposalsIn(nego.turns)) <= MaxRounds
    /\ nego.status \in {"active", "cancelled"} =>
          /\ nego.turns # <<>> /\ IsProposal(Last(nego.turns))
          /\ nego.rounds = Len(nego.turns)

\* "EC5: idempotency key per evitare double-deal su stessa negoziazione"
\* (schema.py): a negotiation is struck at one price.
OneDealPerNegotiation ==
    \A p, q \in Prices : deals[p] # "none" /\ deals[q] # "none" => p = q

=============================================================================
