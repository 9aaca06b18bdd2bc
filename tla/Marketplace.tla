---------------------------- MODULE Marketplace ----------------------------
(***************************************************************************)
(* The marketplace core of the backend: intents, the matches discovered    *)
(* between them, the negotiation on a match, and the deal an accepted      *)
(* offer creates.  Each table is a function from a row to its status       *)
(* column; each service handler is one action, because it runs in one      *)
(* transaction that locks the rows it decides on.  Where a handler decides *)
(* on rows it did not lock, or had read before it locked them, the model   *)
(* splits the handler or widens its outcome:                               *)
(*   - the agent's tool loads the negotiation and both intents before it   *)
(*     calls accept_offer, whose locking queries return the objects the    *)
(*     session already holds (LoadOffer, LoadParties, then                 *)
(*     AcceptLoadedOffer on whatever the rows have become);                *)
(*   - match discovery reads its candidates, waits for the scoring         *)
(*     provider, and inserts later (ShortlistPair, then UpsertMatch);      *)
(*   - mandate revocation reads the pending deals without a lock and       *)
(*     overwrites them later (BeginRevocation, then FinishRevocation);     *)
(*   - the cascades of accept_offer and cancel_intent select negotiations  *)
(*     first and matches second, so a first offer that commits between the *)
(*     two statements escapes the first one (the parameter late).          *)
(*                                                                         *)
(* Matches is the set of buy/sell pairs the discovery filters let through  *)
(* (opposite sides, same category, overlapping prices, two owners); prices,*)
(* terms and messages are not part of the state.                           *)
(***************************************************************************)
EXTENDS Naturals, Sequences, FiniteSets

CONSTANTS
    Users,       \* accounts; each has one agent
    Intents,     \* rows of intents that can ever be created
    Matches,     \* pairs discovery may propose
    Owner,       \* [Intents -> Users]
    BuyIntent,   \* [Matches -> Intents]
    SellIntent,  \* [Matches -> Intents]
    MaxRounds,   \* negotiation_service.MAX_ROUNDS, 6 in production
    Drafts,      \* bound: the signature drafts that may be asked for
    Tier1,       \* bound: users whose agent still waits for its mandate
    Revokers,    \* bound: users who may revoke their mandate
    Capital,     \* bound: users whose agent may accept and authorize by itself
    MaxLoaded    \* bound: offers that tools have loaded at once

ASSUME OwnerAssumption == Owner \in [Intents -> Users]

\* uq_match allows one row per pair, and the candidate filters require two
\* different owners.
ASSUME MatchAssumption ==
    /\ BuyIntent \in [Matches -> Intents]
    /\ SellIntent \in [Matches -> Intents]
    /\ \A m \in Matches : Owner[BuyIntent[m]] # Owner[SellIntent[m]]
    /\ \A m, k \in Matches :
          BuyIntent[m] = BuyIntent[k] /\ SellIntent[m] = SellIntent[k] => m = k

ASSUME RoundsAssumption == MaxRounds \in Nat \ {0}

Side == {"buyer", "seller"}
Kind == {"sign", "cancel"}

ASSUME BoundsAssumption ==
    /\ Drafts \subseteq Matches \X Side \X Kind
    /\ Tier1 \subseteq Users
    /\ Revokers \subseteq Users
    /\ Capital \subseteq Users
    /\ MaxLoaded \in Nat

VARIABLES
    intent,     \* [Intents -> IntentStatus]
    agent,      \* [Users -> AgentStatus]
    match,      \* [Matches -> MatchStatus]
    nego,       \* [Matches -> NegoStatus]: at most one negotiation per match
    offers,     \* [Matches -> Seq(Side)]: who made each proposal so far
    deal,       \* [Matches -> DealStatus]: the deal of the match's negotiation
    signed,     \* [Matches -> SUBSET Side]: sides that have authorized the deal
    drafts,     \* unconsumed, unexpired signature drafts
    lapsed,     \* matches whose deal is past expires_at
    shortlist,  \* pairs a discovery run has read and not yet stored
    revoking,   \* users whose revocation transaction is in flight
    readDeals,  \* [Users -> SUBSET Matches]: pending deals it has read
    loaded,     \* what the sessions of accepting tools hold
    misled      \* history, not in the code: the intents an accept took on
                \* rows that had changed since it loaded them

vars == << intent, agent, match, nego, offers, deal, signed, drafts, lapsed,
           shortlist, revoking, readDeals, loaded, misled >>

revocationVars == << agent, revoking, readDeals >>

toolVars == << loaded, misled >>

-----------------------------------------------------------------------------

IntentStatus == {"none", "active", "matched", "cancelled"}
AgentStatus  == {"pending_mandate", "active", "revoked"}
MatchStatus  == {"none", "discovered", "negotiating", "agreed", "rejected",
                 "expired"}
NegoStatus   == {"none", "active", "agreed", "rejected", "cancelled"}
DealStatus   == {"none", "pending_signatures", "confirmed", "cancelled",
                 "expired", "cancelled_revoked"}

\* A deal that still binds both intents.
Live == {"pending_signatures", "confirmed"}

\* A deal that ended without a sale.
Dead == {"cancelled", "expired", "cancelled_revoked"}

IntentsOf(m) == {BuyIntent[m], SellIntent[m]}

User(m, s) == Owner[IF s = "buyer" THEN BuyIntent[m] ELSE SellIntent[m]]

MatchesOf(i) == {m \in Matches : i \in IntentsOf(m)}

\* The matches that compete with m: they touch one of its intents.
Rivals(m) == {k \in Matches \ {m} : IntentsOf(k) \cap IntentsOf(m) # {}}

LastOfferBy(m) == offers[m][Len(offers[m])]

\* _verify_agent_ownership: accept_pending=True also admits tier-1 agents.
Usable(u) == agent[u] \in {"active", "pending_mandate"}

-----------------------------------------------------------------------------
(***************************************************************************)
(* Intents and discovery.                                                  *)
(***************************************************************************)

Init ==
    /\ intent = [i \in Intents |-> "none"]
    /\ agent = [u \in Users |->
                    IF u \in Tier1 THEN "pending_mandate" ELSE "active"]
    /\ match = [m \in Matches |-> "none"]
    /\ nego = [m \in Matches |-> "none"]
    /\ offers = [m \in Matches |-> << >>]
    /\ deal = [m \in Matches |-> "none"]
    /\ signed = [m \in Matches |-> {}]
    /\ drafts = {}
    /\ lapsed = {}
    /\ shortlist = {}
    /\ revoking = {}
    /\ readDeals = [u \in Users |-> {}]
    /\ loaded = {}
    /\ misled = {}

CreateIntent(i) ==
    /\ intent[i] = "none"
    /\ intent' = [intent EXCEPT ![i] = "active"]
    /\ UNCHANGED << match, nego, offers, deal, signed, drafts, lapsed,
                    shortlist, revocationVars, toolVars >>

\* A signed mandate moves the user's agent from tier 1 to tier 2.
ActivateAgent(u) ==
    /\ agent[u] = "pending_mandate"
    /\ agent' = [agent EXCEPT ![u] = "active"]
    /\ UNCHANGED << intent, match, nego, offers, deal, signed, drafts, lapsed,
                    shortlist, revoking, readDeals, toolVars >>

\* The candidate queries read both intents as active; the scoring provider is
\* awaited before anything is written.
ShortlistPair(m) ==
    /\ \A i \in IntentsOf(m) : intent[i] = "active"
    /\ shortlist' = shortlist \cup {m}
    /\ UNCHANGED << intent, match, nego, offers, deal, signed, drafts, lapsed,
                    revocationVars, toolVars >>

\* Mutant: finding a pair again puts its row back to discovered.
UpsertedStatus_Reopen(m) == "discovered"

\* An existing row only gets new scores: its status is never written.
UpsertedStatus(m) == IF match[m] = "none" THEN "discovered" ELSE match[m]

UpsertMatch(m) ==
    /\ m \in shortlist
    /\ shortlist' = shortlist \ {m}
    /\ match' = [match EXCEPT ![m] = UpsertedStatus(m)]
    /\ UNCHANGED << intent, nego, offers, deal, signed, drafts, lapsed,
                    revocationVars, toolVars >>

\* The provider fails, scores the pair out, or the limit cuts it off.
DropCandidate(m) ==
    /\ m \in shortlist
    /\ shortlist' = shortlist \ {m}
    /\ UNCHANGED << intent, match, nego, offers, deal, signed, drafts, lapsed,
                    revocationVars, toolVars >>

-----------------------------------------------------------------------------
(***************************************************************************)
(* Negotiation.                                                            *)
(***************************************************************************)

RoundsLeft(m) == Len(offers[m]) < MaxRounds

StartOrContinue(m, s) ==
    /\ Usable(User(m, s))
    /\ match[m] \in {"discovered", "negotiating"}
    /\ nego[m] \in {"none", "active"}
    /\ RoundsLeft(m)
    /\ nego' = [nego EXCEPT ![m] = "active"]
    /\ match' = [match EXCEPT ![m] =
                    IF nego[m] = "none" /\ @ = "discovered" THEN "negotiating"
                    ELSE @]
    /\ offers' = [offers EXCEPT ![m] = Append(@, s)]
    /\ UNCHANGED << intent, deal, signed, drafts, lapsed, shortlist,
                    revocationVars, toolVars >>

\* The first offers that may commit after a cascade over K has selected the
\* negotiations and before it selects the matches: late[k] is the side that
\* opens match k.
LateOpenings(K) ==
    LET unopened == {k \in K : match[k] = "discovered" /\ nego[k] = "none"}
    IN  {late \in UNION {[L -> Side] : L \in SUBSET unopened} :
            \A k \in DOMAIN late : Usable(User(k, late[k]))}

\* Active negotiations on K are cancelled, except the late ones.
CancelNegotiations(K, late) ==
    [k \in Matches |->
        IF k \in DOMAIN late THEN "active"
        ELSE IF k \in K /\ nego[k] = "active" THEN "cancelled"
        ELSE nego[k]]

\* Discovered and negotiating matches on K expire.
ExpireMatches(K) ==
    [k \in Matches |->
        IF k \in K /\ match[k] \in {"discovered", "negotiating"} THEN "expired"
        ELSE match[k]]

AddLateOffers(late) ==
    [k \in Matches |->
        IF k \in DOMAIN late THEN << late[k] >> ELSE offers[k]]

\* create_pending_deal returns the deal the idempotency key finds, if any.
CreatePendingDeal(m) ==
    deal' = [deal EXCEPT ![m] = IF @ = "none" THEN "pending_signatures" ELSE @]

\* Mutant: a negotiation that is already closed can be answered.
CanAnswer_Closed(m, s) == offers[m] # << >> /\ LastOfferBy(m) # s

\* Only the other side's last proposal can be accepted or rejected.
CanAnswer(m, s) ==
    /\ nego[m] = "active"
    /\ offers[m] # << >>
    /\ LastOfferBy(m) # s

\* Mutant: the intents are locked and not looked at.
StillOnOffer_Unchecked(m) == TRUE

\* The status of both intents, as the transaction has read it.
StillOnOffer(m) == \A i \in IntentsOf(m) : intent[i] = "active"

\* Mutant: only the item on sale is taken off the market.
PromoteIntents_SellOnly(m) ==
    intent' = [intent EXCEPT ![SellIntent[m]] = "matched"]

PromoteIntents(m) ==
    intent' = [i \in Intents |->
                  IF i \in IntentsOf(m) THEN "matched" ELSE intent[i]]

\* The writes of an accept, over whatever the rows hold.
TakeOffer(m, late) ==
    /\ PromoteIntents(m)
    /\ nego' = [CancelNegotiations(Rivals(m), late) EXCEPT ![m] = "agreed"]
    /\ match' = [ExpireMatches(Rivals(m)) EXCEPT ![m] = "agreed"]
    /\ offers' = AddLateOffers(late)
    /\ CreatePendingDeal(m)
    /\ UNCHANGED << signed, drafts, lapsed, shortlist, revocationVars >>

\* An accept that loads nothing before accept_offer does: through the API, or by
\* the tool of that name.  It locks the negotiation and the match as it reads
\* them, and while it holds these two no competing accept or cancellation can
\* commit, so the intents are still what it read when it has locked them, too
\* (RowLocks).  The status of the match is not checked.
AcceptOffer(m, s, late) ==
    /\ agent[User(m, s)] = "active"
    /\ CanAnswer(m, s)
    /\ StillOnOffer(m)
    /\ TakeOffer(m, late)
    /\ UNCHANGED toolVars

\* The tool reads the negotiation without a lock.  accept_offer judges its
\* status, its last offer and the agent by what was read.
LoadOffer(m, s) ==
    /\ User(m, s) \in Capital
    /\ agent[User(m, s)] = "active"
    /\ CanAnswer(m, s)
    /\ Cardinality(loaded) < MaxLoaded
    /\ loaded' = loaded \cup {<< m, s, "offer" >>}
    /\ UNCHANGED << intent, match, nego, offers, deal, signed, drafts, lapsed,
                    shortlist, misled, revocationVars >>

\* Then the match and both intents; accept_offer judges these objects too.
LoadParties(m, s) ==
    /\ << m, s, "offer" >> \in loaded
    /\ StillOnOffer(m)
    /\ loaded' = (loaded \ {<< m, s, "offer" >>}) \cup {<< m, s, "parties" >>}
    /\ UNCHANGED << intent, match, nego, offers, deal, signed, drafts, lapsed,
                    shortlist, misled, revocationVars >>

\* The intents an accept of m takes from somebody else, or back from the market
\* for a deal that was struck before.
TakenAnyway(m) ==
    {i \in IntentsOf(m) :
        intent[i] # IF deal[m] = "none" THEN "active" ELSE "matched"}

\* The accept of the tool: every check was made on the loaded objects.  That a
\* late accept can also find another last offer, and then strikes a second deal
\* at another price, is the subject of Proposals.
AcceptLoadedOffer(m, s, late) ==
    /\ << m, s, "parties" >> \in loaded
    /\ TakeOffer(m, late)
    /\ loaded' = loaded \ {<< m, s, "parties" >>}
    /\ misled' = misled \cup TakenAnyway(m)

\* A check fails, the price is not the one the agent named, the database breaks
\* a deadlock, or the tick ends.
DropLoaded(m, s) ==
    /\ loaded \cap {<< m, s, "offer" >>, << m, s, "parties" >>} # {}
    /\ loaded' = loaded \ {<< m, s, "offer" >>, << m, s, "parties" >>}
    /\ UNCHANGED << intent, match, nego, offers, deal, signed, drafts, lapsed,
                    shortlist, misled, revocationVars >>

RejectOffer(m, s) ==
    /\ Usable(User(m, s))
    /\ CanAnswer(m, s)
    /\ nego' = [nego EXCEPT ![m] = "rejected"]
    /\ match' = [match EXCEPT ![m] = "rejected"]
    /\ UNCHANGED << intent, offers, deal, signed, drafts, lapsed, shortlist,
                    revocationVars, toolVars >>

\* Mutant: an intent held by a deal can be cancelled.
Cancellable_Held(i) == intent[i] \in {"active", "matched"}

Cancellable(i) == intent[i] = "active"

CancelIntent(i, late) ==
    /\ Cancellable(i)
    /\ intent' = [intent EXCEPT ![i] = "cancelled"]
    /\ nego' = CancelNegotiations(MatchesOf(i), late)
    /\ match' = ExpireMatches(MatchesOf(i))
    /\ offers' = AddLateOffers(late)
    /\ UNCHANGED << deal, signed, drafts, lapsed, shortlist, revocationVars, toolVars >>

-----------------------------------------------------------------------------
(***************************************************************************)
(* Deals.  Signing and cancelling take two requests: a draft is created    *)
(* without a lock, and submitting it locks the draft and the deal.         *)
(***************************************************************************)

\* Mutant: only the buy intent is given back.
RollbackDealState_BuyOnly(m) ==
    /\ intent' = [intent EXCEPT ![BuyIntent[m]] =
                    IF @ = "matched" THEN "active" ELSE @]
    /\ match' = [match EXCEPT ![m] = IF @ = "agreed" THEN "discovered" ELSE @]

\* Both intents go back from matched to active, the chosen match from agreed
\* to discovered; the negotiation keeps its status.
RollbackDealState(m) ==
    /\ intent' = [i \in Intents |->
                    IF i \in IntentsOf(m) /\ intent[i] = "matched" THEN "active"
                    ELSE intent[i]]
    /\ match' = [match EXCEPT ![m] = IF @ = "agreed" THEN "discovered" ELSE @]

CreateSignatureDraft(m, s, kind) ==
    /\ deal[m] = "pending_signatures"
    /\ kind = "sign" => s \notin signed[m]
    /\ << m, s, kind >> \in Drafts
    /\ drafts' = drafts \cup {<< m, s, kind >>}
    /\ UNCHANGED << intent, match, nego, offers, deal, signed, lapsed,
                    shortlist, revocationVars, toolVars >>

\* The five minutes of DRAFT_TTL_SECONDS are over.
DraftExpires(m, s, kind) ==
    /\ << m, s, kind >> \in drafts
    /\ drafts' = drafts \ {<< m, s, kind >>}
    /\ UNCHANGED << intent, match, nego, offers, deal, signed, lapsed,
                    shortlist, revocationVars, toolVars >>

\* Mutant: the deal is not looked at again once it is locked.
LoadAndValidateDraft_StaleDeal(m, s, kind) ==
    << m, s, kind >> \in drafts

\* The deal's own expires_at is not compared with the clock.
LoadAndValidateDraft(m, s, kind) ==
    /\ << m, s, kind >> \in drafts
    /\ deal[m] = "pending_signatures"

\* Mutant: one side is enough.
FullyAuthorized_Either(m) == signed'[m] # {}

FullyAuthorized(m) == signed'[m] = Side

ConfirmIfAuthorized(m) ==
    deal' = [deal EXCEPT ![m] = IF FullyAuthorized(m) THEN "confirmed" ELSE @]

SubmitSignature(m, s) ==
    /\ LoadAndValidateDraft(m, s, "sign")
    /\ s \notin signed[m]
    /\ signed' = [signed EXCEPT ![m] = @ \cup {s}]
    /\ ConfirmIfAuthorized(m)
    /\ drafts' = drafts \ {<< m, s, "sign" >>}
    /\ UNCHANGED << intent, match, nego, offers, lapsed, shortlist,
                    revocationVars, toolVars >>

\* The agent authorizes its side under a capital mandate; no draft is needed.
AuthorizeDealSide(m, s) ==
    /\ User(m, s) \in Capital
    /\ deal[m] = "pending_signatures"
    /\ s \notin signed[m]
    /\ signed' = [signed EXCEPT ![m] = @ \cup {s}]
    /\ ConfirmIfAuthorized(m)
    /\ UNCHANGED << intent, match, nego, offers, drafts, lapsed, shortlist,
                    revocationVars, toolVars >>

SubmitCancel(m, s) ==
    /\ LoadAndValidateDraft(m, s, "cancel")
    /\ deal' = [deal EXCEPT ![m] = "cancelled"]
    /\ RollbackDealState(m)
    /\ drafts' = drafts \ {<< m, s, "cancel" >>}
    /\ UNCHANGED << nego, offers, signed, lapsed, shortlist, revocationVars, toolVars >>

\* The 24 hours of DEAL_PENDING_TTL_HOURS are over.
DealLapses(m) ==
    /\ deal[m] = "pending_signatures"
    /\ m \notin lapsed
    /\ lapsed' = lapsed \cup {m}
    /\ UNCHANGED << intent, match, nego, offers, deal, signed, drafts,
                    shortlist, revocationVars, toolVars >>

\* Mutants: the snapshot of the tick is trusted; deals with one signature are
\* left alone.
Expirable_Snapshot(m) == m \in lapsed

Expirable_UnsignedOnly(m) ==
    m \in lapsed /\ deal[m] = "pending_signatures" /\ signed[m] = {}

Expirable(m) == m \in lapsed /\ deal[m] = "pending_signatures"

\* One deal of a tick of the scheduler job expire_pending_deals.
ExpireDeal(m) ==
    /\ Expirable(m)
    /\ deal' = [deal EXCEPT ![m] = "expired"]
    /\ RollbackDealState(m)
    /\ UNCHANGED << nego, offers, signed, drafts, lapsed, shortlist,
                    revocationVars, toolVars >>

-----------------------------------------------------------------------------
(***************************************************************************)
(* Mandate revocation.  The cascade over negotiations and intents selects  *)
(* by intents.agent_id, which create_intent always leaves null, so it      *)
(* touches no row; only the agent and the deals change.                    *)
(***************************************************************************)

DealsOf(u) == {m \in Matches : u \in {User(m, s) : s \in Side}}

\* The pending deals are read without a lock.
BeginRevocation(u) ==
    /\ u \in Revokers
    /\ agent[u] = "active"
    /\ u \notin revoking
    /\ revoking' = revoking \cup {u}
    /\ readDeals' = [readDeals EXCEPT ![u] =
                        {m \in DealsOf(u) : deal[m] = "pending_signatures"}]
    /\ UNCHANGED << intent, agent, match, nego, offers, deal, signed, drafts,
                    lapsed, shortlist, toolVars >>

\* The flush waits for whoever holds the deal row and then writes the status,
\* whatever it has become; the intents and the match are left alone.
FinishRevocation(u) ==
    /\ u \in revoking
    /\ revoking' = revoking \ {u}
    /\ agent' = [agent EXCEPT ![u] = "revoked"]
    /\ deal' = [m \in Matches |->
                    IF m \in readDeals[u] THEN "cancelled_revoked" ELSE deal[m]]
    /\ readDeals' = [readDeals EXCEPT ![u] = {}]
    /\ UNCHANGED << intent, match, nego, offers, signed, drafts, lapsed,
                    shortlist, toolVars >>

-----------------------------------------------------------------------------

NegotiationNext ==
    \E m \in Matches, s \in Side :
        \/ StartOrContinue(m, s)
        \/ RejectOffer(m, s)
        \/ LoadOffer(m, s)
        \/ LoadParties(m, s)
        \/ DropLoaded(m, s)
        \/ \E late \in LateOpenings(Rivals(m)) :
              AcceptOffer(m, s, late) \/ AcceptLoadedOffer(m, s, late)

IntentNext ==
    \E i \in Intents :
        \/ CreateIntent(i)
        \/ \E late \in LateOpenings(MatchesOf(i)) : CancelIntent(i, late)

DiscoveryNext ==
    \E m \in Matches : ShortlistPair(m) \/ UpsertMatch(m) \/ DropCandidate(m)

DealNext ==
    \/ \E m \in Matches : DealLapses(m) \/ ExpireDeal(m)
    \/ \E m \in Matches, s \in Side :
          SubmitSignature(m, s) \/ AuthorizeDealSide(m, s) \/ SubmitCancel(m, s)
    \/ \E m \in Matches, s \in Side, kind \in Kind :
          CreateSignatureDraft(m, s, kind) \/ DraftExpires(m, s, kind)

RevocationNext ==
    \E u \in Users :
        ActivateAgent(u) \/ BeginRevocation(u) \/ FinishRevocation(u)

Next ==
    IntentNext \/ DiscoveryNext \/ NegotiationNext \/ DealNext \/ RevocationNext

Spec == Init /\ [][Next]_vars

\* The expiry job of match_scheduler runs on an interval timer, and a deadline
\* passes by itself.  Users, agents, discovery and the provider owe nothing.
FairSpec ==
    /\ Spec
    /\ \A m \in Matches : WF_vars(DealLapses(m)) /\ WF_vars(ExpireDeal(m))

-----------------------------------------------------------------------------
(***************************************************************************)
(* What holds.                                                             *)
(***************************************************************************)

\* Every column holds one of the values its schema comment lists, no
\* negotiation runs past max_rounds, and a revocation only ever reads deals of
\* its own user.
TypeOK ==
    /\ intent \in [Intents -> IntentStatus]
    /\ agent \in [Users -> AgentStatus]
    /\ match \in [Matches -> MatchStatus]
    /\ nego \in [Matches -> NegoStatus]
    /\ offers \in [Matches -> Seq(Side)]
    /\ \A m \in Matches : Len(offers[m]) <= MaxRounds
    /\ deal \in [Matches -> DealStatus]
    /\ signed \in [Matches -> SUBSET Side]
    /\ drafts \subseteq Matches \X Side \X Kind
    /\ lapsed \subseteq Matches
    /\ shortlist \subseteq Matches
    /\ revoking \subseteq Users
    /\ readDeals \in [Users -> SUBSET Matches]
    /\ loaded \subseteq Matches \X Side \X {"offer", "parties"}
    /\ misled \subseteq Intents

\* The docstring of accept_offer, whatever the accept has loaded: of the accepts
\* that compete for an intent one gets it, so no intent is in two deals that are
\* pending or confirmed.
OneSalePerIntent ==
    \A m \in Matches, k \in Matches :
        deal[m] \in Live /\ deal[k] \in Live /\ m # k
            => IntentsOf(m) \cap IntentsOf(k) = {}

\* What is left of it: an intent in two live deals has been taken by a tool that
\* had loaded it before it was sold, while every other accept, cancellation,
\* expiry and revocation keeps the intents of different deals apart.
ExclusiveHold ==
    \A m \in Matches, k \in Matches :
        deal[m] \in Live /\ deal[k] \in Live /\ m # k
            => IntentsOf(m) \cap IntentsOf(k) \subseteq misled

\* The intents of a deal that is pending or confirmed are matched, so nothing
\* else can negotiate, cancel or sell them: only an intent that a late tool took
\* can be back on the market under a live deal.
LiveDealHoldsIntents ==
    \A m \in Matches : deal[m] \in Live =>
        \A i \in IntentsOf(m) : intent[i] = "matched" \/ i \in misled

\* A matched intent is accounted for by a deal of its own: one that is still
\* live, or one a mandate revocation ended without giving the intent back.  The
\* exception is again an intent that a late tool took for a deal long ended.
MatchedByADeal ==
    \A i \in Intents : intent[i] = "matched" =>
        \/ i \in misled
        \/ \E m \in MatchesOf(i) : deal[m] \in Live \cup {"cancelled_revoked"}

\* The deal table follows the negotiation table: a match has a deal exactly
\* when its negotiation was agreed, and while the deal is live the match says
\* agreed.
DealFollowsNegotiation ==
    \A m \in Matches :
        /\ deal[m] # "none" <=> nego[m] = "agreed"
        /\ deal[m] \in Live => match[m] = "agreed"
        /\ match[m] = "agreed" => nego[m] = "agreed"

\* The match table follows the negotiation table: a match that says it is
\* negotiating has an active negotiation, an active negotiation has a proposal
\* and sits on a match that is negotiating or that a cascade has expired, and
\* a match without a row has no negotiation.
MatchFollowsNegotiation ==
    \A m \in Matches :
        /\ match[m] = "negotiating" => nego[m] = "active"
        /\ nego[m] = "active" =>
              match[m] \in {"negotiating", "expired"} /\ offers[m] # << >>
        /\ match[m] \in {"none", "discovered"} => nego[m] \in {"none", "agreed"}
        /\ match[m] = "none" => nego[m] = "none"

\* No deal is confirmed on one signature, in whatever order signatures,
\* cancellations and the expiry job arrive.
ConfirmedByBothSides ==
    \A m \in Matches : deal[m] = "confirmed" => signed[m] = Side

\* A deal that was cancelled, expired or revoked is never pending or confirmed
\* again: a draft that outlives the deal, a repeated accept or a late signature
\* cannot bring it back.
DealStaysDead ==
    [][\A m \in Matches : deal[m] \in Dead => deal'[m] \in Dead]_vars

\* An intent leaves matched only when a deal that held it is cancelled or
\* expires in the same step; nothing else puts a held item back on the market.
ReleasedByItsDeal ==
    [][\A i \in Intents : intent[i] = "matched" /\ intent'[i] # "matched" =>
          /\ intent'[i] = "active"
          /\ \E m \in MatchesOf(i) :
                deal[m] = "pending_signatures" /\ deal'[m] \in {"cancelled", "expired"}
      ]_vars

\* The abstract view: what an intent's holder and a deal's parties can rely on.
HasDeal(i, status) == \E m \in MatchesOf(i) : deal[m] = status

Standing(i) ==
    CASE intent[i] = "none"      -> "absent"
      [] intent[i] = "active"    -> "open"
      [] intent[i] = "cancelled" -> "withdrawn"
      [] intent[i] = "matched"   ->
            IF HasDeal(i, "pending_signatures") THEN "reserved"
            ELSE IF HasDeal(i, "confirmed") THEN "sold"
            ELSE "stranded"

Outcome(m) ==
    CASE deal[m] = "none"               -> "none"
      [] deal[m] = "pending_signatures" -> "reserving"
      [] deal[m] = "confirmed"          -> "settled"
      [] deal[m] \in Dead               -> "void"

Promise == INSTANCE Reservation WITH
    Deals    <- Matches,
    Needs    <- [m \in Matches |-> IntentsOf(m)],
    standing <- [i \in Intents |-> Standing(i)],
    outcome  <- [m \in Matches |-> Outcome(m)]

\* A revocation writes over a deal that was confirmed since it read it.
OverwritesConfirmed ==
    \E m \in Matches : deal[m] = "confirmed" /\ deal'[m] = "cancelled_revoked"

\* The tables implement the reservation promise: a deal takes both intents in
\* one step and only from the open market, then sells both for good or gives
\* both back, or a revocation strands them.  Two races break it, and nothing
\* else does: the revocation that ends a confirmed deal, and an accept on what a
\* tool had loaded, after which the intents it took are in nobody's order.
KeepsPromise ==
    /\ Promise!ReservationInit
    /\ [][\/ UNCHANGED << intent, deal >>  \* nothing the view is made of
          \/ misled' # {}
          \/ OverwritesConfirmed
          \/ Promise!ReservationNext]_(Promise!abstractVars)

\* The expiry job gets to every lapsed deal: no deal waits for signatures for
\* ever, so no pair of intents is held for ever by a party who never signs.
PendingDealResolves ==
    \A m \in Matches :
        deal[m] = "pending_signatures" ~> deal[m] # "pending_signatures"

=============================================================================
