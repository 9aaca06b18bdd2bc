------------------------- MODULE Marketplace_proofs -------------------------
(***************************************************************************)
(* Proofs about Marketplace, for every set of users, intents and matches.  *)
(***************************************************************************)
EXTENDS Marketplace, SequenceTheorems, TLAPS

USE DEF Side, Kind, IntentStatus, AgentStatus, MatchStatus, NegoStatus,
        DealStatus, Live, Dead, toolVars

-----------------------------------------------------------------------------
(***************************************************************************)
(* The operators the handlers are built from.                              *)
(***************************************************************************)

LEMMA IntentsOfType == \A m \in Matches : IntentsOf(m) \subseteq Intents
BY MatchAssumption DEF IntentsOf

\* A cascade leaves the negotiation and match columns well typed, and a late
\* opening has exactly one proposal.
LEMMA CascadeTypes ==
    ASSUME TypeOK, NEW K \in SUBSET Matches, NEW late \in LateOpenings(K)
    PROVE  /\ DOMAIN late \subseteq K
           /\ \A k \in DOMAIN late :
                 late[k] \in Side /\ match[k] = "discovered" /\ nego[k] = "none"
           /\ CancelNegotiations(K, late) \in [Matches -> NegoStatus]
           /\ ExpireMatches(K) \in [Matches -> MatchStatus]
           /\ AddLateOffers(late) \in [Matches -> Seq(Side)]
           /\ \A k \in Matches : Len(AddLateOffers(late)[k]) <= MaxRounds
<1>1. /\ DOMAIN late \subseteq K
      /\ \A k \in DOMAIN late :
            late[k] \in Side /\ match[k] = "discovered" /\ nego[k] = "none"
  BY DEF LateOpenings
<1>2. CancelNegotiations(K, late) \in [Matches -> NegoStatus]
  BY DEF CancelNegotiations, TypeOK
<1>3. ExpireMatches(K) \in [Matches -> MatchStatus]
  BY DEF ExpireMatches, TypeOK
<1>4. \A k \in Matches :
         /\ AddLateOffers(late)[k] \in Seq(Side)
         /\ Len(AddLateOffers(late)[k]) <= MaxRounds
  <2> TAKE k \in Matches
  <2>1. CASE k \in DOMAIN late
    <3>1. << late[k] >> \in Seq(Side) /\ Len(<< late[k] >>) = 1
      BY <1>1, <2>1
    <3> QED BY <3>1, <2>1, RoundsAssumption DEF AddLateOffers
  <2>2. CASE k \notin DOMAIN late
    BY <2>2 DEF AddLateOffers, TypeOK
  <2> QED BY <2>1, <2>2
<1>5. AddLateOffers(late) \in [Matches -> Seq(Side)]
  BY <1>4 DEF AddLateOffers
<1> QED BY <1>1, <1>2, <1>3, <1>4, <1>5

-----------------------------------------------------------------------------
(***************************************************************************)
(* Type correctness.                                                       *)
(***************************************************************************)

LEMMA TypeInit == Init => TypeOK
<1> SUFFICES ASSUME Init PROVE TypeOK
  OBVIOUS
<1>1. << >> \in Seq(Side) /\ Len(<< >>) = 0
  OBVIOUS
<1> QED BY <1>1, RoundsAssumption DEF Init, TypeOK

LEMMA IntentTypeStep == TypeOK /\ IntentNext => TypeOK'
<1> SUFFICES ASSUME TypeOK, NEW i \in Intents,
                    \/ CreateIntent(i)
                    \/ \E late \in LateOpenings(MatchesOf(i)) : CancelIntent(i, late)
             PROVE  TypeOK'
  BY DEF IntentNext
<1>1. CASE CreateIntent(i)
  BY <1>1 DEF CreateIntent, TypeOK, revocationVars
<1>2. CASE \E late \in LateOpenings(MatchesOf(i)) : CancelIntent(i, late)
  <2> PICK late \in LateOpenings(MatchesOf(i)) : CancelIntent(i, late)
    BY <1>2
  <2>1. MatchesOf(i) \in SUBSET Matches
    BY DEF MatchesOf
  <2>2. /\ nego' \in [Matches -> NegoStatus]
        /\ match' \in [Matches -> MatchStatus]
        /\ offers' \in [Matches -> Seq(Side)]
        /\ \A m \in Matches : Len(offers'[m]) <= MaxRounds
    BY <2>1, CascadeTypes DEF CancelIntent
  <2> QED BY <2>2 DEF CancelIntent, TypeOK, revocationVars
<1> QED BY <1>1, <1>2

LEMMA DiscoveryTypeStep == TypeOK /\ DiscoveryNext => TypeOK'
<1> SUFFICES ASSUME TypeOK, NEW m \in Matches,
                    ShortlistPair(m) \/ UpsertMatch(m) \/ DropCandidate(m)
             PROVE  TypeOK'
  BY DEF DiscoveryNext
<1>1. CASE ShortlistPair(m)
  BY <1>1 DEF ShortlistPair, TypeOK, revocationVars
<1>2. CASE UpsertMatch(m)
  BY <1>2 DEF UpsertMatch, UpsertedStatus, TypeOK, revocationVars
<1>3. CASE DropCandidate(m)
  BY <1>3 DEF DropCandidate, TypeOK, revocationVars
<1> QED BY <1>1, <1>2, <1>3

LEMMA NegotiationTypeStep == TypeOK /\ NegotiationNext => TypeOK'
<1> SUFFICES ASSUME TypeOK, NEW m \in Matches, NEW s \in Side,
                    \/ StartOrContinue(m, s) \/ RejectOffer(m, s)
                    \/ LoadOffer(m, s) \/ LoadParties(m, s) \/ DropLoaded(m, s)
                    \/ \E late \in LateOpenings(Rivals(m)) :
                          AcceptOffer(m, s, late) \/ AcceptLoadedOffer(m, s, late)
             PROVE  TypeOK'
  BY DEF NegotiationNext
<1>1. CASE StartOrContinue(m, s)
  <2>1. Append(offers[m], s) \in Seq(Side)
    BY DEF TypeOK
  <2>2. Len(Append(offers[m], s)) <= MaxRounds
    BY <1>1, RoundsAssumption DEF StartOrContinue, RoundsLeft, TypeOK
  <2> QED BY <1>1, <2>1, <2>2 DEF StartOrContinue, TypeOK, revocationVars
<1>2. CASE RejectOffer(m, s)
  BY <1>2 DEF RejectOffer, TypeOK, revocationVars
<1>3. CASE LoadOffer(m, s) \/ LoadParties(m, s) \/ DropLoaded(m, s)
  BY <1>3 DEF LoadOffer, LoadParties, DropLoaded, TypeOK, revocationVars
<1>4. CASE \E late \in LateOpenings(Rivals(m)) :
              AcceptOffer(m, s, late) \/ AcceptLoadedOffer(m, s, late)
  <2> PICK late \in LateOpenings(Rivals(m)) :
              AcceptOffer(m, s, late) \/ AcceptLoadedOffer(m, s, late)
    BY <1>4
  <2>1. Rivals(m) \in SUBSET Matches
    BY DEF Rivals
  <2>2. TakeOffer(m, late)
    BY DEF AcceptOffer, AcceptLoadedOffer
  <2>3. /\ nego' \in [Matches -> NegoStatus]
        /\ match' \in [Matches -> MatchStatus]
        /\ offers' \in [Matches -> Seq(Side)]
        /\ \A k \in Matches : Len(offers'[k]) <= MaxRounds
    BY <2>1, <2>2, CascadeTypes DEF TakeOffer
  <2>4. intent' \in [Intents -> IntentStatus] /\ deal' \in [Matches -> DealStatus]
    BY <2>2 DEF TakeOffer, PromoteIntents, CreatePendingDeal, TypeOK
  <2>5. /\ loaded' \subseteq Matches \X Side \X {"offer", "parties"}
        /\ misled' \subseteq Intents
    BY IntentsOfType DEF AcceptOffer, AcceptLoadedOffer, TakenAnyway, TypeOK
  <2> QED BY <2>2, <2>3, <2>4, <2>5 DEF TakeOffer, TypeOK, revocationVars
<1> QED BY <1>1, <1>2, <1>3, <1>4

LEMMA DealTypeStep == TypeOK /\ DealNext => TypeOK'
<1> SUFFICES ASSUME TypeOK, NEW m \in Matches, NEW s \in Side, NEW kind \in Kind,
                    \/ DealLapses(m) \/ ExpireDeal(m)
                    \/ SubmitSignature(m, s) \/ AuthorizeDealSide(m, s)
                    \/ SubmitCancel(m, s)
                    \/ CreateSignatureDraft(m, s, kind) \/ DraftExpires(m, s, kind)
             PROVE  TypeOK'
  BY DEF DealNext
<1>1. CASE DealLapses(m)
  BY <1>1 DEF DealLapses, TypeOK, revocationVars
<1>2. CASE ExpireDeal(m)
  BY <1>2 DEF ExpireDeal, RollbackDealState, TypeOK, revocationVars
<1>3. CASE SubmitSignature(m, s)
  BY <1>3 DEF SubmitSignature, ConfirmIfAuthorized, TypeOK, revocationVars
<1>4. CASE AuthorizeDealSide(m, s)
  BY <1>4 DEF AuthorizeDealSide, ConfirmIfAuthorized, TypeOK, revocationVars
<1>5. CASE SubmitCancel(m, s)
  BY <1>5 DEF SubmitCancel, RollbackDealState, TypeOK, revocationVars
<1>6. CASE CreateSignatureDraft(m, s, kind)
  BY <1>6 DEF CreateSignatureDraft, TypeOK, revocationVars
<1>7. CASE DraftExpires(m, s, kind)
  BY <1>7 DEF DraftExpires, TypeOK, revocationVars
<1> QED BY <1>1, <1>2, <1>3, <1>4, <1>5, <1>6, <1>7

LEMMA RevocationTypeStep == TypeOK /\ RevocationNext => TypeOK'
<1> SUFFICES ASSUME TypeOK, NEW u \in Users,
                    ActivateAgent(u) \/ BeginRevocation(u) \/ FinishRevocation(u)
             PROVE  TypeOK'
  BY DEF RevocationNext
<1>1. CASE ActivateAgent(u)
  BY <1>1 DEF ActivateAgent, TypeOK
<1>2. CASE BeginRevocation(u)
  BY <1>2 DEF BeginRevocation, DealsOf, TypeOK
<1>3. CASE FinishRevocation(u)
  BY <1>3 DEF FinishRevocation, TypeOK
<1> QED BY <1>1, <1>2, <1>3

LEMMA TypeStep == TypeOK /\ [Next]_vars => TypeOK'
<1>1. TypeOK /\ UNCHANGED vars => TypeOK'
  BY DEF TypeOK, vars
<1> QED BY <1>1, IntentTypeStep, DiscoveryTypeStep, NegotiationTypeStep,
           DealTypeStep, RevocationTypeStep DEF Next

\* The columns of the five tables only ever hold the statuses the schema lists,
\* and a negotiation never has more proposals than MAX_ROUNDS.
THEOREM TypeCorrect == Spec => []TypeOK
BY TypeInit, TypeStep, PTL DEF Spec

-----------------------------------------------------------------------------
(***************************************************************************)
(* The negotiation, match and deal tables agree.                           *)
(***************************************************************************)

\* A revocation only reads deals that exist, so it never creates one.
ReadDealsExist == \A u \in Users : \A m \in readDeals[u] : deal[m] # "none"

TablesInv ==
    /\ TypeOK
    /\ DealFollowsNegotiation
    /\ MatchFollowsNegotiation
    /\ ReadDealsExist

LEMMA TablesInit == Init => TablesInv
<1> SUFFICES ASSUME Init PROVE TablesInv
  OBVIOUS
<1>1. TypeOK
  BY TypeInit
<1> QED BY <1>1 DEF Init, TablesInv, DealFollowsNegotiation,
                    MatchFollowsNegotiation, ReadDealsExist

\* A cascade over K closes every negotiation on K it sees, and expires the
\* matches; what escapes is on an expired match.
LEMMA CascadeTables ==
    ASSUME TablesInv, NEW K \in SUBSET Matches, NEW late \in LateOpenings(K),
           NEW k \in Matches
    PROVE  LET n == CancelNegotiations(K, late)[k]
               c == ExpireMatches(K)[k]
           IN  /\ n = "agreed" <=> nego[k] = "agreed"
               /\ c = "agreed" <=> match[k] = "agreed"
               /\ c = "negotiating" => n = "active"
               /\ n = "active" =>
                     c \in {"negotiating", "expired"} /\ AddLateOffers(late)[k] # << >>
               /\ c \in {"none", "discovered"} => n \in {"none", "agreed"}
               /\ c = "none" => n = "none"
<1>1. /\ DOMAIN late \subseteq K
      /\ \A x \in DOMAIN late :
            late[x] \in Side /\ match[x] = "discovered" /\ nego[x] = "none"
  BY CascadeTypes DEF TablesInv
<1>2. CASE k \in DOMAIN late
  <2>1. << late[k] >> # << >>
    OBVIOUS
  <2> QED BY <1>1, <1>2, <2>1 DEF CancelNegotiations, ExpireMatches, AddLateOffers
<1>3. CASE k \notin DOMAIN late
  BY <1>3 DEF CancelNegotiations, ExpireMatches, AddLateOffers, TablesInv,
              MatchFollowsNegotiation, TypeOK
<1> QED BY <1>2, <1>3

LEMMA IntentTablesStep == TablesInv /\ IntentNext => TablesInv'
<1> SUFFICES ASSUME TablesInv, NEW i \in Intents,
                    \/ CreateIntent(i)
                    \/ \E late \in LateOpenings(MatchesOf(i)) : CancelIntent(i, late)
             PROVE  TablesInv'
  BY DEF IntentNext
<1>t. TypeOK'
  BY IntentTypeStep DEF TablesInv, IntentNext
<1>1. CASE CreateIntent(i)
  BY <1>1, <1>t DEF CreateIntent, TablesInv, DealFollowsNegotiation,
                    MatchFollowsNegotiation, ReadDealsExist, revocationVars
<1>2. CASE \E late \in LateOpenings(MatchesOf(i)) : CancelIntent(i, late)
  <2> PICK late \in LateOpenings(MatchesOf(i)) : CancelIntent(i, late)
    BY <1>2
  <2>1. MatchesOf(i) \in SUBSET Matches
    BY DEF MatchesOf
  <2>2. DealFollowsNegotiation' /\ MatchFollowsNegotiation'
    BY <2>1, CascadeTables
    DEF CancelIntent, TablesInv, DealFollowsNegotiation, MatchFollowsNegotiation
  <2> QED BY <1>t, <2>2 DEF CancelIntent, TablesInv, ReadDealsExist, revocationVars
<1> QED BY <1>1, <1>2

LEMMA DiscoveryTablesStep == TablesInv /\ DiscoveryNext => TablesInv'
<1> SUFFICES ASSUME TablesInv, NEW m \in Matches,
                    ShortlistPair(m) \/ UpsertMatch(m) \/ DropCandidate(m)
             PROVE  TablesInv'
  BY DEF DiscoveryNext
<1>t. TypeOK'
  BY DiscoveryTypeStep DEF TablesInv, DiscoveryNext
<1>1. CASE UpsertMatch(m)
  BY <1>1, <1>t DEF UpsertMatch, UpsertedStatus, TablesInv, TypeOK,
       DealFollowsNegotiation, MatchFollowsNegotiation, ReadDealsExist, revocationVars
<1>2. CASE ShortlistPair(m) \/ DropCandidate(m)
  BY <1>2, <1>t DEF ShortlistPair, DropCandidate, TablesInv,
       DealFollowsNegotiation, MatchFollowsNegotiation, ReadDealsExist, revocationVars
<1> QED BY <1>1, <1>2

LEMMA NegotiationTablesStep == TablesInv /\ NegotiationNext => TablesInv'
<1> SUFFICES ASSUME TablesInv, NEW m \in Matches, NEW s \in Side,
                    \/ StartOrContinue(m, s) \/ RejectOffer(m, s)
                    \/ LoadOffer(m, s) \/ LoadParties(m, s) \/ DropLoaded(m, s)
                    \/ \E late \in LateOpenings(Rivals(m)) :
                          AcceptOffer(m, s, late) \/ AcceptLoadedOffer(m, s, late)
             PROVE  TablesInv'
  BY DEF NegotiationNext
<1>t. TypeOK'
  BY NegotiationTypeStep DEF TablesInv, NegotiationNext
<1>1. CASE StartOrContinue(m, s)
  <2>1. Append(offers[m], s) # << >>
    <3>1. offers[m] \in Seq(Side)
      BY DEF TablesInv, TypeOK
    <3> QED BY <3>1, AppendProperties
  <2> QED BY <1>1, <1>t, <2>1 DEF StartOrContinue, TablesInv, TypeOK,
       DealFollowsNegotiation, MatchFollowsNegotiation, ReadDealsExist, revocationVars
<1>2. CASE RejectOffer(m, s)
  BY <1>2, <1>t DEF RejectOffer, CanAnswer, TablesInv, TypeOK,
       DealFollowsNegotiation, MatchFollowsNegotiation, ReadDealsExist, revocationVars
<1>3. CASE LoadOffer(m, s) \/ LoadParties(m, s) \/ DropLoaded(m, s)
  BY <1>3, <1>t DEF LoadOffer, LoadParties, DropLoaded, TablesInv,
       DealFollowsNegotiation, MatchFollowsNegotiation, ReadDealsExist, revocationVars
<1>4. CASE \E late \in LateOpenings(Rivals(m)) :
              AcceptOffer(m, s, late) \/ AcceptLoadedOffer(m, s, late)
  <2> PICK late \in LateOpenings(Rivals(m)) : TakeOffer(m, late)
    BY <1>4 DEF AcceptOffer, AcceptLoadedOffer
  <2>1. Rivals(m) \in SUBSET Matches /\ m \notin Rivals(m)
    BY DEF Rivals
  <2>2. /\ nego'[m] = "agreed" /\ match'[m] = "agreed"
        /\ deal'[m] = IF deal[m] = "none" THEN "pending_signatures" ELSE deal[m]
    <3>1. deal'[m] = IF deal[m] = "none" THEN "pending_signatures" ELSE deal[m]
      BY DEF TakeOffer, CreatePendingDeal, TablesInv, TypeOK
    <3>2. nego'[m] = "agreed" /\ match'[m] = "agreed"
      BY <2>1, CascadeTypes DEF TakeOffer, TablesInv
    <3> QED BY <3>1, <3>2
  <2>3. ASSUME NEW k \in Matches, k # m
        PROVE  /\ nego'[k] = CancelNegotiations(Rivals(m), late)[k]
               /\ match'[k] = ExpireMatches(Rivals(m))[k]
               /\ deal'[k] = deal[k]
               /\ offers'[k] = AddLateOffers(late)[k]
    BY <2>1, <2>3, CascadeTypes DEF TakeOffer, CreatePendingDeal, TablesInv, TypeOK
  <2>4. DealFollowsNegotiation' /\ MatchFollowsNegotiation'
    BY <2>1, <2>2, <2>3, CascadeTables
    DEF TablesInv, DealFollowsNegotiation, MatchFollowsNegotiation
  <2>5. ReadDealsExist'
    BY <2>2, <2>3 DEF TakeOffer, TablesInv, TypeOK, ReadDealsExist, revocationVars
  <2> QED BY <1>t, <2>4, <2>5 DEF TablesInv
<1> QED BY <1>1, <1>2, <1>3, <1>4

LEMMA DealTablesStep == TablesInv /\ DealNext => TablesInv'
<1> SUFFICES ASSUME TablesInv, NEW m \in Matches, NEW s \in Side, NEW kind \in Kind,
                    \/ DealLapses(m) \/ ExpireDeal(m)
                    \/ SubmitSignature(m, s) \/ AuthorizeDealSide(m, s)
                    \/ SubmitCancel(m, s)
                    \/ CreateSignatureDraft(m, s, kind) \/ DraftExpires(m, s, kind)
             PROVE  TablesInv'
  BY DEF DealNext
<1>t. TypeOK'
  BY DealTypeStep DEF TablesInv, DealNext
<1>1. CASE ExpireDeal(m)
  BY <1>1, <1>t DEF ExpireDeal, Expirable, RollbackDealState, TablesInv, TypeOK,
       DealFollowsNegotiation, MatchFollowsNegotiation, ReadDealsExist, revocationVars
<1>2. CASE SubmitCancel(m, s)
  BY <1>2, <1>t DEF SubmitCancel, LoadAndValidateDraft, RollbackDealState,
       TablesInv, TypeOK, DealFollowsNegotiation, MatchFollowsNegotiation,
       ReadDealsExist, revocationVars
<1>3. CASE SubmitSignature(m, s) \/ AuthorizeDealSide(m, s)
  BY <1>3, <1>t DEF SubmitSignature, LoadAndValidateDraft, AuthorizeDealSide,
       ConfirmIfAuthorized, TablesInv, TypeOK, DealFollowsNegotiation,
       MatchFollowsNegotiation, ReadDealsExist, revocationVars
<1>4. CASE \/ DealLapses(m) \/ CreateSignatureDraft(m, s, kind)
           \/ DraftExpires(m, s, kind)
  BY <1>4, <1>t DEF DealLapses, CreateSignatureDraft, DraftExpires, TablesInv,
       DealFollowsNegotiation, MatchFollowsNegotiation, ReadDealsExist, revocationVars
<1> QED BY <1>1, <1>2, <1>3, <1>4

LEMMA RevocationTablesStep == TablesInv /\ RevocationNext => TablesInv'
<1> SUFFICES ASSUME TablesInv, NEW u \in Users,
                    ActivateAgent(u) \/ BeginRevocation(u) \/ FinishRevocation(u)
             PROVE  TablesInv'
  BY DEF RevocationNext
<1>t. TypeOK'
  BY RevocationTypeStep DEF TablesInv, RevocationNext
<1>1. CASE ActivateAgent(u)
  BY <1>1, <1>t DEF ActivateAgent, TablesInv, DealFollowsNegotiation,
       MatchFollowsNegotiation, ReadDealsExist
<1>2. CASE BeginRevocation(u)
  BY <1>2, <1>t DEF BeginRevocation, TablesInv, TypeOK, DealFollowsNegotiation,
       MatchFollowsNegotiation, ReadDealsExist
<1>3. CASE FinishRevocation(u)
  BY <1>3, <1>t DEF FinishRevocation, TablesInv, TypeOK, DealFollowsNegotiation,
       MatchFollowsNegotiation, ReadDealsExist
<1> QED BY <1>1, <1>2, <1>3

LEMMA TablesStep == TablesInv /\ [Next]_vars => TablesInv'
<1>1. TablesInv /\ UNCHANGED vars => TablesInv'
  <2> SUFFICES ASSUME TablesInv, UNCHANGED vars PROVE TablesInv'
    OBVIOUS
  <2>1. TypeOK'
    BY TypeStep DEF TablesInv
  <2> QED BY <2>1 DEF TablesInv, DealFollowsNegotiation, MatchFollowsNegotiation,
                      ReadDealsExist, vars
<1> QED BY <1>1, IntentTablesStep, DiscoveryTablesStep, NegotiationTablesStep,
           DealTablesStep, RevocationTablesStep DEF Next

LEMMA TablesInvariant == Spec => []TablesInv
BY TablesInit, TablesStep, PTL DEF Spec

\* A match has a deal exactly when its negotiation was agreed, and a live deal
\* sits on a match that says agreed.
THEOREM DealsFollow == Spec => []DealFollowsNegotiation
<1>1. TablesInv => DealFollowsNegotiation
  BY DEF TablesInv
<1> QED BY <1>1, TablesInvariant, PTL

\* The match and negotiation tables never contradict each other, even where a
\* first offer escapes a cascade.
THEOREM MatchesFollow == Spec => []MatchFollowsNegotiation
<1>1. TablesInv => MatchFollowsNegotiation
  BY DEF TablesInv
<1> QED BY <1>1, TablesInvariant, PTL

-----------------------------------------------------------------------------
(***************************************************************************)
(* Who holds an intent.                                                    *)
(***************************************************************************)

HoldsInv ==
    /\ TablesInv
    /\ LiveDealHoldsIntents
    /\ ExclusiveHold
    /\ MatchedByADeal

LEMMA HoldsInit == Init => HoldsInv
<1> SUFFICES ASSUME Init PROVE HoldsInv
  OBVIOUS
<1>1. TablesInv
  BY TablesInit
<1> QED BY <1>1 DEF Init, HoldsInv, LiveDealHoldsIntents, ExclusiveHold, MatchedByADeal

\* What a handler does to the intents and the deals, in three forms that leave
\* the rest of the argument to the tables.  First: deals stay live or end, and
\* only intents that are not matched change.
LEMMA HoldsKept ==
    ASSUME HoldsInv, TablesInv', misled' = misled,
           \A m \in Matches :
              /\ deal'[m] \in Live => deal[m] \in Live
              /\ deal[m] \in Live \cup {"cancelled_revoked"}
                    => deal'[m] \in Live \cup {"cancelled_revoked"},
           \A i \in Intents : (intent[i] = "matched") <=> (intent'[i] = "matched")
    PROVE  HoldsInv'
<1>1. LiveDealHoldsIntents'
  BY IntentsOfType DEF HoldsInv, LiveDealHoldsIntents
<1>2. ExclusiveHold'
  BY DEF HoldsInv, ExclusiveHold
<1>3. MatchedByADeal'
  BY DEF HoldsInv, MatchedByADeal, MatchesOf
<1> QED BY <1>1, <1>2, <1>3 DEF HoldsInv

\* Second: an accept takes its intents.  Those that were not as the accept should
\* find them, on offer or held by its own deal, are in misled afterwards.
LEMMA HoldsTaken ==
    ASSUME HoldsInv, TablesInv', NEW m \in Matches,
           PromoteIntents(m), CreatePendingDeal(m),
           misled' = misled \cup TakenAnyway(m)
    PROVE  HoldsInv'
<1>1. /\ \A k \in Matches \ {m} : deal'[k] = deal[k]
      /\ deal'[m] = IF deal[m] = "none" THEN "pending_signatures" ELSE deal[m]
  BY DEF CreatePendingDeal, HoldsInv, TablesInv, TypeOK
<1>2. \A i \in Intents : intent'[i] = IF i \in IntentsOf(m) THEN "matched" ELSE intent[i]
  BY DEF PromoteIntents
<1>3. LiveDealHoldsIntents'
  BY <1>1, <1>2, IntentsOfType DEF HoldsInv, LiveDealHoldsIntents
<1>4. ASSUME NEW k \in Matches \ {m}, deal'[k] \in Live, deal'[m] \in Live,
             NEW i \in IntentsOf(m) \cap IntentsOf(k)
      PROVE  i \in misled'
  <2>1. CASE deal[m] = "none"
    <3>1. intent[i] = "matched" \/ i \in misled
      BY <1>1, <1>4 DEF HoldsInv, LiveDealHoldsIntents
    <3> QED BY <2>1, <3>1 DEF TakenAnyway
  <2>2. CASE deal[m] # "none"
    BY <1>1, <1>4, <2>2 DEF HoldsInv, ExclusiveHold
  <2> QED BY <2>1, <2>2
<1>5. ExclusiveHold'
  BY <1>1, <1>4 DEF HoldsInv, ExclusiveHold
<1>6. MatchedByADeal'
  <2> SUFFICES ASSUME NEW i \in Intents, intent'[i] = "matched", i \notin misled'
               PROVE  \E k \in MatchesOf(i) : deal'[k] \in Live \cup {"cancelled_revoked"}
    BY DEF MatchedByADeal, MatchesOf
  <2>1. CASE i \in IntentsOf(m) /\ deal[m] = "none"
    BY <1>1, <2>1 DEF MatchesOf
  <2>2. CASE i \notin IntentsOf(m) \/ deal[m] # "none"
    <3>1. intent[i] = "matched"
      BY <1>2, <2>2 DEF TakenAnyway
    <3>2. PICK k \in MatchesOf(i) : deal[k] \in Live \cup {"cancelled_revoked"}
      BY <3>1 DEF HoldsInv, MatchedByADeal
    <3>3. deal'[k] = deal[k]
      BY <1>1, <2>2, <3>2 DEF MatchesOf
    <3> QED BY <3>2, <3>3 DEF MatchesOf
  <2> QED BY <2>1, <2>2
<1> QED BY <1>3, <1>5, <1>6 DEF HoldsInv

\* Third: a pending deal ends and gives its intents back.
LEMMA HoldsGivenBack ==
    ASSUME HoldsInv, TablesInv', NEW m \in Matches, misled' = misled,
           deal[m] = "pending_signatures", RollbackDealState(m),
           NEW end \in {"cancelled", "expired"},
           deal' = [deal EXCEPT ![m] = end]
    PROVE  HoldsInv'
<1>1. \A k \in Matches : deal'[k] = IF k = m THEN end ELSE deal[k]
  BY DEF HoldsInv, TablesInv, TypeOK
<1>2. \A i \in Intents :
         /\ i \in IntentsOf(m) => intent'[i] # "matched"
         /\ i \notin IntentsOf(m) => intent'[i] = intent[i]
  BY DEF RollbackDealState
<1>3. \A k \in Matches \ {m} :
         deal[k] \in Live => IntentsOf(k) \cap IntentsOf(m) \subseteq misled
  BY DEF HoldsInv, ExclusiveHold
<1>4. LiveDealHoldsIntents'
  BY <1>1, <1>2, <1>3, IntentsOfType DEF HoldsInv, LiveDealHoldsIntents
<1>5. ExclusiveHold'
  BY <1>1 DEF HoldsInv, ExclusiveHold
<1>6. MatchedByADeal'
  <2> SUFFICES ASSUME NEW i \in Intents, intent'[i] = "matched", i \notin misled
               PROVE  \E k \in MatchesOf(i) : deal'[k] \in Live \cup {"cancelled_revoked"}
    BY DEF MatchedByADeal, MatchesOf
  <2>1. i \notin IntentsOf(m) /\ intent[i] = "matched"
    BY <1>2
  <2>2. PICK k \in MatchesOf(i) : deal[k] \in Live \cup {"cancelled_revoked"}
    BY <2>1 DEF HoldsInv, MatchedByADeal
  <2> QED BY <1>1, <2>1, <2>2 DEF MatchesOf
<1> QED BY <1>4, <1>5, <1>6 DEF HoldsInv

LEMMA HoldsStep == HoldsInv /\ [Next]_vars => HoldsInv'
<1> SUFFICES ASSUME HoldsInv, [Next]_vars PROVE HoldsInv'
  OBVIOUS
<1>t. TablesInv'
  BY TablesStep DEF HoldsInv
<1>1. CASE IntentNext
  <2>1. PICK i \in Intents :
           \/ CreateIntent(i)
           \/ \E late \in LateOpenings(MatchesOf(i)) : CancelIntent(i, late)
    BY <1>1 DEF IntentNext
  <2>2. /\ deal' = deal /\ misled' = misled
        /\ \A j \in Intents : (intent[j] = "matched") <=> (intent'[j] = "matched")
    BY <2>1 DEF CreateIntent, CancelIntent, Cancellable, HoldsInv, TablesInv, TypeOK
  <2> QED BY <1>t, <2>2, HoldsKept
<1>2. CASE DiscoveryNext
  <2>1. intent' = intent /\ deal' = deal /\ misled' = misled
    BY <1>2 DEF DiscoveryNext, ShortlistPair, UpsertMatch, DropCandidate
  <2> QED BY <1>t, <2>1, HoldsKept
<1>3. CASE NegotiationNext
  <2>1. PICK m \in Matches, s \in Side :
           \/ StartOrContinue(m, s) \/ RejectOffer(m, s)
           \/ LoadOffer(m, s) \/ LoadParties(m, s) \/ DropLoaded(m, s)
           \/ \E late \in LateOpenings(Rivals(m)) :
                 AcceptOffer(m, s, late) \/ AcceptLoadedOffer(m, s, late)
    BY <1>3 DEF NegotiationNext
  <2>2. CASE \/ StartOrContinue(m, s) \/ RejectOffer(m, s)
             \/ LoadOffer(m, s) \/ LoadParties(m, s) \/ DropLoaded(m, s)
    <3>1. intent' = intent /\ deal' = deal /\ misled' = misled
      BY <2>2 DEF StartOrContinue, RejectOffer, LoadOffer, LoadParties, DropLoaded
    <3> QED BY <1>t, <3>1, HoldsKept
  <2>3. CASE \E late \in LateOpenings(Rivals(m)) : AcceptOffer(m, s, late)
    <3>1. /\ StillOnOffer(m) /\ PromoteIntents(m) /\ CreatePendingDeal(m)
          /\ misled' = misled /\ nego[m] = "active"
      BY <2>3 DEF AcceptOffer, TakeOffer, CanAnswer
    <3>2. deal[m] = "none"
      BY <3>1 DEF HoldsInv, TablesInv, DealFollowsNegotiation
    <3>3. misled' = misled \cup TakenAnyway(m)
      BY <3>1, <3>2 DEF TakenAnyway, StillOnOffer
    <3> QED BY <1>t, <3>1, <3>3, HoldsTaken
  <2>4. CASE \E late \in LateOpenings(Rivals(m)) : AcceptLoadedOffer(m, s, late)
    BY <1>t, <2>4, HoldsTaken DEF AcceptLoadedOffer, TakeOffer
  <2> QED BY <2>1, <2>2, <2>3, <2>4
<1>4. CASE DealNext
  <2>1. PICK m \in Matches, s \in Side, kind \in Kind :
           \/ DealLapses(m) \/ ExpireDeal(m)
           \/ SubmitSignature(m, s) \/ AuthorizeDealSide(m, s)
           \/ SubmitCancel(m, s)
           \/ CreateSignatureDraft(m, s, kind) \/ DraftExpires(m, s, kind)
    BY <1>4 DEF DealNext
  <2>2. CASE ExpireDeal(m)
    BY <1>t, <2>2, HoldsGivenBack DEF ExpireDeal, Expirable
  <2>3. CASE SubmitCancel(m, s)
    BY <1>t, <2>3, HoldsGivenBack DEF SubmitCancel, LoadAndValidateDraft
  <2>4. CASE SubmitSignature(m, s) \/ AuthorizeDealSide(m, s)
    <3>1. /\ intent' = intent /\ misled' = misled
          /\ deal[m] = "pending_signatures"
          /\ deal'[m] \in Live
          /\ \A k \in Matches \ {m} : deal'[k] = deal[k]
      BY <2>4 DEF SubmitSignature, AuthorizeDealSide, LoadAndValidateDraft,
                  ConfirmIfAuthorized, HoldsInv, TablesInv, TypeOK
    <3> QED BY <1>t, <3>1, HoldsKept
  <2>5. CASE DealLapses(m) \/ CreateSignatureDraft(m, s, kind) \/ DraftExpires(m, s, kind)
    <3>1. intent' = intent /\ deal' = deal /\ misled' = misled
      BY <2>5 DEF DealLapses, CreateSignatureDraft, DraftExpires
    <3> QED BY <1>t, <3>1, HoldsKept
  <2> QED BY <2>1, <2>2, <2>3, <2>4, <2>5
<1>5. CASE RevocationNext
  <2>1. PICK u \in Users :
           ActivateAgent(u) \/ BeginRevocation(u) \/ FinishRevocation(u)
    BY <1>5 DEF RevocationNext
  <2>2. /\ intent' = intent /\ misled' = misled
        /\ \A m \in Matches : deal'[m] \in {deal[m], "cancelled_revoked"}
    BY <2>1 DEF ActivateAgent, BeginRevocation, FinishRevocation
  <2> QED BY <1>t, <2>2, HoldsKept
<1>6. CASE UNCHANGED vars
  <2>1. intent' = intent /\ deal' = deal /\ misled' = misled
    BY <1>6 DEF vars
  <2> QED BY <1>t, <2>1, HoldsKept
<1> QED BY <1>1, <1>2, <1>3, <1>4, <1>5, <1>6 DEF Next

LEMMA HoldsInvariant == Spec => []HoldsInv
BY HoldsInit, HoldsStep, PTL DEF Spec

\* An intent in two deals that are pending or confirmed was taken by a tool that
\* had loaded it before it was sold: no other order of accepts, cancellations,
\* expiries and revocations sells it twice, in any market.
THEOREM AuctionIsExclusive == Spec => []ExclusiveHold
<1>1. HoldsInv => ExclusiveHold
  BY DEF HoldsInv
<1> QED BY <1>1, HoldsInvariant, PTL

\* The intents of a pending or confirmed deal are off the market, except those a
\* late tool took.
THEOREM LiveDealsHold == Spec => []LiveDealHoldsIntents
<1>1. HoldsInv => LiveDealHoldsIntents
  BY DEF HoldsInv
<1> QED BY <1>1, HoldsInvariant, PTL

\* Every matched intent is in a live deal, in one a revocation ended, or was
\* taken by a late tool.
THEOREM MatchedHasADeal == Spec => []MatchedByADeal
<1>1. HoldsInv => MatchedByADeal
  BY DEF HoldsInv
<1> QED BY <1>1, HoldsInvariant, PTL

-----------------------------------------------------------------------------
(***************************************************************************)
(* What a step may never do.                                               *)
(***************************************************************************)

\* The steps that change the deal or signature columns.
LEMMA DealColumns ==
    ASSUME TypeOK, [Next]_vars, NEW m \in Matches
    PROVE  \/ deal'[m] = deal[m] /\ signed'[m] = signed[m]
           \/ deal[m] = "none" /\ deal'[m] = "pending_signatures"
                 /\ signed'[m] = signed[m]
           \/ deal[m] = "pending_signatures" /\ signed[m] \subseteq signed'[m]
                 /\ deal'[m] = IF signed'[m] = Side THEN "confirmed" ELSE deal[m]
           \/ deal[m] = "pending_signatures" /\ deal'[m] \in {"cancelled", "expired"}
                 /\ signed'[m] = signed[m]
           \/ deal'[m] = "cancelled_revoked" /\ signed'[m] = signed[m]
<1>1. CASE IntentNext
  BY <1>1 DEF IntentNext, CreateIntent, CancelIntent
<1>2. CASE DiscoveryNext
  BY <1>2 DEF DiscoveryNext, ShortlistPair, UpsertMatch, DropCandidate
<1>3. CASE NegotiationNext
  BY <1>3 DEF NegotiationNext, StartOrContinue, RejectOffer, LoadOffer, LoadParties,
       DropLoaded, AcceptOffer, AcceptLoadedOffer, TakeOffer, CreatePendingDeal, TypeOK
<1>4. CASE DealNext
  <2>1. PICK k \in Matches, s \in Side, kind \in Kind :
           \/ DealLapses(k) \/ ExpireDeal(k)
           \/ SubmitSignature(k, s) \/ AuthorizeDealSide(k, s)
           \/ SubmitCancel(k, s)
           \/ CreateSignatureDraft(k, s, kind) \/ DraftExpires(k, s, kind)
    BY <1>4 DEF DealNext
  <2>2. CASE ExpireDeal(k) \/ SubmitCancel(k, s)
    BY <2>2 DEF ExpireDeal, Expirable, SubmitCancel, LoadAndValidateDraft, TypeOK
  <2>3. CASE SubmitSignature(k, s) \/ AuthorizeDealSide(k, s)
    BY <2>3 DEF SubmitSignature, AuthorizeDealSide, LoadAndValidateDraft,
                ConfirmIfAuthorized, FullyAuthorized, TypeOK
  <2>4. CASE DealLapses(k) \/ CreateSignatureDraft(k, s, kind) \/ DraftExpires(k, s, kind)
    BY <2>4 DEF DealLapses, CreateSignatureDraft, DraftExpires
  <2> QED BY <2>1, <2>2, <2>3, <2>4
<1>5. CASE RevocationNext
  BY <1>5 DEF RevocationNext, ActivateAgent, BeginRevocation, FinishRevocation
<1>6. CASE UNCHANGED vars
  BY <1>6 DEF vars
<1> QED BY <1>1, <1>2, <1>3, <1>4, <1>5, <1>6 DEF Next

\* No deal is confirmed before both sides have signed or authorized it.
THEOREM BothSidesConfirm == Spec => []ConfirmedByBothSides
<1>1. Init => ConfirmedByBothSides
  BY DEF Init, ConfirmedByBothSides
<1>2. TypeOK /\ TypeOK' /\ ConfirmedByBothSides /\ [Next]_vars => ConfirmedByBothSides'
  BY DealColumns DEF ConfirmedByBothSides
<1> QED BY <1>1, <1>2, TypeCorrect, PTL DEF Spec

\* A deal that was cancelled, expired or revoked never comes back.
THEOREM DeadDealsStayDead == Spec => DealStaysDead
<1>1. TypeOK /\ [Next]_vars => \A m \in Matches : deal[m] \in Dead => deal'[m] \in Dead
  BY DealColumns
<1> QED BY <1>1, TypeCorrect, PTL DEF Spec, DealStaysDead

-----------------------------------------------------------------------------
(***************************************************************************)
(* Marketplace implements Reservation.                                     *)
(***************************************************************************)

LEMMA RefinesInit == Init => Promise!ReservationInit
BY DEF Init, Promise!ReservationInit, Standing, Outcome

LEMMA AbstractStutter ==
    ASSUME \A i \in Intents : Standing(i)' = Standing(i),
           \A m \in Matches : Outcome(m)' = Outcome(m)
    PROVE  UNCHANGED Promise!abstractVars
BY DEF Promise!abstractVars

LEMMA IntentRefines ==
    ASSUME HoldsInv, NEW i \in Intents,
           \/ CreateIntent(i)
           \/ \E late \in LateOpenings(MatchesOf(i)) : CancelIntent(i, late)
    PROVE  Promise!Publish(i) \/ Promise!Withdraw(i)
<1>0. deal' = deal
  BY DEF CreateIntent, CancelIntent
<1>1. \A m \in Matches : Outcome(m)' = Outcome(m)
  BY <1>0 DEF Outcome
<1>2. \A j \in Intents \ {i} : Standing(j)' = Standing(j)
  <2>1. \A j \in Intents \ {i} : intent'[j] = intent[j]
    BY DEF CreateIntent, CancelIntent, HoldsInv, TablesInv, TypeOK
  <2> QED BY <1>0, <2>1 DEF Standing, HasDeal, MatchesOf
<1>3. CASE CreateIntent(i)
  <2>1. Standing(i) = "absent" /\ Standing(i)' = "open"
    BY <1>3 DEF CreateIntent, Standing, HoldsInv, TablesInv, TypeOK
  <2> QED BY <1>1, <1>2, <2>1 DEF Promise!Publish, Promise!SetStanding
<1>4. CASE \E late \in LateOpenings(MatchesOf(i)) : CancelIntent(i, late)
  <2>1. Standing(i) = "open" /\ Standing(i)' = "withdrawn"
    BY <1>4 DEF CancelIntent, Cancellable, Standing, HoldsInv, TablesInv, TypeOK
  <2> QED BY <1>1, <1>2, <2>1 DEF Promise!Withdraw, Promise!SetStanding
<1> QED BY <1>3, <1>4

\* What a match's deal says about the matches it competes with, as long as no
\* tool came late.
LEMMA HolderIsAlone ==
    ASSUME HoldsInv, misled = {}, NEW m \in Matches, deal[m] \in Live, NEW i \in IntentsOf(m)
    PROVE  /\ i \in Intents
           /\ intent[i] = "matched"
           /\ \A k \in MatchesOf(i) \ {m} : deal[k] \notin Live
BY IntentsOfType
DEF HoldsInv, LiveDealHoldsIntents, ExclusiveHold, MatchesOf

LEMMA AcceptRefines ==
    ASSUME HoldsInv, NEW m \in Matches, StillOnOffer(m), PromoteIntents(m),
           CreatePendingDeal(m), deal[m] = "none"
    PROVE  Promise!Reserve(m)
<1>1. /\ deal'[m] = "pending_signatures"
      /\ \A k \in Matches \ {m} : deal'[k] = deal[k]
  BY DEF CreatePendingDeal, HoldsInv, TablesInv, TypeOK
<1>2. \A i \in IntentsOf(m) : i \in Intents /\ Standing(i) = "open"
  BY IntentsOfType DEF StillOnOffer, Standing
<1>3. \A i \in IntentsOf(m) : Standing(i)' = "reserved"
  BY <1>1, <1>2 DEF PromoteIntents, Standing, HasDeal, MatchesOf
<1>4. \A i \in Intents \ IntentsOf(m) : Standing(i)' = Standing(i)
  BY <1>1 DEF PromoteIntents, Standing, HasDeal, MatchesOf
<1>5. Outcome(m) = "none" /\ Outcome(m)' = "reserving"
  BY <1>1 DEF Outcome
<1>6. \A k \in Matches \ {m} : Outcome(k)' = Outcome(k)
  BY <1>1 DEF Outcome
<1> QED BY <1>2, <1>3, <1>4, <1>5, <1>6 DEF Promise!Reserve, Promise!SetStanding

LEMMA ConfirmRefines ==
    ASSUME HoldsInv, HoldsInv', misled = {}, NEW m \in Matches, intent' = intent,
           deal[m] = "pending_signatures", deal'[m] = "confirmed",
           \A k \in Matches \ {m} : deal'[k] = deal[k]
    PROVE  Promise!Settle(m)
<1>1. \A i \in IntentsOf(m) :
         /\ i \in Intents /\ intent'[i] = "matched"
         /\ \A k \in MatchesOf(i) \ {m} : deal[k] \notin Live
  BY HolderIsAlone
<1>2. \A i \in IntentsOf(m) : Standing(i)' = "sold"
  BY <1>1 DEF Standing, HasDeal, MatchesOf
<1>3. \A i \in Intents \ IntentsOf(m) : Standing(i)' = Standing(i)
  BY DEF Standing, HasDeal, MatchesOf
<1>4. Outcome(m) = "reserving" /\ Outcome(m)' = "settled"
  BY DEF Outcome
<1>5. \A k \in Matches \ {m} : Outcome(k)' = Outcome(k)
  BY DEF Outcome
<1> QED BY <1>2, <1>3, <1>4, <1>5 DEF Promise!Settle, Promise!SetStanding

LEMMA RollbackRefines ==
    ASSUME HoldsInv, misled = {}, NEW m \in Matches, RollbackDealState(m),
           deal[m] = "pending_signatures", deal'[m] \in {"cancelled", "expired"},
           \A k \in Matches \ {m} : deal'[k] = deal[k]
    PROVE  Promise!GiveBack(m)
<1>1. \A i \in IntentsOf(m) : i \in Intents /\ intent[i] = "matched"
  BY HolderIsAlone
<1>2. \A i \in IntentsOf(m) : Standing(i)' = "open"
  BY <1>1 DEF RollbackDealState, Standing
<1>3. \A i \in Intents \ IntentsOf(m) : Standing(i)' = Standing(i)
  BY DEF RollbackDealState, Standing, HasDeal, MatchesOf
<1>4. Outcome(m) = "reserving" /\ Outcome(m)' = "void"
  BY DEF Outcome
<1>5. \A k \in Matches \ {m} : Outcome(k)' = Outcome(k)
  BY DEF Outcome
<1> QED BY <1>2, <1>3, <1>4, <1>5 DEF Promise!GiveBack, Promise!SetStanding

LEMMA RevocationRefines ==
    ASSUME HoldsInv, misled = {}, NEW u \in Users, FinishRevocation(u),
           ~ OverwritesConfirmed
    PROVE  \E D \in SUBSET Matches : Promise!Strand(D)
<1> DEFINE D == {m \in readDeals[u] : deal[m] = "pending_signatures"}
<1>1. readDeals[u] \subseteq Matches /\ \A m \in readDeals[u] : deal[m] # "none"
  BY DEF HoldsInv, TablesInv, TypeOK, ReadDealsExist
<1>2. /\ intent' = intent
      /\ \A m \in Matches :
            deal'[m] = IF m \in readDeals[u] THEN "cancelled_revoked" ELSE deal[m]
      /\ \A m \in readDeals[u] : deal[m] # "confirmed"
  BY <1>1 DEF FinishRevocation, OverwritesConfirmed
<1>3. \A m \in D : Outcome(m) = "reserving"
  BY <1>1 DEF Outcome
<1>4. \A m \in Matches : Outcome(m)' = IF m \in D THEN "void" ELSE Outcome(m)
  BY <1>1, <1>2 DEF Outcome, HoldsInv, TablesInv, TypeOK
<1>5. \A m \in D : \A i \in IntentsOf(m) : i \in Intents /\ Standing(i)' = "stranded"
  <2> SUFFICES ASSUME NEW m \in D, NEW i \in IntentsOf(m)
               PROVE  i \in Intents /\ Standing(i)' = "stranded"
    OBVIOUS
  <2>1. /\ i \in Intents /\ intent'[i] = "matched"
        /\ \A k \in MatchesOf(i) \ {m} : deal[k] \notin Live
    BY <1>1, <1>2, HolderIsAlone
  <2> QED BY <1>1, <1>2, <2>1 DEF Standing, HasDeal, MatchesOf
<1>6. \A i \in Intents \ UNION {IntentsOf(m) : m \in D} : Standing(i)' = Standing(i)
  <2> SUFFICES ASSUME NEW i \in Intents, \A m \in D : i \notin IntentsOf(m)
               PROVE  Standing(i)' = Standing(i)
    OBVIOUS
  <2>1. \A k \in MatchesOf(i), status \in Live :
           deal'[k] = status <=> deal[k] = status
    BY <1>1, <1>2 DEF MatchesOf
  <2>2. \A status \in Live : HasDeal(i, status)' <=> HasDeal(i, status)
    BY <2>1 DEF HasDeal, MatchesOf
  <2> QED BY <1>2, <2>2 DEF Standing
<1>7. UNION {IntentsOf(m) : m \in D} =
        UNION {[k \in Matches |-> IntentsOf(k)][m] : m \in D}
  BY <1>1
<1>8. Promise!Strand(D)
  BY <1>1, <1>3, <1>4, <1>5, <1>6, <1>7 DEF Promise!Strand, Promise!SetStanding
<1> QED BY <1>1, <1>8

LEMMA RefinesStep ==
    ASSUME HoldsInv, HoldsInv', [Next]_vars, misled' = {}, ~ OverwritesConfirmed
    PROVE  [Promise!ReservationNext]_(Promise!abstractVars)
<1>m. misled = {}
  BY DEF Next, IntentNext, CreateIntent, CancelIntent, DiscoveryNext, ShortlistPair,
     UpsertMatch, DropCandidate, NegotiationNext, StartOrContinue, RejectOffer,
     LoadOffer, LoadParties, DropLoaded, AcceptOffer, AcceptLoadedOffer, DealNext,
     DealLapses, ExpireDeal, SubmitSignature, AuthorizeDealSide, SubmitCancel,
     CreateSignatureDraft, DraftExpires, RevocationNext, ActivateAgent,
     BeginRevocation, FinishRevocation, vars
<1>u. ASSUME intent' = intent, deal' = deal
      PROVE  UNCHANGED Promise!abstractVars
  BY <1>u, AbstractStutter DEF Standing, Outcome, HasDeal
<1>1. CASE IntentNext
  BY <1>1, IntentRefines DEF IntentNext, Promise!ReservationNext
<1>2. CASE DiscoveryNext
  BY <1>2, <1>u DEF DiscoveryNext, ShortlistPair, UpsertMatch, DropCandidate
<1>3. CASE NegotiationNext
  <2>1. PICK m \in Matches, s \in Side :
           \/ StartOrContinue(m, s) \/ RejectOffer(m, s)
           \/ LoadOffer(m, s) \/ LoadParties(m, s) \/ DropLoaded(m, s)
           \/ \E late \in LateOpenings(Rivals(m)) :
                 AcceptOffer(m, s, late) \/ AcceptLoadedOffer(m, s, late)
    BY <1>3 DEF NegotiationNext
  <2>2. CASE \/ StartOrContinue(m, s) \/ RejectOffer(m, s)
             \/ LoadOffer(m, s) \/ LoadParties(m, s) \/ DropLoaded(m, s)
    BY <2>2, <1>u DEF StartOrContinue, RejectOffer, LoadOffer, LoadParties, DropLoaded
  <2>3. CASE \E late \in LateOpenings(Rivals(m)) : AcceptOffer(m, s, late)
    <3>1. /\ StillOnOffer(m) /\ PromoteIntents(m) /\ CreatePendingDeal(m)
          /\ nego[m] = "active"
      BY <2>3 DEF AcceptOffer, TakeOffer, CanAnswer
    <3>2. deal[m] = "none"
      BY <3>1 DEF HoldsInv, TablesInv, DealFollowsNegotiation
    <3> QED BY <3>1, <3>2, AcceptRefines DEF Promise!ReservationNext
  <2>4. CASE \E late \in LateOpenings(Rivals(m)) : AcceptLoadedOffer(m, s, late)
    <3>1. /\ TakenAnyway(m) = {} /\ PromoteIntents(m) /\ CreatePendingDeal(m)
      BY <2>4 DEF AcceptLoadedOffer, TakeOffer
    <3>2. CASE deal[m] = "none"
      <4>1. StillOnOffer(m)
        BY <3>1, <3>2 DEF TakenAnyway, StillOnOffer
      <4> QED BY <3>1, <3>2, <4>1, AcceptRefines DEF Promise!ReservationNext
    <3>3. CASE deal[m] # "none"
      <4>1. \A i \in IntentsOf(m) : intent[i] = "matched"
        BY <3>1, <3>3 DEF TakenAnyway
      <4>2. intent' = intent /\ deal' = deal
        BY <3>1, <3>3, <4>1
        DEF PromoteIntents, CreatePendingDeal, HoldsInv, TablesInv, TypeOK
      <4> QED BY <4>2, <1>u
    <3> QED BY <3>2, <3>3
  <2> QED BY <2>1, <2>2, <2>3, <2>4
<1>4. CASE DealNext
  <2>1. PICK m \in Matches, s \in Side, kind \in Kind :
           \/ DealLapses(m) \/ ExpireDeal(m)
           \/ SubmitSignature(m, s) \/ AuthorizeDealSide(m, s)
           \/ SubmitCancel(m, s)
           \/ CreateSignatureDraft(m, s, kind) \/ DraftExpires(m, s, kind)
    BY <1>4 DEF DealNext
  <2>2. CASE ExpireDeal(m) \/ SubmitCancel(m, s)
    <3>1. /\ RollbackDealState(m) /\ deal[m] = "pending_signatures"
          /\ deal'[m] \in {"cancelled", "expired"}
          /\ \A k \in Matches \ {m} : deal'[k] = deal[k]
      BY <2>2 DEF ExpireDeal, Expirable, SubmitCancel, LoadAndValidateDraft,
                  HoldsInv, TablesInv, TypeOK
    <3> QED BY <1>m, <3>1, RollbackRefines DEF Promise!ReservationNext
  <2>3. CASE SubmitSignature(m, s) \/ AuthorizeDealSide(m, s)
    <3>1. /\ intent' = intent
          /\ deal[m] = "pending_signatures"
          /\ deal'[m] = "confirmed" \/ deal' = deal
          /\ \A k \in Matches \ {m} : deal'[k] = deal[k]
      BY <2>3 DEF SubmitSignature, AuthorizeDealSide, LoadAndValidateDraft,
                  ConfirmIfAuthorized, HoldsInv, TablesInv, TypeOK
    <3> QED BY <1>m, <3>1, <1>u, ConfirmRefines DEF Promise!ReservationNext
  <2>4. CASE DealLapses(m) \/ CreateSignatureDraft(m, s, kind) \/ DraftExpires(m, s, kind)
    BY <2>4, <1>u DEF DealLapses, CreateSignatureDraft, DraftExpires
  <2> QED BY <2>1, <2>2, <2>3, <2>4
<1>5. CASE RevocationNext
  <2>1. PICK u \in Users :
           ActivateAgent(u) \/ BeginRevocation(u) \/ FinishRevocation(u)
    BY <1>5 DEF RevocationNext
  <2>2. CASE ActivateAgent(u) \/ BeginRevocation(u)
    BY <2>2, <1>u DEF ActivateAgent, BeginRevocation
  <2>3. CASE FinishRevocation(u)
    BY <1>m, <2>3, RevocationRefines DEF Promise!ReservationNext
  <2> QED BY <2>1, <2>2, <2>3
<1>6. CASE UNCHANGED vars
  BY <1>6, <1>u DEF vars
<1> QED BY <1>1, <1>2, <1>3, <1>4, <1>5, <1>6 DEF Next

\* The tables implement the reservation promise: whatever the handlers and the
\* scheduler do, an intent is held by one deal at a time, a deal takes both of
\* its intents at once and only from the open market, and it sells both for good
\* or gives both back, or a revocation strands them.  Only a revocation that
\* writes over a confirmed deal and an accept on what a tool had loaded break it.
THEOREM Refinement == Spec => KeepsPromise
<1>1. Init => Promise!ReservationInit
  BY RefinesInit
<1>2. HoldsInv /\ HoldsInv' /\ [Next]_vars
        => [\/ UNCHANGED << intent, deal >>
            \/ misled' # {}
            \/ OverwritesConfirmed
            \/ Promise!ReservationNext]_(Promise!abstractVars)
  BY RefinesStep
<1> QED BY <1>1, <1>2, HoldsInvariant, PTL DEF Spec, KeepsPromise

\* An intent leaves matched only with the deal that held it, when that deal is
\* cancelled or expires.
THEOREM OnlyItsDealReleases == Spec => ReleasedByItsDeal
<1>1. ASSUME TypeOK, [Next]_vars, NEW i \in Intents,
             intent[i] = "matched", intent'[i] # "matched"
      PROVE  /\ intent'[i] = "active"
             /\ \E m \in MatchesOf(i) :
                   deal[m] = "pending_signatures" /\ deal'[m] \in {"cancelled", "expired"}
  <2>1. ~ IntentNext
    BY <1>1 DEF IntentNext, CreateIntent, CancelIntent, Cancellable, TypeOK
  <2>2. ~ DiscoveryNext /\ ~ RevocationNext /\ ~ UNCHANGED vars
    BY <1>1 DEF DiscoveryNext, ShortlistPair, UpsertMatch, DropCandidate,
       RevocationNext, ActivateAgent, BeginRevocation, FinishRevocation, vars
  <2>3. ~ NegotiationNext
    <3>1. NegotiationNext => intent' = intent \/ \E m \in Matches : PromoteIntents(m)
      BY DEF NegotiationNext, StartOrContinue, RejectOffer, LoadOffer, LoadParties,
             DropLoaded, AcceptOffer, AcceptLoadedOffer, TakeOffer
    <3> QED BY <1>1, <3>1 DEF PromoteIntents
  <2>4. PICK m \in Matches, s \in Side : ExpireDeal(m) \/ SubmitCancel(m, s)
    BY <1>1, <2>1, <2>2, <2>3
    DEF Next, DealNext, DealLapses, SubmitSignature, AuthorizeDealSide,
        CreateSignatureDraft, DraftExpires
  <2>5. /\ i \in IntentsOf(m) /\ intent'[i] = "active"
        /\ deal[m] = "pending_signatures" /\ deal'[m] \in {"cancelled", "expired"}
    BY <1>1, <2>4 DEF ExpireDeal, Expirable, SubmitCancel, LoadAndValidateDraft,
       RollbackDealState, TypeOK
  <2> QED BY <2>5 DEF MatchesOf
<1>2. TypeOK /\ [Next]_vars => \A i \in Intents :
         intent[i] = "matched" /\ intent'[i] # "matched" =>
            /\ intent'[i] = "active"
            /\ \E m \in MatchesOf(i) :
                  deal[m] = "pending_signatures" /\ deal'[m] \in {"cancelled", "expired"}
  BY <1>1
<1> QED BY <1>2, TypeCorrect, PTL DEF Spec, ReleasedByItsDeal

=============================================================================
