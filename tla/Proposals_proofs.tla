-------------------------- MODULE Proposals_proofs --------------------------
(***************************************************************************)
(* One negotiation for every set of prices and deltas, every limit of      *)
(* rounds and any number of tool calls that act on rows they loaded        *)
(* earlier.  The argument: what a session has loaded was stored once, so   *)
(* everything that is true of the row on its own (Sound) is true of the    *)
(* loaded row too, and a row that is written from it is sound again,       *)
(* whatever the turns are that it overwrites.                              *)
(***************************************************************************)
EXTENDS Proposals, FiniteSetTheorems, SequenceTheorems, WellFoundedInduction, TLAPS

\* A row on its own: only the answer, at the end, is no proposal; an open or
\* closed exchange has used a round for each turn and stays within the limit.
OnlyTheLastAnswers(turns) == \A i \in DOMAIN turns : ~IsProposal(turns[i]) => i = Len(turns)

StaysInTheLimit(turns) ==
    /\ Len(turns) <= MaxRounds + 1
    /\ Len(turns) = MaxRounds + 1 => ~IsProposal(turns[Len(turns)])

Unanswered(row) ==
    /\ row.turns # <<>> /\ IsProposal(Last(row.turns))
    /\ row.rounds = Len(row.turns)

Sound(row) ==
    /\ row.status = "none" => row.turns = <<>> /\ row.rounds = 0
    /\ row.status \in {"active", "cancelled"} => Unanswered(row)
    /\ OnlyTheLastAnswers(row.turns)
    /\ StaysInTheLimit(row.turns)
    /\ \A i \in DOMAIN row.turns : Coherent(row.turns[i].terms)

\* A loaded row was stored once, and a negotiation that exists never goes away.
LoadedWasStored ==
    \A c \in Calls : loaded[c].status \in NegoStatus =>
        /\ Sound(loaded[c])
        /\ loaded[c].status # "none"
        /\ nego.status # "none"

ProposalsInv ==
    /\ TypeOK
    /\ Sound(nego)
    /\ LoadedWasStored
    /\ AgreedIsTheirs

\* The columns of a row that a session works with.
IsRow(row) ==
    /\ row.status \in NegoStatus
    /\ row.turns \in Seq(Turn)
    /\ row.rounds \in 0..MaxRounds

-----------------------------------------------------------------------------
(***************************************************************************)
(* Terms.                                                                  *)
(***************************************************************************)

\* What a delta is made into has the keys and values of terms.
LEMMA NormalizedIsPartOfTerms ==
  ASSUME NEW delta \in Deltas
  PROVE  \E t \in Terms : \A k \in DOMAIN Normalized(delta) : Normalized(delta)[k] = t[k]
<1>1. PICK t \in Terms : /\ DOMAIN delta \subseteq DOMAIN t
                         /\ delta = [k \in DOMAIN delta |-> t[k]]
  BY DeltasAssumption
<1> DEFINE flagged == [k \in DOMAIN delta \cup {"shipping_required"} |->
                          IF k = "shipping_required" THEN TRUE ELSE delta[k]]
<1>2. \A k \in DOMAIN delta : delta[k] = t[k]
  BY <1>1
<1>3. CASE Normalized(delta) = delta
  BY <1>2, <1>3
<1>4. CASE Normalized(delta) = flagged
  <2> DEFINE u == [t EXCEPT !.shipping_required = TRUE]
  <2>1. u \in Terms
    BY DEF Terms
  <2>2. /\ u["shipping_required"] = TRUE
        /\ \A k \in DOMAIN t : k # "shipping_required" => u[k] = t[k]
    BY DEF Terms
  <2>3. \A k \in DOMAIN flagged : flagged[k] = u[k]
    BY <1>1, <1>2, <2>2
  <2> HIDE DEF u, flagged
  <2> QED
    BY <1>4, <2>1, <2>3
<1> QED
  BY <1>3, <1>4 DEF Normalized

LEMMA MergedIsTerms ==
  ASSUME NEW previous \in Terms, NEW price \in Prices, NEW delta \in Deltas
  PROVE  Merged(previous, price, Normalized(delta)) \in Terms
<1> DEFINE n == Normalized(delta)
           m == Merged(previous, price, n)
<1>1. PICK t \in Terms : \A k \in DOMAIN n : n[k] = t[k]
  BY NormalizedIsPartOfTerms
<1> HIDE DEF n
<1>2. m = [item_price_cents |-> price,
           shipping_required |-> m.shipping_required,
           shipping_paid_by |-> m.shipping_paid_by,
           shipping_method_preference |-> m.shipping_method_preference,
           tracking_required |-> m.tracking_required,
           insurance_required |-> m.insurance_required]
  BY DEF Merged, Terms
<1>3. \A k \in {"shipping_required", "shipping_paid_by", "shipping_method_preference",
                "tracking_required", "insurance_required"} : m[k] \in {t[k], previous[k]}
  BY <1>1 DEF Merged, Terms
<1> HIDE DEF m
<1>4. /\ m.shipping_required \in BOOLEAN
      /\ m.shipping_paid_by \in {"buyer", "seller", "included", NoPayer}
      /\ m.shipping_method_preference \in ShippingMethod \cup {NoMethod}
      /\ m.tracking_required \in BOOLEAN
      /\ m.insurance_required \in BOOLEAN
  BY <1>3 DEF Terms
<1>5. m \in Terms
  BY <1>2, <1>4 DEF Terms
<1> QED
  BY <1>5 DEF m, n

LEMMA PolicyIsApplied ==
  ASSUME NEW t \in Terms
  PROVE  LET a == WithoutShipping(WithMethodPolicy(t)) IN a \in Terms /\ Coherent(a)
<1>1. WithMethodPolicy(t) \in Terms
  <2> DEFINE tracking == t.shipping_method_preference \in TrackingPolicy
             insurance == t.insurance_required \/ t.shipping_method_preference \in InsurancePolicy
  <2>1. tracking \in BOOLEAN /\ insurance \in BOOLEAN
    OBVIOUS
  <2> HIDE DEF tracking, insurance
  <2>2. [t EXCEPT !.tracking_required = tracking, !.insurance_required = insurance] \in Terms
    BY <2>1 DEF Terms
  <2> QED
    BY <2>2 DEF WithMethodPolicy, tracking, insurance
<1> DEFINE p == WithMethodPolicy(t)
<1>2. /\ p.shipping_method_preference # NoMethod =>
            p.tracking_required = (p.shipping_method_preference \in TrackingPolicy)
      /\ p.shipping_method_preference \in InsurancePolicy => p.insurance_required
  BY DEF WithMethodPolicy, Terms, InsurancePolicy, NoMethod
<1>3. \A price \in Prices : /\ EmptyTerms(price) \in Terms
                            /\ EmptyTerms(price).item_price_cents = price
                            /\ EmptyTerms(price).shipping_method_preference = NoMethod
  BY DEF EmptyTerms, Terms
<1> HIDE DEF p
<1>4. CASE p.shipping_required
  BY <1>1, <1>2, <1>4 DEF WithoutShipping, Coherent, p
<1>5. CASE ~p.shipping_required
  <2>1. p.item_price_cents \in Prices
    BY <1>1 DEF p, Terms
  <2>2. WithoutShipping(p) = EmptyTerms(p.item_price_cents)
    BY <1>5 DEF WithoutShipping
  <2>3. Coherent(EmptyTerms(p.item_price_cents))
    BY <1>3, <2>1 DEF Coherent, InsurancePolicy, NoMethod
  <2> QED
    BY <1>3, <2>1, <2>2, <2>3 DEF p
<1> QED
  BY <1>4, <1>5

\* _apply_terms_delta: the terms of the next proposal are coherent, whatever
\* the previous ones were.
THEOREM AppliedTermsAreCoherent ==
  ASSUME NEW previous \in Terms, NEW price \in Prices, NEW delta \in Deltas
  PROVE  /\ ApplyTermsDelta(previous, price, delta) \in Terms
         /\ Coherent(ApplyTermsDelta(previous, price, delta))
  BY MergedIsTerms, PolicyIsApplied DEF ApplyTermsDelta

-----------------------------------------------------------------------------
(***************************************************************************)
(* Turns.                                                                  *)
(***************************************************************************)

LEMMA GreatestExists ==
  ASSUME NEW n \in Nat, NEW S \in SUBSET (1..n), S # {}
  PROVE  Max(S) \in S
<1> DEFINE T == {n - i : i \in S}
           R == OpToRel(<, Nat)
<1>1. T \subseteq Nat /\ T # {}
  <2>1. \A i \in S : n - i \in Nat
    OBVIOUS
  <2> QED
    BY <2>1
<1>2. IsWellFoundedOn(R, Nat)
  BY NatLessThanWellFounded
<1>3. \A x, y \in Nat : <<y, x>> \in R <=> y < x
  BY DEF OpToRel
<1> HIDE DEF R, T
<1>4. PICK x \in T : \A y \in T : ~ (<<y, x>> \in R)
  BY <1>1, <1>2, WFMin
<1>5. \A y \in T : x <= y
  <2> SUFFICES ASSUME NEW y \in T PROVE x <= y
    OBVIOUS
  <2>1. x \in Nat /\ y \in Nat /\ ~ (y < x)
    BY <1>1, <1>3, <1>4
  <2> QED
    BY <2>1
<1>6. PICK i \in S : x = n - i
  BY DEF T
<1>7. \A j \in S : i >= j
  <2> SUFFICES ASSUME NEW j \in S PROVE i >= j
    OBVIOUS
  <2>1. x <= n - j
    BY <1>5 DEF T
  <2> QED
    BY <1>6, <2>1
<1> QED
  BY <1>7 DEF Max

LEMMA LastProposalIsTyped ==
  ASSUME NEW turns \in Seq(Turn), NEW price \in Prices
  PROVE  LastProposalTerms(turns, price) \in Terms
<1>1. CASE ProposalsIn(turns) = {}
  BY <1>1 DEF LastProposalTerms, EmptyTerms, Terms
<1>2. CASE ProposalsIn(turns) # {}
  <2>1. Len(turns) \in Nat /\ ProposalsIn(turns) \subseteq 1..Len(turns)
    BY DEF ProposalsIn
  <2>2. Max(ProposalsIn(turns)) \in 1..Len(turns)
    BY <1>2, <2>1, GreatestExists
  <2>3. turns[Max(ProposalsIn(turns))] \in Turn
    BY <2>2
  <2> QED
    BY <1>2, <2>3 DEF LastProposalTerms, Turn
<1> QED
  BY <1>1, <1>2

LEMMA NewTurnIsAProposal ==
  ASSUME NEW turns \in Seq(Turn), NEW by \in Side, NEW price \in Prices, NEW delta \in Deltas
  PROVE  LET t == NewTurn(turns, by, price, delta)
         IN  t \in Turn /\ IsProposal(t) /\ Coherent(t.terms)
<1> DEFINE terms == ApplyTermsDelta(LastProposalTerms(turns, price), price, delta)
<1>1. terms \in Terms /\ Coherent(terms)
  BY LastProposalIsTyped, AppliedTermsAreCoherent
<1> HIDE DEF terms
<1>2. NewTurn(turns, by, price, delta) =
        [type |-> IF turns = <<>> THEN "offer" ELSE "counter_offer", by |-> by, terms |-> terms]
  BY DEF NewTurn, terms
<1> QED
  BY <1>1, <1>2 DEF Turn, IsProposal

\* What a turn at the end changes.
LEMMA OneMoreTurn ==
  ASSUME NEW turns \in Seq(Turn), NEW t \in Turn
  PROVE  LET more == Append(turns, t)
         IN  /\ more \in Seq(Turn)
             /\ more # <<>>
             /\ Len(more) = Len(turns) + 1
             /\ Last(more) = t
             /\ more[Len(turns) + 1] = t
             /\ \A i \in 1..Len(turns) : more[i] = turns[i]
             /\ DOMAIN more = 1..(Len(turns) + 1)
  BY AppendProperties DEF Last

\* A proposal after an exchange without an answer.
LEMMA ProposalKeepsSound ==
  ASSUME NEW row, IsRow(row), Sound(row), row.status \in {"none", "active"},
         row.rounds < MaxRounds,
         NEW t \in Turn, IsProposal(t), Coherent(t.terms),
         NEW new, IsRow(new), new.turns = Append(row.turns, t),
         new.rounds = row.rounds + 1, new.status # "none"
  PROVE  Sound(new)
<1>1. row.turns \in Seq(Turn) /\ Len(row.turns) \in Nat /\ MaxRounds \in Nat
  BY RoundsAssumption DEF IsRow
<1>2. row.rounds = Len(row.turns)
  BY DEF Sound, Unanswered
<1>3. \A i \in DOMAIN row.turns : IsProposal(row.turns[i])
  <2>1. CASE row.turns = <<>>
    BY <2>1
  <2>2. CASE row.turns # <<>>
    <3>1. IsProposal(row.turns[Len(row.turns)])
      BY <2>2 DEF Sound, Unanswered, Last
    <3> QED
      BY <3>1 DEF Sound, OnlyTheLastAnswers
  <2> QED
    BY <2>1, <2>2
<1> DEFINE more == Append(row.turns, t)
<1>4. /\ more # <<>>
      /\ Len(more) = Len(row.turns) + 1
      /\ Last(more) = t
      /\ more[Len(row.turns) + 1] = t
      /\ \A i \in 1..Len(row.turns) : more[i] = row.turns[i]
      /\ DOMAIN more = 1..(Len(row.turns) + 1)
  BY <1>1, OneMoreTurn
<1> HIDE DEF more
<1>5. new.turns = more
  BY DEF more
<1>6. Unanswered(new)
  BY <1>2, <1>4, <1>5 DEF Unanswered
<1>7. \A i \in DOMAIN more : IsProposal(more[i]) /\ Coherent(more[i].terms)
  <2> SUFFICES ASSUME NEW i \in DOMAIN more PROVE IsProposal(more[i]) /\ Coherent(more[i].terms)
    OBVIOUS
  <2>1. CASE i = Len(row.turns) + 1
    BY <1>4, <2>1
  <2>2. CASE i # Len(row.turns) + 1
    <3>1. i \in 1..Len(row.turns) /\ i \in DOMAIN row.turns
      BY <1>1, <1>4, <2>2
    <3>2. Coherent(row.turns[i].terms)
      BY <3>1 DEF Sound
    <3> QED
      BY <1>3, <1>4, <3>1, <3>2
  <2> QED
    BY <2>1, <2>2
<1>8. OnlyTheLastAnswers(more)
  BY <1>7 DEF OnlyTheLastAnswers
<1>9. StaysInTheLimit(more)
  BY <1>1, <1>2, <1>4 DEF StaysInTheLimit, IsRow
<1> QED
  BY <1>5, <1>6, <1>7, <1>8, <1>9 DEF Sound

\* The answer to an exchange.
LEMMA AnswerKeepsSound ==
  ASSUME NEW row, IsRow(row), Sound(row), row.status = "active",
         NEW t \in Turn, ~IsProposal(t), Coherent(t.terms),
         NEW new, new.turns = Append(row.turns, t), new.status \in {"agreed", "rejected"}
  PROVE  Sound(new)
<1>1. row.turns \in Seq(Turn) /\ Len(row.turns) \in Nat /\ MaxRounds \in Nat
  BY RoundsAssumption DEF IsRow
<1>2. /\ row.rounds = Len(row.turns)
      /\ row.turns # <<>> /\ IsProposal(row.turns[Len(row.turns)])
      /\ Len(row.turns) <= MaxRounds
  BY <1>1 DEF Sound, Unanswered, Last, IsRow
<1>3. \A i \in DOMAIN row.turns : IsProposal(row.turns[i])
  BY <1>2 DEF Sound, OnlyTheLastAnswers
<1> DEFINE more == Append(row.turns, t)
<1>4. /\ Len(more) = Len(row.turns) + 1
      /\ more[Len(row.turns) + 1] = t
      /\ \A i \in 1..Len(row.turns) : more[i] = row.turns[i]
      /\ DOMAIN more = 1..(Len(row.turns) + 1)
  BY <1>1, OneMoreTurn
<1> HIDE DEF more
<1>5. \A i \in DOMAIN more : /\ Coherent(more[i].terms)
                            /\ ~IsProposal(more[i]) => i = Len(more)
  <2> SUFFICES ASSUME NEW i \in DOMAIN more
               PROVE  Coherent(more[i].terms) /\ (~IsProposal(more[i]) => i = Len(more))
    OBVIOUS
  <2>1. CASE i = Len(row.turns) + 1
    BY <1>4, <2>1
  <2>2. CASE i # Len(row.turns) + 1
    <3>1. i \in 1..Len(row.turns) /\ i \in DOMAIN row.turns
      BY <1>1, <1>4, <2>2
    <3>2. Coherent(row.turns[i].terms)
      BY <3>1 DEF Sound
    <3> QED
      BY <1>3, <1>4, <3>1, <3>2
  <2> QED
    BY <2>1, <2>2
<1>6. StaysInTheLimit(more)
  BY <1>1, <1>2, <1>4 DEF StaysInTheLimit
<1> QED
  BY <1>5, <1>6 DEF Sound, OnlyTheLastAnswers, more

-----------------------------------------------------------------------------
(***************************************************************************)
(* What the service stores, from the row the session believes in.          *)
(***************************************************************************)

StoresTurns ==
    /\ nego' \in Row
    /\ Sound(nego')
    /\ nego'.status # "none"
    /\ match' \in MatchStatus

LEMMA AddTurnStores ==
  ASSUME ProposalsInv, NEW row, IsRow(row), Sound(row),
         row.status = "none" <=> nego.status = "none",
         NEW by \in Side, NEW price \in Prices, NEW delta \in Deltas,
         AddTurn(row, by, price, delta)
  PROVE  StoresTurns /\ match' # "agreed"
<1> DEFINE t == NewTurn(row.turns, by, price, delta)
           status == IF row.status = "none" THEN "active" ELSE nego.status
<1>1. /\ row.status \in {"none", "active"}
      /\ row.rounds < MaxRounds
      /\ match \in {"discovered", "negotiating"}
      /\ nego' = [status |-> status, turns |-> Append(row.turns, t), rounds |-> row.rounds + 1]
      /\ match' \in {"negotiating", match}
  BY DEF AddTurn, CanContinue
<1>2. t \in Turn /\ IsProposal(t) /\ Coherent(t.terms)
  BY NewTurnIsAProposal DEF IsRow
<1>3. status \in NegoStatus /\ status # "none"
  BY DEF ProposalsInv, TypeOK, Row, NegoStatus
<1> HIDE DEF t, status
<1>4. Append(row.turns, t) \in Seq(Turn)
  BY <1>2, OneMoreTurn DEF IsRow
<1>5. row.rounds + 1 \in 0..MaxRounds
  BY <1>1, RoundsAssumption DEF IsRow
<1>6. nego' \in Row /\ IsRow(nego')
  BY <1>1, <1>3, <1>4, <1>5 DEF Row, IsRow
<1>7. Sound(nego')
  BY <1>1, <1>2, <1>3, <1>6, ProposalKeepsSound
<1> QED
  BY <1>1, <1>3, <1>6, <1>7 DEF StoresTurns, MatchStatus

LEMMA AgreeStores ==
  ASSUME ProposalsInv, NEW row, IsRow(row), Sound(row),
         NEW by \in Side, NEW offered, NEW named, Agree(row, offered, by, named)
  PROVE  /\ StoresTurns
         /\ AgreedIsTheirs'
         /\ deals' \in [Prices -> DealStatus]
         /\ onOffer' \in BOOLEAN
<1> DEFINE last == row.turns[Len(row.turns)]
           t == [type |-> "accept", by |-> by, terms |-> last.terms]
<1>1. /\ row.status = "active"
      /\ row.turns # <<>>
      /\ last.by # by
      /\ nego' = [nego EXCEPT !.status = "agreed", !.turns = Append(row.turns, t)]
      /\ CreatePendingDeal(last.terms.item_price_cents)
      /\ match' = "agreed"
      /\ onOffer' = FALSE
  BY DEF Agree, Answerable, Last
<1>2. row.turns \in Seq(Turn) /\ Len(row.turns) \in Nat \ {0}
  BY <1>1 DEF IsRow
<1>3. /\ last \in Turn
      /\ IsProposal(last)
      /\ Coherent(last.terms)
  BY <1>1, <1>2 DEF Sound, Unanswered, Last
<1>4. t \in Turn /\ ~IsProposal(t) /\ Coherent(t.terms)
  BY <1>3 DEF Turn, IsProposal
<1>5. last.terms.item_price_cents \in Prices
  BY <1>3 DEF Turn, Terms
<1> DEFINE more == Append(row.turns, t)
<1>6. /\ more \in Seq(Turn)
      /\ Len(more) = Len(row.turns) + 1
      /\ more[Len(row.turns) + 1] = t
      /\ \A i \in 1..Len(row.turns) : more[i] = row.turns[i]
  BY <1>2, <1>4, OneMoreTurn
<1> HIDE DEF more
<1>7. /\ nego' = [status |-> "agreed", turns |-> more, rounds |-> nego.rounds]
      /\ nego.rounds \in 0..MaxRounds
  BY <1>1 DEF ProposalsInv, TypeOK, Row, more
<1>8. nego' \in Row
  BY <1>6, <1>7 DEF Row, NegoStatus
<1>9. Sound(nego')
  BY <1>1, <1>4, <1>7, AnswerKeepsSound DEF more
<1>10. /\ deals' \in [Prices -> DealStatus]
       /\ deals'[last.terms.item_price_cents] # "none"
  BY <1>1, <1>5 DEF CreatePendingDeal, ProposalsInv, TypeOK, DealStatus
<1>11. AgreedIsTheirs'
  <2>1. /\ Len(nego'.turns) >= 2
        /\ nego'.turns[Len(nego'.turns)] = t
        /\ nego'.turns[Len(nego'.turns) - 1] = last
    BY <1>2, <1>6, <1>7
  <2>2. /\ t.type = "accept" /\ t.by = by /\ t.terms = last.terms
    OBVIOUS
  <2> HIDE DEF t, last
  <2> QED
    BY <1>1, <1>3, <1>10, <2>1, <2>2 DEF AgreedIsTheirs, IsProposal
<1> QED
  BY <1>1, <1>7, <1>8, <1>9, <1>10, <1>11 DEF StoresTurns, MatchStatus

\* What a step does to the loaded rows: nothing, or it answers one call.
LEMMA LoadedStays ==
  ASSUME ProposalsInv, nego'.status # "none" \/ nego' = nego,
         UNCHANGED loaded \/ \E c \in Calls : Finish(c)
  PROVE  /\ loaded' \in [Calls -> LoadedRow \cup {NotLoaded, Answered}]
         /\ LoadedWasStored'
<1>1. loaded \in [Calls -> LoadedRow \cup {NotLoaded, Answered}]
  BY DEF ProposalsInv, TypeOK
<1>2. Answered.status \notin NegoStatus
  BY DEF Answered, NotLoaded, NegoStatus
<1>3. \A c \in Calls : loaded'[c] = loaded[c] \/ loaded'[c] = Answered
  BY <1>1 DEF Finish
<1>4. loaded' \in [Calls -> LoadedRow \cup {NotLoaded, Answered}]
  BY <1>1 DEF Finish
<1>5. \A c \in Calls : loaded'[c].status \in NegoStatus => loaded'[c] = loaded[c]
  BY <1>2, <1>3
<1>6. \A c \in Calls : loaded[c].status \in NegoStatus => nego'.status # "none"
  BY DEF ProposalsInv, LoadedWasStored
<1> QED
  BY <1>4, <1>5, <1>6 DEF ProposalsInv, LoadedWasStored, Sound, Unanswered

LEMMA LoadedIsRow ==
  ASSUME ProposalsInv, NEW c \in Calls, loaded[c].status \in NegoStatus
  PROVE  IsRow(loaded[c]) /\ Sound(loaded[c]) /\ loaded[c].status # "none" /\ nego.status # "none"
<1>1. loaded[c] \in LoadedRow
  BY DEF ProposalsInv, TypeOK, Answered, NotLoaded, NegoStatus
<1> QED
  BY <1>1 DEF ProposalsInv, LoadedWasStored, IsRow, LoadedRow

LEMMA NegoIsRow == ProposalsInv => IsRow(nego) /\ Sound(nego)
  BY DEF ProposalsInv, TypeOK, Row, IsRow

-----------------------------------------------------------------------------
(***************************************************************************)
(* The steps.                                                              *)
(***************************************************************************)

LEMMA ProposalsInit == Init => ProposalsInv
<1> SUFFICES ASSUME Init PROVE ProposalsInv
  OBVIOUS
<1>1. <<>> \in Seq(Turn) /\ Len(<<>>) = 0 /\ DOMAIN <<>> = {}
  OBVIOUS
<1>2. MaxRounds \in Nat /\ 0 \in 0..MaxRounds
  BY RoundsAssumption
<1>3. TypeOK
  BY <1>1, <1>2 DEF Init, TypeOK, Row, NegoStatus, MatchStatus, DealStatus
<1>4. Sound(nego)
  BY <1>1, <1>2 DEF Init, Sound, OnlyTheLastAnswers, StaysInTheLimit
<1>5. LoadedWasStored
  BY DEF Init, LoadedWasStored, NotLoaded, NegoStatus
<1>6. AgreedIsTheirs
  BY DEF Init, AgreedIsTheirs
<1> QED
  BY <1>3, <1>4, <1>5, <1>6 DEF ProposalsInv

LEMMA StoredTurnsKeepInv ==
  ASSUME ProposalsInv, StoresTurns, AgreedIsTheirs',
         deals' \in [Prices -> DealStatus], onOffer' \in BOOLEAN,
         UNCHANGED loaded \/ \E c \in Calls : Finish(c)
  PROVE  ProposalsInv'
  BY LoadedStays DEF StoresTurns, ProposalsInv, TypeOK

LEMMA AddTurnKeepsInv ==
  ASSUME ProposalsInv, NEW row, IsRow(row), Sound(row),
         row.status = "none" <=> nego.status = "none",
         NEW by \in Side, NEW price \in Prices, NEW delta \in Deltas,
         AddTurn(row, by, price, delta),
         UNCHANGED loaded \/ \E c \in Calls : Finish(c)
  PROVE  ProposalsInv'
<1>1. StoresTurns /\ match' # "agreed"
  BY AddTurnStores
<1>2. UNCHANGED <<onOffer, deals>>
  BY DEF AddTurn
<1>3. AgreedIsTheirs'
  BY <1>1 DEF AgreedIsTheirs
<1> QED
  BY <1>1, <1>2, <1>3, StoredTurnsKeepInv DEF ProposalsInv, TypeOK

LEMMA AgreeKeepsInv ==
  ASSUME ProposalsInv, NEW row, IsRow(row), Sound(row),
         NEW by \in Side, NEW offered, NEW named, Agree(row, offered, by, named),
         UNCHANGED loaded \/ \E c \in Calls : Finish(c)
  PROVE  ProposalsInv'
  BY AgreeStores, StoredTurnsKeepInv

LEMMA RejectKeepsInv ==
  ASSUME ProposalsInv, NEW by \in Side, RejectOffer(by)
  PROVE  ProposalsInv'
<1> DEFINE t == [type |-> "reject", by |-> by, terms |-> Last(nego.turns).terms]
           more == Append(nego.turns, t)
<1>1. /\ nego.status = "active"
      /\ nego.turns # <<>>
      /\ nego.turns \in Seq(Turn)
      /\ nego' = [nego EXCEPT !.status = "rejected", !.turns = more]
  BY DEF RejectOffer, Answerable, ProposalsInv, TypeOK, Row
<1>2. Len(nego.turns) \in DOMAIN nego.turns
  BY <1>1
<1>3. Last(nego.turns) \in Turn /\ Coherent(Last(nego.turns).terms)
  BY <1>1, <1>2 DEF ProposalsInv, Sound, Last
<1>4. t \in Turn /\ ~IsProposal(t) /\ Coherent(t.terms)
  BY <1>3 DEF Turn, IsProposal
<1>5. more \in Seq(Turn)
  BY <1>1, <1>4, OneMoreTurn
<1> HIDE DEF t
<1>6. /\ nego' = [status |-> "rejected", turns |-> more, rounds |-> nego.rounds]
      /\ nego.rounds \in 0..MaxRounds
  BY <1>1 DEF ProposalsInv, TypeOK, Row
<1>7. nego' \in Row
  BY <1>5, <1>6 DEF Row, NegoStatus
<1>8. Sound(nego')
  BY <1>1, <1>4, <1>6, NegoIsRow, AnswerKeepsSound
<1>9. match' = "rejected" /\ UNCHANGED <<onOffer, deals, loaded>>
  BY DEF RejectOffer
<1> QED
  BY <1>6, <1>7, <1>8, <1>9, StoredTurnsKeepInv
     DEF StoresTurns, AgreedIsTheirs, MatchStatus, ProposalsInv, TypeOK

LEMMA PreloadKeepsInv ==
  ASSUME ProposalsInv, NEW c \in Calls, Preload(c)
  PROVE  ProposalsInv'
<1> DEFINE r == [status |-> nego.status, turns |-> nego.turns, rounds |-> nego.rounds,
                 onOffer |-> onOffer]
<1>1. /\ nego.status # "none"
      /\ loaded' = [loaded EXCEPT ![c] = r]
      /\ UNCHANGED <<nego, match, onOffer, deals>>
      /\ loaded \in [Calls -> LoadedRow \cup {NotLoaded, Answered}]
  BY DEF Preload, ProposalsInv, TypeOK
<1>2. r \in LoadedRow
  BY DEF ProposalsInv, TypeOK, Row, LoadedRow
<1>3. Sound(r)
  BY DEF ProposalsInv, Sound, Unanswered
<1>4. /\ r.status # "none"
      /\ r.status \in NegoStatus
  BY <1>1, <1>2 DEF LoadedRow
<1> HIDE DEF r
<1>5. /\ loaded' \in [Calls -> LoadedRow \cup {NotLoaded, Answered}]
      /\ loaded'[c] = r
      /\ \A d \in Calls \ {c} : loaded'[d] = loaded[d]
  BY <1>1, <1>2
<1>6. LoadedWasStored'
  <2> SUFFICES ASSUME NEW d \in Calls, loaded'[d].status \in NegoStatus
               PROVE  Sound(loaded'[d]) /\ loaded'[d].status # "none" /\ nego'.status # "none"
    BY DEF LoadedWasStored, Sound, Unanswered
  <2>1. CASE d = c
    BY <1>1, <1>3, <1>4, <1>5, <2>1
  <2>2. CASE d # c
    BY <1>1, <1>5, <2>2 DEF ProposalsInv, LoadedWasStored
  <2> QED
    BY <2>1, <2>2
<1>7. Sound(nego') /\ AgreedIsTheirs'
  BY <1>1 DEF ProposalsInv, AgreedIsTheirs
<1>8. TypeOK'
  BY <1>1, <1>5 DEF ProposalsInv, TypeOK
<1> QED
  BY <1>6, <1>7, <1>8 DEF ProposalsInv

\* The pair is closed, a call is refused, or the deal ends: no turn is written.
LEMMA OutsideKeepsInv ==
  ASSUME ProposalsInv,
         \/ CancelNegotiations
         \/ \E price \in Prices : EndDeal(price)
         \/ \E c \in Calls : CallFails(c)
  PROVE  ProposalsInv'
<1>1. CASE CancelNegotiations
  <2>1. /\ nego.status \in NegoStatus /\ nego \in Row
        /\ match' = "expired" /\ onOffer' = FALSE /\ UNCHANGED <<deals, loaded>>
    BY <1>1 DEF CancelNegotiations, ProposalsInv, TypeOK, Row
  <2>2. AgreedIsTheirs'
    BY <2>1 DEF AgreedIsTheirs
  <2>3. CASE nego.status = "active"
    <3>1. /\ nego' = [nego EXCEPT !.status = "cancelled"]
          /\ nego' \in Row
          /\ nego'.status = "cancelled" /\ nego'.turns = nego.turns /\ nego'.rounds = nego.rounds
      BY <1>1, <2>1, <2>3 DEF CancelNegotiations, Row, NegoStatus
    <3>2. Sound(nego')
      BY <2>3, <3>1 DEF ProposalsInv, Sound, Unanswered
    <3> QED
      BY <2>1, <2>2, <3>1, <3>2, LoadedStays DEF ProposalsInv, TypeOK, MatchStatus
  <2>4. CASE nego.status # "active"
    <3>1. nego' = nego
      BY <1>1, <2>4 DEF CancelNegotiations
    <3> QED
      BY <2>1, <2>2, <3>1, LoadedStays DEF ProposalsInv, TypeOK, MatchStatus
  <2> QED
    BY <2>3, <2>4
<1>2. ASSUME NEW price \in Prices, EndDeal(price) PROVE ProposalsInv'
  <2>1. /\ UNCHANGED <<nego, loaded>> /\ onOffer' = TRUE
        /\ match' = IF match = "agreed" THEN "discovered" ELSE match
        /\ deals' \in [Prices -> DealStatus]
    BY <1>2 DEF EndDeal, ProposalsInv, TypeOK, DealStatus
  <2>2. AgreedIsTheirs'
    BY <2>1 DEF AgreedIsTheirs
  <2>3. match' \in MatchStatus
    BY <2>1 DEF ProposalsInv, TypeOK, MatchStatus
  <2> QED
    BY <2>1, <2>2, <2>3, LoadedStays DEF ProposalsInv, TypeOK
<1>3. ASSUME NEW c \in Calls, CallFails(c) PROVE ProposalsInv'
  <2>1. UNCHANGED <<nego, match, onOffer, deals>> /\ Finish(c)
    BY <1>3 DEF CallFails
  <2>2. Sound(nego') /\ AgreedIsTheirs'
    BY <2>1 DEF ProposalsInv, AgreedIsTheirs
  <2> QED
    BY <2>1, <2>2, LoadedStays DEF ProposalsInv, TypeOK
<1> QED
  BY <1>1, <1>2, <1>3

LEMMA ProposalsStep == ProposalsInv /\ [Next]_vars => ProposalsInv'
<1> SUFFICES ASSUME ProposalsInv, [Next]_vars PROVE ProposalsInv'
  OBVIOUS
<1>1. ASSUME NEW by \in Side, NEW price \in Prices, NEW delta \in Deltas,
             StartOrContinue(by, price, delta)
      PROVE  ProposalsInv'
  BY <1>1, NegoIsRow, AddTurnKeepsInv DEF StartOrContinue
<1>2. ASSUME NEW by \in Side, NEW named, AcceptOffer(by, named) PROVE ProposalsInv'
  BY <1>2, NegoIsRow, AgreeKeepsInv DEF AcceptOffer
<1>3. ASSUME NEW by \in Side, RejectOffer(by) PROVE ProposalsInv'
  BY <1>3, RejectKeepsInv
<1>4. ASSUME NEW c \in Calls, Preload(c) PROVE ProposalsInv'
  BY <1>4, PreloadKeepsInv
<1>5. ASSUME NEW c \in Calls, NEW price \in Prices, NEW delta \in Deltas,
             CounterOffer(c, price, delta)
      PROVE  ProposalsInv'
  <2>1. Caller[c] \in Side
    BY CallerAssumption
  <2>2. loaded[c].status \in NegoStatus
    BY <1>5 DEF CounterOffer, InFlight
  <2> QED
    BY <1>5, <2>1, <2>2, LoadedIsRow, AddTurnKeepsInv DEF CounterOffer
<1>6. ASSUME NEW c \in Calls, NEW named, AcceptUnderMandate(c, named) PROVE ProposalsInv'
  <2>1. Caller[c] \in Side
    BY CallerAssumption
  <2>2. loaded[c].status \in NegoStatus
    BY <1>6 DEF AcceptUnderMandate, InFlight
  <2> QED
    BY <1>6, <2>1, <2>2, LoadedIsRow, AgreeKeepsInv DEF AcceptUnderMandate
<1>7. CASE UNCHANGED vars
  <2>1. UNCHANGED <<nego, match, onOffer, deals, loaded>>
    BY <1>7 DEF vars
  <2>2. Sound(nego') /\ AgreedIsTheirs'
    BY <2>1 DEF ProposalsInv, AgreedIsTheirs
  <2> QED
    BY <2>1, <2>2, LoadedStays DEF ProposalsInv, TypeOK
<1> QED
  BY <1>1, <1>2, <1>3, <1>4, <1>5, <1>6, <1>7, OutsideKeepsInv DEF Next

LEMMA ProposalsIsInvariant == Spec => []ProposalsInv
  BY ProposalsInit, ProposalsStep, PTL DEF Spec

-----------------------------------------------------------------------------
(***************************************************************************)
(* The results.                                                            *)
(***************************************************************************)

\* Every column and every loaded row holds what the schema lists, and no
\* negotiation passes the limit of rounds.
THEOREM ProposalsTypeCorrect == Spec => []TypeOK
<1>1. ProposalsInv => TypeOK
  BY DEF ProposalsInv
<1> QED
  BY <1>1, ProposalsIsInvariant, PTL

\* Terms never contradict their shipping method, after any number of deltas.
THEOREM TermsCoherent == Spec => []TermsAreCoherent
<1>1. ProposalsInv => TermsAreCoherent
  BY DEF ProposalsInv, Sound, TermsAreCoherent
<1> QED
  BY <1>1, ProposalsIsInvariant, PTL

\* Whatever calls overlap, an agreement repeats a proposal of the other side.
THEOREM AgreementIsTheirs == Spec => []AgreedIsTheirs
<1>1. ProposalsInv => AgreedIsTheirs
  BY DEF ProposalsInv
<1> QED
  BY <1>1, ProposalsIsInvariant, PTL

\* Nothing is proposed after an answer, and the limit of rounds holds for what
\* the turns say, also when a tool overwrites turns it has not seen.
THEOREM AnswerEndsTheTurns == Spec => []TurnsEndWithTheAnswer
<1>1. ASSUME ProposalsInv PROVE TurnsEndWithTheAnswer
  <2> DEFINE turns == nego.turns
  <2>1. turns \in Seq(Turn) /\ Len(turns) \in Nat /\ MaxRounds \in Nat
    BY <1>1, RoundsAssumption DEF ProposalsInv, TypeOK, Row
  <2>2. OnlyTheLastAnswers(turns) /\ StaysInTheLimit(turns)
    BY <1>1 DEF ProposalsInv, Sound
  <2>3. ProposalsIn(turns) \subseteq 1..MaxRounds
    BY <2>1, <2>2 DEF ProposalsIn, StaysInTheLimit
  <2>4. Cardinality(ProposalsIn(turns)) <= MaxRounds
    <3>1. IsFiniteSet(1..MaxRounds) /\ Cardinality(1..MaxRounds) = MaxRounds
      BY <2>1, FS_Interval
    <3>2. /\ IsFiniteSet(ProposalsIn(turns))
          /\ Cardinality(ProposalsIn(turns)) <= Cardinality(1..MaxRounds)
      BY <2>3, <3>1, FS_Subset
    <3> QED
      BY <3>1, <3>2
  <2> QED
    BY <1>1, <2>2, <2>4
       DEF TurnsEndWithTheAnswer, ProposalsInv, Sound, Unanswered, OnlyTheLastAnswers
<1> QED
  BY <1>1, ProposalsIsInvariant, PTL

=============================================================================
