--------------------------- MODULE Capital_proofs ---------------------------
(***************************************************************************)
(* Proofs about Capital, for every set of mandates and deals, every budget *)
(* and any number of requests and of calls, at whichever offers.           *)
(***************************************************************************)
EXTENDS Capital, FiniteSetTheorems, TLAPS

USE DEF Side, MandateStatus, DraftStatus, DealStatus, Method, Edit

-----------------------------------------------------------------------------
(***************************************************************************)
(* Type correctness.                                                       *)
(***************************************************************************)

LEMMA TypeInit == Init => TypeOK
  BY DEF Init, TypeOK, Call

LEMMA MandateTypeStep == TypeOK /\ MandateNext => TypeOK'
<1> SUFFICES ASSUME TypeOK, NEW m \in Mandates, NEW edit \in Edit,
                    \/ CreateDraft(m) \/ SubmitDraft(m) \/ ActivateMandate(m)
                    \/ MandateLapses(m)
                    \/ ReadMandate(m, edit) \/ WriteMandate(m, edit)
             PROVE  TypeOK'
  BY DEF MandateNext
<1> USE DEF TypeOK, dealVars
<1>1. CASE CreateDraft(m)
  BY <1>1 DEF CreateDraft
<1>2. CASE SubmitDraft(m)
  BY <1>2 DEF SubmitDraft
<1>3. CASE ActivateMandate(m)
  BY <1>3 DEF ActivateMandate
<1>4. CASE MandateLapses(m)
  BY <1>4 DEF MandateLapses, Activated
<1>5. CASE ReadMandate(m, edit)
  BY <1>5 DEF ReadMandate
<1>6. CASE WriteMandate(m, edit)
  <2>1. Edited[edit] \in MandateStatus
    BY DEF Edited
  <2> QED BY <1>6, <2>1 DEF WriteMandate
<1> QED BY <1>1, <1>2, <1>3, <1>4, <1>5, <1>6

\* A call that has begun names a mandate and an offer, whatever its step.
LEMMA CallFields ==
    ASSUME TypeOK, NEW c \in Calls, call[c] # Idle
    PROVE  Under(c) \in Mandates /\ Offer(c) \in Deals /\ AgentSide[Offer(c)] \in Side
  BY CapitalAssumption DEF TypeOK, Call, Under, Offer

LEMMA AdvanceType ==
    ASSUME TypeOK, NEW c \in Calls, call[c] # Idle,
           NEW step \in {"checked", "accepted", "judged"}, Advance(c, step)
    PROVE  /\ call' \in [Calls -> Call]
           /\ call'[c].step = step /\ call'[c].under = Under(c) /\ call'[c].offer = Offer(c)
           /\ \A b \in Calls \ {c} : call'[b] = call[b]
<1>1. call[c] \in [step : {"checked", "accepted", "judged"}, under : Mandates, offer : Deals]
  BY DEF TypeOK, Call
<1>2. call' = [call EXCEPT ![c] = [call[c] EXCEPT !.step = step]]
  BY DEF Advance, TypeOK
<1>3. [call[c] EXCEPT !.step = step] \in Call
  BY <1>1 DEF Call
<1> QED BY <1>1, <1>2, <1>3 DEF TypeOK, Under, Offer

LEMMA ReturnType ==
    ASSUME TypeOK, NEW c \in Calls, Return(c)
    PROVE  /\ call' \in [Calls -> Call]
           /\ call'[c] = Idle
           /\ \A b \in Calls \ {c} : call'[b] = call[b]
  BY DEF TypeOK, Return, Call

\* The step of a call tells whether it has begun.
LEMMA Begun ==
    ASSUME NEW c \in Calls, call[c].step \in {"checked", "accepted", "judged"}
    PROVE  call[c] # Idle
  BY DEF Idle

LEMMA CallTypeStep == TypeOK /\ CallNext => TypeOK'
<1> SUFFICES ASSUME TypeOK, NEW c \in Calls,
                    \/ StartCall(c) \/ AcceptUnderMandate(c)
                    \/ JudgeAuthorization(c) \/ RepeatAuthorization(c)
                    \/ AuthorizeDealSide(c) \/ CallFails(c)
             PROVE  TypeOK'
  BY DEF CallNext
<1> USE DEF TypeOK, mandateVars
<1>1. CASE StartCall(c)
  <2> PICK m \in Mandates, d \in Deals :
         call' = [call EXCEPT ![c] = [step |-> "checked", under |-> m, offer |-> d]]
    BY <1>1 DEF StartCall
  <2> QED BY <1>1 DEF StartCall, Call
<1>2. CASE AcceptUnderMandate(c)
  <2>1. call' \in [Calls -> Call]
    BY <1>2, Begun, AdvanceType DEF AcceptUnderMandate
  <2> QED BY <1>2, <2>1 DEF AcceptUnderMandate
<1>3. CASE JudgeAuthorization(c)
  <2>1. call' \in [Calls -> Call]
    BY <1>3, Begun, AdvanceType DEF JudgeAuthorization, Admitted, LocksPending
  <2> QED BY <1>3, <2>1 DEF JudgeAuthorization
<1>4. CASE RepeatAuthorization(c)
  <2>1. call' \in [Calls -> Call]
    BY <1>4, ReturnType DEF RepeatAuthorization
  <2> QED BY <1>4, <2>1 DEF RepeatAuthorization
<1>5. CASE AuthorizeDealSide(c)
  <2>1. Under(c) \in Mandates /\ Offer(c) \in Deals /\ AgentSide[Offer(c)] \in Side
    BY <1>5, Begun, CallFields DEF AuthorizeDealSide
  <2>2. by' \in [Deals -> [Side -> Method]]
    BY <1>5, <2>1 DEF AuthorizeDealSide
  <2>3. ledger' \subseteq Mandates \X Deals
    BY <1>5, <2>1 DEF AuthorizeDealSide, Entries
  <2>4. deal' \in [Deals -> DealStatus]
    BY <1>5, <2>1 DEF AuthorizeDealSide, ConfirmIfAuthorized
  <2>5. call' \in [Calls -> Call]
    BY <1>5, ReturnType DEF AuthorizeDealSide
  <2> QED BY <1>5, <2>2, <2>3, <2>4, <2>5 DEF AuthorizeDealSide
<1>6. CASE CallFails(c)
  <2>1. call' \in [Calls -> Call]
    BY <1>6, ReturnType DEF CallFails
  <2> QED BY <1>6, <2>1 DEF CallFails, Admitted
<1> QED BY <1>1, <1>2, <1>3, <1>4, <1>5, <1>6

LEMMA DealTypeStep == TypeOK /\ DealNext => TypeOK'
<1> SUFFICES ASSUME TypeOK, NEW d \in Deals, NEW s \in Side,
                    AcceptOffer(d) \/ EndDeal(d) \/ SubmitSignature(d, s)
             PROVE  TypeOK'
  BY DEF DealNext
<1> USE DEF TypeOK, mandateVars
<1>1. CASE AcceptOffer(d)
  BY <1>1 DEF AcceptOffer
<1>2. CASE EndDeal(d)
  BY <1>2 DEF EndDeal
<1>3. CASE SubmitSignature(d, s)
  BY <1>3 DEF SubmitSignature, ConfirmIfAuthorized
<1> QED BY <1>1, <1>2, <1>3

-----------------------------------------------------------------------------
(***************************************************************************)
(* The ledger and the authorizations.                                      *)
(***************************************************************************)

\* While an authorization holds the deal row, what it has checked stays true.
JudgedStaysOpen ==
    \A c \in Calls : call[c].step = "judged" =>
        /\ deal[Offer(c)] = "pending_signatures"
        /\ by[Offer(c)][AgentSide[Offer(c)]] = "none"

\* Of the calls at one offer, one at a time holds the deal row.
JudgedAlone ==
    \A b, c \in Calls :
        call[b].step = "judged" /\ call[c].step = "judged" /\ Offer(b) = Offer(c) => b = c

CapitalInv == TypeOK /\ JudgedStaysOpen /\ JudgedAlone /\ ChargedOnce

\* Every step either leaves all authorizations and entries alone, or is one
\* of the two that authorize a side of one deal.
LEMMA OnlyTwoAuthorize ==
    ASSUME CapitalInv, [Next]_vars
    PROVE  \/ UNCHANGED << by, ledger >>
           \/ \E c \in Calls : AuthorizeDealSide(c)
           \/ \E d \in Deals, s \in Side : SubmitSignature(d, s)
<1>1. CASE MandateNext
  BY <1>1 DEF MandateNext, CreateDraft, SubmitDraft, ActivateMandate,
              MandateLapses, ReadMandate, WriteMandate, dealVars
<1>2. CASE CallNext
  BY <1>2 DEF CallNext, StartCall, AcceptUnderMandate, JudgeAuthorization,
              RepeatAuthorization, CallFails
<1>3. CASE DealNext
  BY <1>3 DEF DealNext, AcceptOffer, EndDeal
<1>4. CASE UNCHANGED vars
  BY <1>4 DEF vars
<1> QED BY <1>1, <1>2, <1>3, <1>4 DEF Next

\* What the two change.
LEMMA AuthorizeEffect ==
    ASSUME CapitalInv, NEW c \in Calls, AuthorizeDealSide(c)
    PROVE  /\ Offer(c) \in Deals /\ Under(c) \in Mandates
           /\ AgentSide[Offer(c)] \in Side
           /\ deal[Offer(c)] = "pending_signatures"
           /\ by[Offer(c)][AgentSide[Offer(c)]] = "none"
           /\ \A e \in Deals, s \in Side :
                 by'[e][s] = IF e = Offer(c) /\ s = AgentSide[e] THEN Under(c)
                             ELSE by[e][s]
           /\ ledger' = ledger \cup Entries(c)
           /\ call'[c] = Idle
           /\ \A b \in Calls \ {c} : call'[b] = call[b]
           /\ \A e \in Deals \ {Offer(c)} : deal'[e] = deal[e] /\ by'[e] = by[e]
<1>1. Under(c) \in Mandates /\ Offer(c) \in Deals /\ AgentSide[Offer(c)] \in Side
  BY Begun, CallFields DEF AuthorizeDealSide, CapitalInv
<1>2. call'[c] = Idle /\ \A b \in Calls \ {c} : call'[b] = call[b]
  BY ReturnType DEF AuthorizeDealSide, CapitalInv
<1>3. \A e \in Deals \ {Offer(c)} : deal'[e] = deal[e] /\ by'[e] = by[e]
  BY <1>1 DEF AuthorizeDealSide, ConfirmIfAuthorized, CapitalInv, TypeOK
<1>4. \A e \in Deals, s \in Side :
         by'[e][s] = IF e = Offer(c) /\ s = AgentSide[e] THEN Under(c) ELSE by[e][s]
  BY <1>1 DEF AuthorizeDealSide, CapitalInv, TypeOK
<1> QED BY <1>1, <1>2, <1>3, <1>4 DEF AuthorizeDealSide, CapitalInv, JudgedStaysOpen

LEMMA SignatureEffect ==
    ASSUME CapitalInv, NEW d \in Deals, NEW s \in Side, SubmitSignature(d, s)
    PROVE  /\ deal[d] = "pending_signatures"
           /\ Unlocked(d)
           /\ by[d][s] = "none"
           /\ \A e \in Deals, q \in Side :
                 by'[e][q] = IF e = d /\ q = s THEN "passkey" ELSE by[e][q]
           /\ UNCHANGED << ledger, call >>
  BY DEF SubmitSignature, SideAuthorized, CapitalInv, TypeOK

LEMMA ChargedOnceStep ==
    ASSUME CapitalInv, [Next]_vars
    PROVE  ChargedOnce'
<1>1. CASE UNCHANGED << by, ledger >>
  BY <1>1 DEF CapitalInv, ChargedOnce
<1>2. ASSUME NEW c \in Calls, AuthorizeDealSide(c)
      PROVE  ChargedOnce'
  <2>1. CASE AgentSide[Offer(c)] = "buyer"
    <3> SUFFICES ASSUME NEW e \in Deals, NEW m \in Mandates
                 PROVE  by'[e]["buyer"] = m <=> << m, e >> \in ledger'
      BY DEF ChargedOnce
    <3>1. << m, e >> \in ledger' <=> << m, e >> \in ledger \/ (e = Offer(c) /\ m = Under(c))
      BY <1>2, <2>1, AuthorizeEffect DEF Entries
    <3>2. by'[e]["buyer"] = m <=> by[e]["buyer"] = m \/ (e = Offer(c) /\ m = Under(c))
      <4>1. m # "none"
        BY CapitalAssumption
      <4> QED BY <1>2, <2>1, <4>1, AuthorizeEffect
    <3>3. by[e]["buyer"] = m <=> << m, e >> \in ledger
      BY DEF CapitalInv, ChargedOnce
    <3> QED BY <3>1, <3>2, <3>3
  <2>2. CASE AgentSide[Offer(c)] # "buyer"
    <3>1. ledger' = ledger
      BY <1>2, <2>2, AuthorizeEffect DEF Entries
    <3>2. \A e \in Deals : by'[e]["buyer"] = by[e]["buyer"]
      BY <1>2, <2>2, AuthorizeEffect
    <3> QED BY <3>1, <3>2 DEF CapitalInv, ChargedOnce
  <2> QED BY <2>1, <2>2
<1>3. ASSUME NEW d \in Deals, NEW s \in Side, SubmitSignature(d, s)
      PROVE  ChargedOnce'
  <2>1. \A e \in Deals, m \in Mandates : by'[e]["buyer"] = m <=> by[e]["buyer"] = m
    BY <1>3, SignatureEffect, CapitalAssumption
  <2>2. ledger' = ledger
    BY <1>3, SignatureEffect
  <2> QED BY <2>1, <2>2 DEF CapitalInv, ChargedOnce
<1> QED BY <1>1, <1>2, <1>3, OnlyTwoAuthorize

\* What a call does before and after its authorization: it judges, alone on its
\* deal, or no call is judged that was not.
LEMMA QuietCall ==
    ASSUME CapitalInv, NEW c \in Calls,
           \/ StartCall(c) \/ AcceptUnderMandate(c)
           \/ RepeatAuthorization(c) \/ CallFails(c)
    PROVE  /\ UNCHANGED << by, ledger >>
           /\ \A e \in Deals : deal'[e] = deal[e] \/ deal[e] = "none"
           /\ call'[c].step # "judged"
           /\ \A b \in Calls \ {c} : call'[b] = call[b]
<1> USE DEF CapitalInv, TypeOK, Idle
<1>1. CASE StartCall(c)
  BY <1>1 DEF StartCall
<1>2. CASE AcceptUnderMandate(c)
  <2>1. call'[c].step = "accepted" /\ \A b \in Calls \ {c} : call'[b] = call[b]
    BY <1>2, Begun, AdvanceType DEF AcceptUnderMandate
  <2> QED BY <1>2, <2>1 DEF AcceptUnderMandate
<1>3. CASE RepeatAuthorization(c)
  BY <1>3, ReturnType DEF RepeatAuthorization
<1>4. CASE CallFails(c)
  BY <1>4, ReturnType DEF CallFails
<1> QED BY <1>1, <1>2, <1>3, <1>4

LEMMA JudgeEffect ==
    ASSUME CapitalInv, NEW c \in Calls, JudgeAuthorization(c)
    PROVE  /\ UNCHANGED << deal, by, ledger >>
           /\ Under(c) \in Mandates /\ Offer(c) \in Deals
           /\ call[c].step = "accepted"
           /\ deal[Offer(c)] = "pending_signatures"
           /\ by[Offer(c)][AgentSide[Offer(c)]] = "none"
           /\ Unlocked(Offer(c))
           /\ call'[c].step = "judged"
           /\ call'[c].under = Under(c) /\ call'[c].offer = Offer(c)
           /\ \A b \in Calls \ {c} : call'[b] = call[b]
<1>1. call[c].step = "accepted" /\ call[c] # Idle
  BY Begun DEF JudgeAuthorization, Admitted, LocksPending
<1>2. /\ call'[c].step = "judged" /\ call'[c].under = Under(c) /\ call'[c].offer = Offer(c)
      /\ \A b \in Calls \ {c} : call'[b] = call[b]
  BY <1>1, AdvanceType DEF JudgeAuthorization, CapitalInv
<1> QED BY <1>1, <1>2, CallFields
        DEF JudgeAuthorization, Admitted, LocksPending, SideOpen, SideAuthorized, CapitalInv

\* Only a call that holds its deal row can be judged, and the row's holder is
\* the only one to change the deal.
LEMMA JudgedStep ==
    ASSUME CapitalInv, [Next]_vars
    PROVE  JudgedStaysOpen' /\ JudgedAlone'
<1> USE DEF CapitalInv, JudgedStaysOpen, JudgedAlone
<1>1. CASE UNCHANGED << deal, by, call >>
  BY <1>1 DEF Offer
<1>2. ASSUME NEW c \in Calls,
             \/ StartCall(c) \/ AcceptUnderMandate(c)
             \/ RepeatAuthorization(c) \/ CallFails(c)
      PROVE  JudgedStaysOpen' /\ JudgedAlone'
  <2> USE QuietCall, <1>2
  <2>1. \A b \in Calls : call'[b].step = "judged" => b # c /\ call'[b] = call[b]
    OBVIOUS
  <2>2. \A b \in Calls : call[b].step = "judged" => Offer(b) \in Deals
    BY Begun, CallFields
  <2> QED BY <2>1, <2>2 DEF Offer
<1>3. ASSUME NEW c \in Calls, JudgeAuthorization(c)
      PROVE  JudgedStaysOpen' /\ JudgedAlone'
  <2> USE JudgeEffect, <1>3
  <2>1. \A b \in Calls \ {c} : call'[b].step = "judged" => call'[b].offer # Offer(c)
    BY DEF Unlocked, Offer
  <2> QED BY <2>1 DEF Offer
<1>4. ASSUME NEW c \in Calls, AuthorizeDealSide(c)
      PROVE  JudgedStaysOpen' /\ JudgedAlone'
  <2> USE AuthorizeEffect, <1>4
  <2>1. \A b \in Calls : call'[b].step = "judged" =>
           /\ b # c /\ call'[b] = call[b] /\ Offer(b) \in Deals
    BY Begun, CallFields DEF Idle
  <2>2. \A b \in Calls : call'[b].step = "judged" => Offer(b) # Offer(c)
    BY <2>1 DEF AuthorizeDealSide
  <2> QED BY <2>1, <2>2 DEF Offer
<1>5. ASSUME NEW d \in Deals, NEW s \in Side,
             AcceptOffer(d) \/ EndDeal(d) \/ SubmitSignature(d, s)
      PROVE  JudgedStaysOpen' /\ JudgedAlone'
  <2>1. call' = call
    BY <1>5 DEF AcceptOffer, EndDeal, SubmitSignature
  <2>2. \A e \in Deals \ {d} : deal'[e] = deal[e] /\ by'[e] = by[e]
    BY <1>5 DEF AcceptOffer, EndDeal, SubmitSignature, ConfirmIfAuthorized, TypeOK
  <2>3. \A b \in Calls : call[b].step = "judged" => Offer(b) # d /\ Offer(b) \in Deals
    BY <1>5, Begun, CallFields DEF AcceptOffer, EndDeal, SubmitSignature, Unlocked
  <2> QED BY <2>1, <2>2, <2>3 DEF Offer
<1>6. CASE MandateNext
  BY <1>1, <1>6 DEF MandateNext, CreateDraft, SubmitDraft, ActivateMandate,
                    MandateLapses, ReadMandate, WriteMandate, dealVars
<1> QED BY <1>1, <1>2, <1>3, <1>4, <1>5, <1>6 DEF Next, CallNext, DealNext, vars

\* The strengthened invariant holds in every reachable state.
THEOREM CapitalInductive == Spec => []CapitalInv
<1>1. Init => CapitalInv
  <2> SUFFICES ASSUME Init PROVE CapitalInv
    OBVIOUS
  <2>1. \A c \in Calls : call[c].step = "idle"
    BY DEF Init, Idle
  <2>2. ChargedOnce
    BY CapitalAssumption DEF Init, ChargedOnce
  <2> QED BY <2>1, <2>2, TypeInit DEF CapitalInv, JudgedStaysOpen, JudgedAlone
<1>2. CapitalInv /\ [Next]_vars => CapitalInv'
  <2> SUFFICES ASSUME CapitalInv, [Next]_vars PROVE CapitalInv'
    OBVIOUS
  <2>1. TypeOK'
    <3>1. CASE UNCHANGED vars
      BY <3>1 DEF vars, CapitalInv, TypeOK
    <3> QED BY <3>1, MandateTypeStep, CallTypeStep, DealTypeStep DEF Next, CapitalInv
  <2> QED BY <2>1, JudgedStep, ChargedOnceStep DEF CapitalInv
<1> QED BY <1>1, <1>2, PTL DEF Spec

-----------------------------------------------------------------------------
(***************************************************************************)
(* Sums.  The fold of the model is the number of counters on a pile, so    *)
(* that what holds of cardinalities holds of sums.                         *)
(***************************************************************************)

\* A pile of f[x] counters for each x of S: what a sum counts.
Pile(f, S) == {p \in S \X Nat : 1 <= p[2] /\ p[2] <= f[p[1]]}

\* A pile is finite, and has f[x] counters when it is the pile of x alone.
LEMMA PileOfOne ==
    ASSUME NEW f, NEW x, f[x] \in Nat
    PROVE  IsFiniteSet(Pile(f, {x})) /\ Cardinality(Pile(f, {x})) = f[x]
<1> DEFINE one == {x}
           counts == 1..f[x]
<1>1. Pile(f, {x}) = one \X counts
  <2>1. \A n \in Nat : 1 <= n /\ n <= f[x] <=> n \in counts
    OBVIOUS
  <2>2. \A n \in counts : n \in Nat
    OBVIOUS
  <2> HIDE DEF counts
  <2> QED BY <2>1, <2>2 DEF Pile
<1>2. IsFiniteSet(one) /\ Cardinality(one) = 1
  BY FS_Singleton
<1>3. IsFiniteSet(counts) /\ Cardinality(counts) = f[x]
  BY FS_Interval
<1> HIDE DEF one, counts
<1>4. IsFiniteSet(one \X counts) /\ Cardinality(one \X counts) = 1 * f[x]
  BY <1>2, <1>3, FS_Product
<1>5. 1 * f[x] = f[x]
  OBVIOUS
<1> QED BY <1>1, <1>4, <1>5, Zenon

LEMMA PileIsFinite ==
    ASSUME NEW f, NEW S, IsFiniteSet(S), \A x \in S : f[x] \in Nat
    PROVE  IsFiniteSet(Pile(f, S)) /\ Cardinality(Pile(f, S)) \in Nat
<1> DEFINE Piles == {Pile(f, {x}) : x \in S}
           pile == [x \in S |-> Pile(f, {x})]
<1>1. pile \in Surjection(S, Piles)
  BY DEF Surjection
<1>2. IsFiniteSet(Piles)
  BY <1>1, FS_Surjection
<1>3. \A T \in Piles : IsFiniteSet(T)
  BY PileOfOne
<1>4. IsFiniteSet(UNION Piles)
  BY <1>2, <1>3, FS_UNION
<1>5. Pile(f, S) = UNION Piles
  BY DEF Pile
<1> QED BY <1>4, <1>5, FS_CardinalityType

\* The piles of two disjoint sets count separately.
LEMMA PilesAdd ==
    ASSUME NEW f, NEW S, NEW T, IsFiniteSet(S), IsFiniteSet(T), S \cap T = {},
           \A x \in S \cup T : f[x] \in Nat
    PROVE  Cardinality(Pile(f, S \cup T)) = Cardinality(Pile(f, S)) + Cardinality(Pile(f, T))
<1>1. Pile(f, S \cup T) = Pile(f, S) \cup Pile(f, T)
  BY DEF Pile
<1>2. Pile(f, S) \cap Pile(f, T) = {}
  BY DEF Pile
<1>3. /\ IsFiniteSet(Pile(f, S)) /\ Cardinality(Pile(f, S)) \in Nat
      /\ IsFiniteSet(Pile(f, T)) /\ Cardinality(Pile(f, T)) \in Nat
  BY PileIsFinite
<1>4. Cardinality({}) = 0
  BY FS_EmptySet
<1> DEFINE left == Pile(f, S)
           right == Pile(f, T)
<1>5. /\ IsFiniteSet(left) /\ Cardinality(left) \in Nat
      /\ IsFiniteSet(right) /\ Cardinality(right) \in Nat
      /\ left \cap right = {}
  BY <1>2, <1>3, Zenon
<1>6. Cardinality(left \cup right) = Cardinality(left) + Cardinality(right)
  <2> HIDE DEF left, right
  <2>1. Cardinality(left \cap right) = 0
    BY <1>4, <1>5, Zenon
  <2>2. Cardinality(left \cup right)
           = Cardinality(left) + Cardinality(right) - Cardinality(left \cap right)
    BY <1>5, FS_Union
  <2> QED BY <1>5, <2>1, <2>2
<1> QED BY <1>1, <1>6, Zenon

\* The function a fold over S computes, and the sum it returns.
AddsUp(g, f, S) ==
    g = [s \in SUBSET S |->
            IF s = {} THEN 0
            ELSE f[CHOOSE x \in s : TRUE] + g[s \ {CHOOSE x \in s : TRUE}]]

LEMMA PilesFold ==
    ASSUME NEW f, NEW S, IsFiniteSet(S), \A x \in S : f[x] \in Nat
    PROVE  AddsUp([s \in SUBSET S |-> Cardinality(Pile(f, s))], f, S)
<1> DEFINE g == [s \in SUBSET S |-> Cardinality(Pile(f, s))]
<1> SUFFICES ASSUME NEW s \in SUBSET S
             PROVE  Cardinality(Pile(f, s)) =
                       IF s = {} THEN 0
                       ELSE f[CHOOSE x \in s : TRUE] + g[s \ {CHOOSE x \in s : TRUE}]
  BY DEF AddsUp
<1>1. CASE s = {}
  BY <1>1, FS_EmptySet DEF Pile
<1>2. CASE s # {}
  <2> DEFINE x == CHOOSE x \in s : TRUE
  <2>1. x \in s
    BY <1>2
  <2> HIDE DEF x
  <2>2. s = {x} \cup (s \ {x}) /\ {x} \cap (s \ {x}) = {}
    BY <2>1
  <2>3. IsFiniteSet({x}) /\ IsFiniteSet(s \ {x})
    BY FS_Subset, FS_Singleton
  <2>4. Cardinality(Pile(f, {x} \cup (s \ {x})))
           = Cardinality(Pile(f, {x})) + Cardinality(Pile(f, s \ {x}))
    BY <2>1, <2>2, <2>3, PilesAdd
  <2>5. Cardinality(Pile(f, {x})) = f[x]
    BY <2>1, PileOfOne
  <2>6. g[s \ {x}] = Cardinality(Pile(f, s \ {x}))
    OBVIOUS
  <2>7. Cardinality(Pile(f, s)) = f[x] + g[s \ {x}]
    BY <2>2, <2>4, <2>5, <2>6
  <2> QED BY <1>2, <2>7 DEF x
<1> QED BY <1>1, <1>2

\* The recursion of a fold has one solution.
LEMMA FoldIsUnique ==
    ASSUME NEW f, NEW S, IsFiniteSet(S), NEW g, NEW h, AddsUp(g, f, S), AddsUp(h, f, S)
    PROVE  g = h
<1> DEFINE Apart == {s \in SUBSET S : g[s] # h[s]}
<1>1. SUFFICES Apart = {}
  BY <1>1 DEF AddsUp
<1>2. SUFFICES ASSUME Apart # {} PROVE FALSE
  BY <1>2
<1>3. IsWellFoundedOn(StrictSubsetOrdering(S), SUBSET S)
  BY FS_StrictSubsetOrderingWellFounded, FS_FiniteSubsetsOfFinite
<1>4. PICK s \in Apart : \A r \in Apart : << r, s >> \notin StrictSubsetOrdering(S)
  <2> HIDE DEF Apart
  <2>1. Apart \subseteq SUBSET S
    BY DEF Apart
  <2> QED BY <1>2, <1>3, <2>1, WFMin
<1>5. s # {}
  BY DEF AddsUp
<1> DEFINE x == CHOOSE x \in s : TRUE
<1>6. x \in s
  BY <1>5
<1>7. g[s] = f[x] + g[s \ {x}] /\ h[s] = f[x] + h[s \ {x}]
  BY <1>5 DEF AddsUp
<1> HIDE DEF x
<1>8. s \ {x} \in SUBSET S /\ << s \ {x}, s >> \in StrictSubsetOrdering(S)
  BY <1>6 DEF StrictSubsetOrdering
<1>9. s \ {x} \notin Apart
  BY <1>4, <1>8
<1> QED BY <1>7, <1>8, <1>9

\* What a fold over S returns when it adds up f.
FoldOf(f, S) ==
    LET g == CHOOSE g : AddsUp(g, f, S) IN g[S]

LEMMA FoldCountsPile ==
    ASSUME NEW f, NEW S, IsFiniteSet(S), \A x \in S : f[x] \in Nat
    PROVE  FoldOf(f, S) = Cardinality(Pile(f, S))
<1> DEFINE h == [s \in SUBSET S |-> Cardinality(Pile(f, s))]
           g == CHOOSE k : AddsUp(k, f, S)
<1>1. AddsUp(h, f, S)
  BY PilesFold
<1>2. AddsUp(g, f, S)
  <2> HIDE DEF h
  <2> QED BY <1>1
<1>3. g = h
  <2> HIDE DEF g, h
  <2> QED BY <1>1, <1>2, FoldIsUnique
<1>4. h[S] = Cardinality(Pile(f, S))
  OBVIOUS
<1>5. FoldOf(f, S) = g[S]
  BY DEF FoldOf
<1> QED BY <1>3, <1>4, <1>5

\* A part of a pile is not larger than the pile.
LEMMA PilesGrow ==
    ASSUME NEW f, NEW T, IsFiniteSet(T), \A x \in T : f[x] \in Nat, NEW S \in SUBSET T
    PROVE  Cardinality(Pile(f, S)) <= Cardinality(Pile(f, T))
<1>1. Pile(f, S) \in SUBSET Pile(f, T)
  BY DEF Pile
<1> QED BY <1>1, PileIsFinite, FS_Subset

LEMMA PilesAreBounded ==
    ASSUME NEW f, NEW S, IsFiniteSet(S), NEW b \in Nat,
           \A x \in S : f[x] \in Nat /\ f[x] <= b
    PROVE  Cardinality(Pile(f, S)) <= Cardinality(S) * b
<1> DEFINE counts == 1..b
<1>1. Pile(f, S) \in SUBSET (S \X counts)
  BY DEF Pile
<1>2. IsFiniteSet(counts) /\ Cardinality(counts) = b
  BY FS_Interval
<1> HIDE DEF counts
<1>3. IsFiniteSet(S \X counts) /\ Cardinality(S \X counts) = Cardinality(S) * Cardinality(counts)
  BY <1>2, FS_Product
<1>4. Cardinality(Pile(f, S)) <= Cardinality(S \X counts)
  BY <1>1, <1>3, FS_Subset
<1> QED BY <1>2, <1>3, <1>4

-----------------------------------------------------------------------------
(***************************************************************************)
(* How far a mandate can be overrun.                                       *)
(***************************************************************************)

\* What a set of deals costs.
Worth(S) == Cardinality(Pile(Price, S))

\* The calls that have found a purchase to fit the mandate and not yet charged
\* it, and their purchases.
Judging(m) == {c \in Calls : /\ call[c].step = "judged" /\ Under(c) = m
                             /\ AgentSide[Offer(c)] = "buyer"}

Judged(m) == {Offer(c) : c \in Judging(m)}

Exposed(m) == Charged(m) \cup Judged(m)

Limit == Budget + (Cardinality(Calls) - 1) * MaxSingle

JudgedFitsOnce == \A c \in Calls :
    call[c].step = "judged" /\ AgentSide[Offer(c)] = "buyer" => Price[Offer(c)] <= MaxSingle

ExposedIsBounded ==
    \A m \in Mandates :
        /\ IsFiniteSet(Charged(m))
        /\ Worth(Exposed(m)) <= Limit

ExposureInv == JudgedFitsOnce /\ ExposedIsBounded

\* At least one call can be in flight, so that the limit covers the budget.
LEMMA LimitIsNat == Cardinality(Calls) \in Nat \ {0} /\ Limit \in Nat
<1>1. Cardinality(Calls) \in Nat
  BY FS_CardinalityType, CapitalAssumption
<1>2. Cardinality(Calls) # 0
  BY FS_EmptySet, CapitalAssumption
<1>3. Cardinality(Calls) - 1 \in Nat
  BY <1>1, <1>2
<1>4. (Cardinality(Calls) - 1) * MaxSingle \in Nat
  BY <1>3, CapitalAssumption
<1> QED BY <1>1, <1>2, <1>4, CapitalAssumption DEF Limit

LEMMA PriceIsNat == \A d \in Deals : Price[d] \in Nat
  BY CapitalAssumption

LEMMA ReservedIsWorth ==
    ASSUME NEW m, IsFiniteSet(Charged(m))
    PROVE  Reserved(m) = Worth(Charged(m)) /\ Reserved(m) \in Nat
<1>1. Reserved(m) = FoldOf(Price, Charged(m))
  BY DEF Reserved, MapThenSumSet, MapThenFoldSet, FoldOf, AddsUp
<1>2. \A d \in Charged(m) : Price[d] \in Nat
  BY PriceIsNat DEF Charged
<1>3. FoldOf(Price, Charged(m)) = Cardinality(Pile(Price, Charged(m)))
  BY <1>2, FoldCountsPile
<1>4. Cardinality(Pile(Price, Charged(m))) \in Nat
  BY <1>2, PileIsFinite
<1> QED BY <1>1, <1>3, <1>4, Zenon DEF Worth

\* No more purchases are judged than calls are judging, and they are deals.
LEMMA JudgedIsFinite ==
    ASSUME CapitalInv, NEW m, NEW S \in SUBSET Calls, Judging(m) \subseteq S
    PROVE  /\ IsFiniteSet(Judged(m)) /\ Judged(m) \subseteq Deals
           /\ Cardinality(Judged(m)) \in Nat
           /\ Cardinality(Judged(m)) <= Cardinality(S)
<1> DEFINE offer == [c \in Judging(m) |-> Offer(c)]
<1>1. offer \in Surjection(Judging(m), Judged(m))
  BY DEF Surjection, Judged
<1>2. IsFiniteSet(S) /\ IsFiniteSet(Judging(m)) /\ Cardinality(Judging(m)) <= Cardinality(S)
  BY FS_Subset, CapitalAssumption
<1>3. IsFiniteSet(Judged(m)) /\ Cardinality(Judged(m)) <= Cardinality(Judging(m))
  BY <1>1, <1>2, FS_Surjection
<1>4. /\ Cardinality(S) \in Nat /\ Cardinality(Judging(m)) \in Nat
      /\ Cardinality(Judged(m)) \in Nat
  BY <1>2, <1>3, FS_CardinalityType
<1>5. Judged(m) \subseteq Deals
  BY Begun, CallFields DEF Judged, Judging, CapitalInv
<1> QED BY <1>2, <1>3, <1>4, <1>5

\* What is exposed is a finite set of deals.
LEMMA ExposedIsFinite ==
    ASSUME CapitalInv, ExposureInv, NEW m \in Mandates
    PROVE  IsFiniteSet(Judged(m)) /\ IsFiniteSet(Exposed(m)) /\ Exposed(m) \subseteq Deals
<1>1. IsFiniteSet(Judged(m)) /\ Judged(m) \subseteq Deals
  BY JudgedIsFinite DEF Judging
<1>2. IsFiniteSet(Charged(m)) /\ Charged(m) \subseteq Deals
  BY DEF ExposureInv, ExposedIsBounded, Charged
<1> QED BY <1>1, <1>2, FS_Union DEF Exposed

LEMMA WorthGrows ==
    ASSUME NEW T, IsFiniteSet(T), T \subseteq Deals, NEW S \in SUBSET T
    PROVE  Worth(S) <= Worth(T)
  BY PilesGrow, PriceIsNat DEF Worth

LEMMA WorthIsNat ==
    ASSUME NEW S, IsFiniteSet(S), S \subseteq Deals
    PROVE  Worth(S) \in Nat
  BY PileIsFinite, PriceIsNat DEF Worth

LEMMA WorthAdds ==
    ASSUME NEW S, NEW T, IsFiniteSet(S), IsFiniteSet(T), S \cap T = {}, S \cup T \subseteq Deals
    PROVE  Worth(S \cup T) = Worth(S) + Worth(T)
  BY PilesAdd, PriceIsNat DEF Worth

LEMMA WorthOfOne ==
    ASSUME NEW d \in Deals
    PROVE  Worth({d}) = Price[d]
  BY PileOfOne, PriceIsNat DEF Worth

\* A step after which no mandate is exposed to a further deal.
LEMMA NothingMoreExposed ==
    ASSUME CapitalInv, ExposureInv,
           \A m \in Mandates : /\ Exposed(m)' \subseteq Exposed(m)
                               /\ Charged(m)' \subseteq Exposed(m)
    PROVE  ExposedIsBounded'
<1> SUFFICES ASSUME NEW m \in Mandates
             PROVE  /\ IsFiniteSet(Charged(m)')
                    /\ Cardinality(Pile(Price, Exposed(m)')) <= Limit
  BY DEF ExposedIsBounded, Worth, Limit
<1>1. IsFiniteSet(Exposed(m)) /\ Exposed(m) \subseteq Deals
  BY ExposedIsFinite
<1>2. IsFiniteSet(Charged(m)')
  BY <1>1, FS_Subset
<1> DEFINE after == Exposed(m)'
<1>3. after \in SUBSET Exposed(m)
  OBVIOUS
<1> HIDE DEF after
<1>4. Worth(after) <= Worth(Exposed(m)) /\ Worth(after) \in Nat /\ Worth(Exposed(m)) \in Nat
  BY <1>1, <1>3, WorthGrows, WorthIsNat, FS_Subset
<1>5. Worth(Exposed(m)) <= Limit
  BY DEF ExposureInv, ExposedIsBounded
<1>6. Worth(after) <= Limit
  BY <1>4, <1>5, LimitIsNat
<1> QED BY <1>2, <1>6 DEF Worth, after

\* What the steps do to the calls and to what is exposed, except the one that
\* finds a purchase to fit.
LEMMA QuietStep ==
    ASSUME CapitalInv, ExposureInv, UNCHANGED << call, ledger >>
    PROVE  ExposureInv'
<1>1. \A m : Charged(m)' = Charged(m) /\ Judged(m)' = Judged(m)
  BY DEF Charged, Judged, Judging, Under, Offer
<1>2. JudgedFitsOnce'
  BY DEF ExposureInv, JudgedFitsOnce, Offer
<1>3. ExposedIsBounded'
  BY <1>1, NothingMoreExposed DEF Exposed
<1> QED BY <1>2, <1>3 DEF ExposureInv

\* A call that begins, goes on to its accept, or ends, charged or not.
LEMMA EndingKeepsExposure ==
    ASSUME CapitalInv, ExposureInv, NEW c \in Calls,
           \/ StartCall(c) \/ AcceptUnderMandate(c)
           \/ RepeatAuthorization(c) \/ CallFails(c)
           \/ AuthorizeDealSide(c)
    PROVE  ExposureInv'
<1>1. \A b \in Calls : call'[b].step = "judged" => b # c /\ call'[b] = call[b]
  BY QuietCall, AuthorizeEffect DEF Idle
<1>2. JudgedFitsOnce'
  BY <1>1 DEF ExposureInv, JudgedFitsOnce, Offer
<1>3. \A m : Judged(m)' \subseteq Judged(m)
  BY <1>1 DEF Judged, Judging, Under, Offer
<1>4. \A m : Charged(m)' \subseteq Exposed(m)
  <2>1. CASE AuthorizeDealSide(c)
    <3> SUFFICES ASSUME NEW m, NEW d \in Charged(m)', d \notin Charged(m)
                 PROVE  d \in Judged(m)
      BY DEF Exposed
    <3>1. d = Offer(c) /\ m = Under(c) /\ AgentSide[Offer(c)] = "buyer"
      BY <2>1, AuthorizeEffect DEF Charged, Entries
    <3> QED BY <2>1, <3>1 DEF AuthorizeDealSide, Judged, Judging
  <2>2. CASE UNCHANGED << by, ledger >>
    BY <2>2 DEF Charged, Exposed
  <2> QED BY <2>1, <2>2, QuietCall
<1>5. ExposedIsBounded'
  <2>1. \A m : Exposed(m)' \subseteq Exposed(m)
    BY <1>3, <1>4 DEF Exposed
  <2> QED BY <1>4, <2>1, NothingMoreExposed
<1> QED BY <1>2, <1>5 DEF ExposureInv

\* The purchase fits with what is charged; each of the others that fitted
\* before it and are not charged yet is of a further call in flight.
LEMMA JudgeFits ==
    ASSUME CapitalInv, ExposureInv, NEW c \in Calls, JudgeAuthorization(c),
           AgentSide[Offer(c)] = "buyer"
    PROVE  Worth(Exposed(Under(c)) \cup {Offer(c)}) <= Limit
<1> DEFINE m == Under(c)
           d == Offer(c)
<1>1. m \in Mandates /\ d \in Deals /\ by[d]["buyer"] = "none" /\ c \notin Judging(m)
  BY JudgeEffect DEF Judging
<1>2. Price[d] <= MaxSingle /\ Reserved(m) + Price[d] <= Budget
  BY DEF JudgeAuthorization, Authorizable, WithinLimits, FitsBudget
<1>3. d \notin Charged(m) /\ d \notin Judged(m)
  <2>1. d \notin Charged(m)
    BY <1>1, CapitalAssumption DEF Charged, CapitalInv, ChargedOnce
  <2>2. d \notin Judged(m)
    BY JudgeEffect DEF Judged, Judging, Unlocked
  <2> QED BY <2>1, <2>2
<1> DEFINE others == Judged(m)
           charged == Charged(m)
<1>4. Cardinality(Calls \ {c}) = Cardinality(Calls) - 1
  BY FS_RemoveElement, CapitalAssumption
<1>5. /\ IsFiniteSet(others) /\ others \subseteq Deals
      /\ Cardinality(others) \in Nat /\ Cardinality(others) <= Cardinality(Calls) - 1
  <2>1. Judging(m) \subseteq Calls \ {c}
    BY <1>1 DEF Judging
  <2> HIDE DEF m
  <2> QED BY <1>4, <2>1, JudgedIsFinite
<1>6. /\ IsFiniteSet(charged) /\ charged \subseteq Deals /\ IsFiniteSet({d})
  BY <1>1, FS_Singleton DEF ExposureInv, ExposedIsBounded, Charged
<1>7. charged \cap others = {}
  <2> SUFFICES ASSUME NEW b \in Judging(m), << m, Offer(b) >> \in ledger PROVE FALSE
    BY DEF Charged, Judged
  <2>1. /\ call[b].step = "judged" /\ AgentSide[Offer(b)] = "buyer"
        /\ Offer(b) \in Deals /\ b \in Calls
    BY Begun, CallFields DEF Judging, CapitalInv
  <2>2. by[Offer(b)]["buyer"] = m
    BY <1>1, <2>1 DEF CapitalInv, ChargedOnce
  <2> QED BY <1>1, <2>1, <2>2, CapitalAssumption DEF CapitalInv, JudgedStaysOpen
<1>8. Reserved(m) = Worth(charged) /\ Reserved(m) \in Nat
  BY <1>6, ReservedIsWorth
<1>9. Worth(others) <= Cardinality(others) * MaxSingle
  <2>1. \A e \in others : Price[e] \in Nat /\ Price[e] <= MaxSingle
    BY <1>5, PriceIsNat DEF Judged, Judging, ExposureInv, JudgedFitsOnce
  <2> HIDE DEF others
  <2> QED BY <1>5, <2>1, PilesAreBounded, CapitalAssumption DEF Worth
<1>10. Worth(Exposed(m) \cup {d}) = Worth(charged) + Worth(others) + Price[d]
  <2>1. Exposed(m) \cup {d} = (charged \cup others) \cup {d}
    BY DEF Exposed
  <2>2. d \in Deals /\ (charged \cup others) \cap {d} = {}
    BY <1>1, <1>3
  <2> HIDE DEF charged, others, m, d
  <2>3. Worth(charged \cup others) = Worth(charged) + Worth(others)
    BY <1>5, <1>6, <1>7, WorthAdds
  <2>4. IsFiniteSet(charged \cup others)
    BY <1>5, <1>6, FS_Union
  <2>5. Worth((charged \cup others) \cup {d}) = Worth(charged \cup others) + Worth({d})
    BY <1>5, <1>6, <2>2, <2>4, WorthAdds
  <2> QED BY <2>1, <2>2, <2>3, <2>5, WorthOfOne
<1>11. d \in Deals
  BY <1>1
<1> HIDE DEF charged, others, m, d
<1>12. Worth(others) \in Nat /\ Price[d] \in Nat
  BY <1>5, <1>11, WorthIsNat, PriceIsNat
<1> DEFINE most == (Cardinality(Calls) - 1) * MaxSingle
<1>13. Cardinality(others) * MaxSingle <= most
  <2>1. \A a, b, x \in Nat : a <= b => a * x <= b * x
    OBVIOUS
  <2>2. Cardinality(Calls) - 1 \in Nat /\ MaxSingle \in Nat
    BY CapitalAssumption, LimitIsNat
  <2> QED BY <1>5, <2>1, <2>2
<1>14. Cardinality(others) * MaxSingle \in Nat /\ most \in Nat /\ Budget \in Nat
  <2>1. Cardinality(Calls) - 1 \in Nat /\ MaxSingle \in Nat /\ Budget \in Nat
    BY CapitalAssumption, LimitIsNat
  <2> QED BY <1>5, <2>1
<1>15. Limit = Budget + most
  BY DEF Limit
<1> HIDE DEF most
<1>16. Worth(others) <= most
  BY <1>9, <1>12, <1>13, <1>14
<1>17. Worth(charged) + Worth(others) + Price[d] <= Limit
  BY <1>2, <1>8, <1>12, <1>14, <1>15, <1>16
<1> QED BY <1>10, <1>17 DEF m, d

LEMMA JudgeKeepsExposure ==
    ASSUME CapitalInv, ExposureInv, NEW c \in Calls, JudgeAuthorization(c)
    PROVE  ExposureInv'
<1> USE JudgeEffect
<1>1. JudgedFitsOnce'
  <2>1. AgentSide[Offer(c)] = "buyer" => Price[Offer(c)] <= MaxSingle
    BY DEF JudgeAuthorization, Authorizable, WithinLimits
  <2> QED BY <2>1 DEF ExposureInv, JudgedFitsOnce, Offer
<1>2. \A m : Charged(m)' = Charged(m)
  BY DEF Charged
<1>3. \A m : m # Under(c) \/ AgentSide[Offer(c)] # "buyer" => Judging(m)' = Judging(m)
  BY DEF Judging, Under, Offer
<1>4. \A m : m = Under(c) /\ AgentSide[Offer(c)] = "buyer" => Judging(m)' = Judging(m) \cup {c}
  BY DEF Judging, Under, Offer
<1>5. \A b \in Calls : Offer(b)' = Offer(b)
  BY DEF Offer
<1>6. \A m : m # Under(c) \/ AgentSide[Offer(c)] # "buyer" => Judged(m)' = Judged(m)
  BY <1>3, <1>5 DEF Judged, Judging
<1>7. \A m : m = Under(c) /\ AgentSide[Offer(c)] = "buyer"
                => Judged(m)' = Judged(m) \cup {Offer(c)}
  BY <1>4, <1>5 DEF Judged, Judging
<1>8. ExposedIsBounded'
  <2> SUFFICES ASSUME NEW m \in Mandates
               PROVE  /\ IsFiniteSet(Charged(m)')
                      /\ Cardinality(Pile(Price, Exposed(m)')) <= Limit
    BY DEF ExposedIsBounded, Worth, Limit
  <2>1. IsFiniteSet(Charged(m)')
    BY <1>2 DEF ExposureInv, ExposedIsBounded
  <2>2. CASE m = Under(c) /\ AgentSide[Offer(c)] = "buyer"
    <3>1. Exposed(m)' = Exposed(m) \cup {Offer(c)}
      BY <1>2, <1>7, <2>2 DEF Exposed
    <3>2. Worth(Exposed(m) \cup {Offer(c)}) <= Limit
      BY <2>2, JudgeFits
    <3> QED BY <2>1, <3>1, <3>2 DEF Worth
  <2>3. CASE m # Under(c) \/ AgentSide[Offer(c)] # "buyer"
    <3>1. Exposed(m)' = Exposed(m)
      BY <1>2, <1>6, <2>3 DEF Exposed
    <3>2. Worth(Exposed(m)) <= Limit
      BY DEF ExposureInv, ExposedIsBounded
    <3> QED BY <2>1, <3>1, <3>2 DEF Worth
  <2> QED BY <2>2, <2>3
<1> QED BY <1>1, <1>8 DEF ExposureInv

LEMMA ExposureStep ==
    ASSUME CapitalInv, ExposureInv, [Next]_vars
    PROVE  ExposureInv'
<1>1. CASE CallNext
  BY <1>1, EndingKeepsExposure, JudgeKeepsExposure DEF CallNext
<1>2. CASE MandateNext
  BY <1>2, QuietStep DEF MandateNext, CreateDraft, SubmitDraft, ActivateMandate,
                         MandateLapses, ReadMandate, WriteMandate, dealVars
<1>3. CASE DealNext
  BY <1>3, QuietStep DEF DealNext, AcceptOffer, EndDeal, SubmitSignature
<1>4. CASE UNCHANGED vars
  BY <1>4, QuietStep DEF vars
<1> QED BY <1>1, <1>2, <1>3, <1>4 DEF Next

LEMMA ExposureInit == Init => ExposureInv
<1> SUFFICES ASSUME Init PROVE ExposureInv
  OBVIOUS
<1>1. \A c \in Calls : call[c].step # "judged"
  BY DEF Init, Idle
<1>2. \A m : Charged(m) = {} /\ Judged(m) = {}
  BY <1>1 DEF Init, Charged, Judged, Judging
<1>3. Worth({}) = 0
  BY FS_EmptySet DEF Worth, Pile
<1>4. ExposedIsBounded
  BY <1>2, <1>3, LimitIsNat, FS_EmptySet DEF ExposedIsBounded, Exposed
<1> QED BY <1>1, <1>4 DEF ExposureInv, JudgedFitsOnce

-----------------------------------------------------------------------------
(***************************************************************************)
(* The results.                                                            *)
(***************************************************************************)

\* Every column holds a value the schema lists.
THEOREM CapitalTypeCorrect == Spec => []TypeOK
<1>1. CapitalInv => TypeOK
  BY DEF CapitalInv
<1> QED BY <1>1, CapitalInductive, PTL

\* However many calls of however many mandates accept one offer, a purchase is
\* charged once, to the mandate that authorized it, and nothing else is charged.
THEOREM EachPurchaseIsChargedOnce == Spec => []ChargedOnce
<1>1. CapitalInv => ChargedOnce
  BY DEF CapitalInv
<1> QED BY <1>1, CapitalInductive, PTL

\* Of the tool call and the signature that race for a side, one authorizes it.
THEOREM SidesAuthorizeOnce == Spec => AuthorizationIsFinal
<1>1. ASSUME CapitalInv, [Next]_vars
      PROVE  [\A d \in Deals, s \in Side : by[d][s] # "none" => by'[d][s] = by[d][s]]_vars
  <2>1. CASE UNCHANGED << by, ledger >>
    BY <2>1
  <2>2. ASSUME NEW c \in Calls, AuthorizeDealSide(c)
        PROVE  \A e \in Deals, s \in Side : by[e][s] # "none" => by'[e][s] = by[e][s]
    BY <1>1, <2>2, AuthorizeEffect
  <2>3. ASSUME NEW d \in Deals, NEW q \in Side, SubmitSignature(d, q)
        PROVE  \A e \in Deals, s \in Side : by[e][s] # "none" => by'[e][s] = by[e][s]
    BY <1>1, <2>3, SignatureEffect
  <2> QED BY <1>1, <2>1, <2>2, <2>3, OnlyTwoAuthorize
<1> QED BY <1>1, CapitalInductive, PTL DEF Spec, AuthorizationIsFinal

\* A deal that ended takes no reservation and does not come back.
THEOREM EndedDealsAreNotCharged == Spec => EndedIsNotCharged
<1>1. ASSUME CapitalInv, [Next]_vars
      PROVE  [\A d \in Deals : deal[d] = "ended" =>
                /\ deal'[d] = "ended"
                /\ \A m \in Mandates : << m, d >> \in ledger' => << m, d >> \in ledger]_vars
  <2> SUFFICES ASSUME NEW d \in Deals, deal[d] = "ended"
               PROVE  /\ deal'[d] = "ended"
                      /\ \A m \in Mandates : << m, d >> \in ledger' => << m, d >> \in ledger
    OBVIOUS
  <2>1. deal'[d] = "ended"
    <3>1. CASE MandateNext
      BY <3>1 DEF MandateNext, CreateDraft, SubmitDraft, ActivateMandate,
                  MandateLapses, ReadMandate, WriteMandate, dealVars
    <3>2. CASE CallNext
      <4> PICK c \in Calls : \/ StartCall(c) \/ AcceptUnderMandate(c)
                             \/ JudgeAuthorization(c) \/ RepeatAuthorization(c)
                             \/ AuthorizeDealSide(c) \/ CallFails(c)
        BY <3>2 DEF CallNext
      <4>1. CASE AuthorizeDealSide(c)
        BY <1>1, <4>1, AuthorizeEffect
      <4>2. CASE JudgeAuthorization(c)
        BY <1>1, <4>2, JudgeEffect
      <4>3. CASE \/ StartCall(c) \/ AcceptUnderMandate(c)
                 \/ RepeatAuthorization(c) \/ CallFails(c)
        BY <1>1, <4>3, QuietCall
      <4> QED BY <4>1, <4>2, <4>3
    <3>3. CASE DealNext
      BY <1>1, <3>3 DEF DealNext, AcceptOffer, EndDeal, SubmitSignature,
                        ConfirmIfAuthorized, CapitalInv, TypeOK
    <3>4. CASE UNCHANGED vars
      BY <3>4 DEF vars
    <3> QED BY <1>1, <3>1, <3>2, <3>3, <3>4 DEF Next
  <2>2. ASSUME NEW m \in Mandates, << m, d >> \in ledger'
        PROVE  << m, d >> \in ledger
    <3>1. CASE UNCHANGED << by, ledger >>
      BY <2>2, <3>1
    <3>2. ASSUME NEW c \in Calls, AuthorizeDealSide(c)
          PROVE  << m, d >> \in ledger
      BY <1>1, <2>2, <3>2, AuthorizeEffect DEF Entries
    <3>3. ASSUME NEW e \in Deals, NEW s \in Side, SubmitSignature(e, s)
          PROVE  << m, d >> \in ledger
      BY <1>1, <2>2, <3>3, SignatureEffect
    <3> QED BY <1>1, <3>1, <3>2, <3>3, OnlyTwoAuthorize
  <2> QED BY <2>1, <2>2
<1> QED BY <1>1, CapitalInductive, PTL DEF Spec, EndedIsNotCharged

\* However many calls overlap, a mandate is overrun by at most one purchase for
\* each further call in flight.
THEOREM ExposureBounded == Spec => []ExposureIsBounded
<1>1. CapitalInv /\ ExposureInv => ExposureIsBounded
  <2> SUFFICES ASSUME CapitalInv, ExposureInv, NEW m \in Mandates
               PROVE  Reserved(m) <= Limit
    BY DEF ExposureIsBounded, Limit
  <2>1. IsFiniteSet(Charged(m)) /\ IsFiniteSet(Exposed(m)) /\ Exposed(m) \subseteq Deals
    BY ExposedIsFinite DEF ExposureInv, ExposedIsBounded
  <2>2. Reserved(m) = Worth(Charged(m)) /\ Reserved(m) \in Nat
    BY <2>1, ReservedIsWorth
  <2>3. Worth(Charged(m)) <= Worth(Exposed(m)) /\ Worth(Exposed(m)) \in Nat
    <3>1. Charged(m) \in SUBSET Exposed(m)
      BY DEF Exposed
    <3> QED BY <2>1, <3>1, WorthGrows, WorthIsNat
  <2>4. Worth(Exposed(m)) <= Limit
    BY DEF ExposureInv, ExposedIsBounded
  <2>5. Limit \in Nat
    BY LimitIsNat
  <2> QED BY <2>2, <2>3, <2>4, <2>5
<1>2. Init => ExposureInv
  BY ExposureInit
<1>3. CapitalInv /\ ExposureInv /\ [Next]_vars => ExposureInv'
  BY ExposureStep
<1> QED BY <1>1, <1>2, <1>3, CapitalInductive, PTL DEF Spec

=============================================================================
