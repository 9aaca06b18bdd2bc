--------------------------- MODULE Mandates_proofs ---------------------------
(***************************************************************************)
(* Identity, mandates, step-ups and revocation for every number of users,  *)
(* drafts and requests, and for every cap.  The argument: a request that   *)
(* has locked a draft or a step-up finds it, when it commits, as it was    *)
(* when it was locked (WorkIsCurrent), because every other writer of the   *)
(* row waits for the lock; and a mandate is stored only for a draft that   *)
(* is used up by the same commit.                                          *)
(***************************************************************************)
EXTENDS Mandates, WellFoundedInduction, TLAPS

DraftsAreUsedUp ==
    \A d \in Draft : /\ drafts[d].status # "none" => drafts[d].user \in Users
                     /\ mandates[d].status # "none" => drafts[d].status = "consumed"

RevocationsHaveTargets ==
    \A r \in RevocationDrafts :
       rdrafts[r].status # "none" =>
          rdrafts[r].mandate \in Draft /\ mandates[rdrafts[r].mandate].status # "none"

\* The rows a request has locked are as it found them.
WorkIsCurrent(s) ==
    /\ work[s].kind = "sign_mandate" =>
          /\ drafts[work[s].draft].status \in {"open", "lapsed"}
          /\ users[drafts[work[s].draft].user].agent \in {"pending_mandate", "active"}
    /\ work[s].kind = "revoke" => rdrafts[work[s].rdraft].status # "none"
    /\ work[s].kind \in {"sign", "reject"} => stepups[work[s].stepup].status = "pending"

LocksAreExclusive ==
    \A s, q \in Sessions :
       s # q => /\ \A d \in Draft : ~(LocksDraft(s, d) /\ LocksDraft(q, d))
                /\ \A x \in StepUps : ~(LocksStepUp(s, x) /\ LocksStepUp(q, x))

\* What a call has read leaves room for the price it was told.
CallHasRoom(w) ==
    /\ w.total <= paid[w.mandate]
    /\ w.price # 0 => /\ w.today + w.price <= DayCap
                      /\ w.total + w.price <= TotalCap
                      /\ w.deals < DealsCap

CallsHaveRoom == \A s \in Sessions : work[s].kind = "call" => CallHasRoom(work[s])

RowsInv == DraftsAreUsedUp /\ RevocationsHaveTargets
LocksInv == LocksAreExclusive /\ \A s \in Sessions : WorkIsCurrent(s)

-----------------------------------------------------------------------------
(***************************************************************************)
(* The newest mandate.                                                     *)
(***************************************************************************)

LEMMA LeastExists ==
  ASSUME NEW T \in SUBSET Nat, T # {}
  PROVE  \E x \in T : \A y \in T : x <= y
<1> DEFINE R == OpToRel(<, Nat)
<1>1. IsWellFoundedOn(R, Nat)
  BY NatLessThanWellFounded
<1>2. \A x, y \in Nat : <<y, x>> \in R <=> y < x
  BY DEF OpToRel
<1> HIDE DEF R
<1>3. PICK x \in T : \A y \in T : ~ (<<y, x>> \in R)
  BY <1>1, WFMin
<1>4. ASSUME NEW y \in T PROVE x <= y
  <2>1. x \in Nat /\ y \in Nat /\ ~ (y < x)
    BY <1>2, <1>3
  <2> QED
    BY <2>1
<1> QED
  BY <1>4

\* A user with a mandate has a newest one.
LEMMA NewestMandate ==
  ASSUME NEW u, Unrevoked(u) # {}
  PROVE  ActiveMandate(u) \in Unrevoked(u) /\ ActiveMandate(u) \in Draft
<1> DEFINE T == {MaxDrafts - d : d \in Unrevoked(u)}
<1>1. MaxDrafts \in Nat /\ Unrevoked(u) \subseteq 1..MaxDrafts
  BY CapsAssumption DEF Unrevoked, Draft
<1>2. T \subseteq Nat /\ T # {}
  BY <1>1
<1>3. PICK x \in T : \A y \in T : x <= y
  <2> HIDE DEF T
  <2> QED
    BY <1>2, LeastExists
<1>4. PICK d \in Unrevoked(u) : x = MaxDrafts - d
  BY <1>3
<1>5. \A e \in Unrevoked(u) : d >= e
  BY <1>1, <1>3, <1>4
<1>6. ActiveMandate(u) \in Unrevoked(u)
  BY <1>5 DEF ActiveMandate, Max
<1> QED
  BY <1>1, <1>6 DEF Draft

-----------------------------------------------------------------------------
(***************************************************************************)
(* Which work a session is at, by its kind.                                *)
(***************************************************************************)

LEMMA KindOfWork ==
  ASSUME TypeOK, NEW s \in Sessions
  PROVE  /\ work[s].kind = "sign_mandate" => work[s] \in Submission
         /\ work[s].kind = "revoke" => work[s] \in Revocation
         /\ work[s].kind = "call" => work[s] \in Call
         /\ work[s].kind \in {"step_up", "insert"} => work[s] \in Queueing
         /\ work[s].kind \in {"sign", "reject", "expire"} => work[s] \in Answer
<1>1. work[s] \in Work \cup {Idle}
  BY DEF TypeOK
<1> QED
  BY <1>1 DEF Work, Submission, Revocation, Call, Queueing, Answer, Idle

\* What a revocation under way is about.
LEMMA TargetIsMandated ==
  ASSUME TypeOK, RowsInv, LocksInv, NEW s \in Sessions, work[s].kind = "revoke"
  PROVE  /\ work[s].rdraft \in RevocationDrafts /\ Target(s) \in Draft
         /\ mandates[Target(s)].status # "none"
         /\ drafts[Target(s)].status = "consumed" /\ drafts[Target(s)].user \in Users
<1>1. work[s].rdraft \in RevocationDrafts
  BY KindOfWork DEF Revocation
<1>2. rdrafts[work[s].rdraft].status # "none"
  BY DEF LocksInv, WorkIsCurrent
<1> QED
  BY <1>1, <1>2 DEF Target, RowsInv, RevocationsHaveTargets, DraftsAreUsedUp

-----------------------------------------------------------------------------
(***************************************************************************)
(* Types.                                                                  *)
(***************************************************************************)

\* A step that changes the work of one session.
LEMMA WorkIsTyped ==
  ASSUME TypeOK, NEW s \in Sessions, NEW w \in Work \cup {Idle}, work' = [work EXCEPT ![s] = w]
  PROVE  work' \in [Sessions -> Work \cup {Idle}]
  BY DEF TypeOK

LEMMA MandatedIsUser ==
  ASSUME NEW k \in User PROVE Mandated(k) \in User
  BY DEF Mandated, User, AgentStatus

LEMMA CountersAreNat ==
  ASSUME NEW m \in Mandate PROVE Today(m) \in Nat /\ DealsToday(m) \in Nat
  BY DEF Mandate, Today, DealsToday

LEMMA MandateKeepsTypes ==
  ASSUME TypeOK, RowsInv, LocksInv, NEW s \in Sessions, MandateNext(s)
  PROVE  TypeOK'
<1>0. Idle \in Work \cup {Idle}
  OBVIOUS
<1>1. ASSUME NEW d \in Draft, VerifyMandateSignature(s, d) PROVE TypeOK'
  <2>1. [kind |-> "sign_mandate", draft |-> d] \in Work \cup {Idle}
    BY DEF Work, Submission
  <2> QED
    BY <1>1, <2>1, WorkIsTyped DEF VerifyMandateSignature, Starts, TypeOK
<1>2. CASE SubmitSignedMandate(s)
  <2>1. PICK d \in Draft : d = work[s].draft
    BY <1>2, KindOfWork DEF SubmitSignedMandate, Submission
  <2>2. PICK u \in Users : u = drafts[d].user
    BY <1>2, <2>1 DEF SubmitSignedMandate, RowsInv, DraftsAreUsedUp, LocksInv, WorkIsCurrent
  <2>3. mandates' \in [Draft -> Mandate]
    <3>1. mandates' = [mandates EXCEPT ![d].status = "signed"]
      BY <1>2, <2>1 DEF SubmitSignedMandate
    <3> QED
      BY <3>1 DEF TypeOK, Mandate
  <2>4. users' \in [Users -> User]
    <3>1. \A v \in Users : Mandated(users[v]) \in User
      BY MandatedIsUser DEF TypeOK
    <3>2. drafts[work[s].draft].user \in Users
      BY <2>1, <2>2
    <3> QED
      BY <1>2, <3>1, <3>2 DEF SubmitSignedMandate, TypeOK
  <2>5. drafts' \in [Draft -> MandateDraft]
    <3>1. drafts' = [drafts EXCEPT ![d].status = "consumed"]
      BY <1>2, <2>1 DEF SubmitSignedMandate
    <3> QED
      BY <3>1 DEF TypeOK, MandateDraft
  <2>6. work' \in [Sessions -> Work \cup {Idle}]
    BY <1>0, <1>2, WorkIsTyped DEF SubmitSignedMandate, Ends
  <2>7. UNCHANGED <<rdrafts, stepups, paid>>
    BY <1>2 DEF SubmitSignedMandate
  <2> QED
    BY <2>3, <2>4, <2>5, <2>6, <2>7 DEF TypeOK
<1>3. ASSUME NEW r \in RevocationDrafts, SubmitRevocation(s, r) PROVE TypeOK'
  <2>1. UNCHANGED <<users, drafts, mandates, stepups, paid>>
    BY <1>3 DEF SubmitRevocation
  <2>2. CASE rdrafts' = [rdrafts EXCEPT ![r].status = "consumed"] /\ UNCHANGED work
    <3>1. rdrafts' \in [RevocationDrafts -> RevocationDraft]
      BY <2>2 DEF TypeOK, RevocationDraft
    <3> QED
      BY <2>1, <2>2, <3>1 DEF TypeOK
  <2>3. CASE /\ Starts(s, [kind |-> "revoke", rdraft |-> r, flushed |-> FALSE])
             /\ UNCHANGED rdrafts
    <3>1. [kind |-> "revoke", rdraft |-> r, flushed |-> FALSE] \in Work \cup {Idle}
      BY DEF Work, Revocation
    <3>2. work' \in [Sessions -> Work \cup {Idle}]
      BY <2>3, <3>1, WorkIsTyped DEF Starts
    <3> QED
      BY <2>1, <2>3, <3>2 DEF TypeOK
  <2> QED
    BY <1>3, <2>2, <2>3 DEF SubmitRevocation
<1>4. CASE Flush(s)
  <2>1. work[s] \in Revocation
    BY <1>4, KindOfWork DEF Flush
  <2>2. [work[s] EXCEPT !.flushed = TRUE] \in Work \cup {Idle}
    BY <2>1 DEF Work, Revocation
  <2>3. work' = [work EXCEPT ![s] = [work[s] EXCEPT !.flushed = TRUE]]
    BY <1>4 DEF Flush
  <2>4. work' \in [Sessions -> Work \cup {Idle}]
    BY <2>2, <2>3, WorkIsTyped
  <2> QED
    BY <1>4, <2>4 DEF Flush, TypeOK
<1>5. CASE CommitRevocation(s)
  <2>0. PICK r \in RevocationDrafts, m \in Draft, u \in Users :
           r = work[s].rdraft /\ m = Target(s) /\ u = drafts[Target(s)].user
    BY <1>5, TargetIsMandated DEF CommitRevocation
  <2>1. /\ mandates' = [mandates EXCEPT ![m].status = "revoked"]
        /\ users' = [users EXCEPT ![u].agent = "revoked"]
        /\ rdrafts' = [rdrafts EXCEPT ![r].status = "consumed"]
        /\ paid' = paid
    BY <1>5, <2>0 DEF CommitRevocation
  <2>2. mandates' \in [Draft -> Mandate]
    BY <2>1 DEF TypeOK, Mandate
  <2>3. users' \in [Users -> User]
    BY <2>1 DEF TypeOK, User, AgentStatus
  <2>4. drafts' \in [Draft -> MandateDraft]
    BY <1>5 DEF CommitRevocation, TypeOK, MandateDraft
  <2>5. stepups' \in [StepUps -> StepUp]
    BY <1>5 DEF CommitRevocation, TypeOK, StepUp, StepUpStatus
  <2>6. work' \in [Sessions -> Work \cup {Idle}]
    BY <1>0, <1>5, WorkIsTyped DEF CommitRevocation, Ends
  <2>7. rdrafts' \in [RevocationDrafts -> RevocationDraft]
    BY <2>1 DEF TypeOK, RevocationDraft
  <2>8. paid' \in [Draft -> Nat]
    BY <2>1 DEF TypeOK
  <2> QED
    BY <2>2, <2>3, <2>4, <2>5, <2>6, <2>7, <2>8 DEF TypeOK
<1> QED
  BY <1>1, <1>2, <1>3, <1>4, <1>5 DEF MandateNext

LEMMA RefreshedIsMandate ==
  ASSUME NEW m \in Mandate
  PROVE  /\ Refreshed(m) \in Mandate
         /\ Refreshed(m).status = m.status /\ Refreshed(m).total = m.total
         /\ Refreshed(m).today = Today(m) /\ Refreshed(m).deals = DealsToday(m)
  BY CountersAreNat DEF Refreshed, Mandate

LEMMA CountedIsMandate ==
  ASSUME TypeOK, NEW w \in Call
  PROVE  /\ Counted(w) \in Mandate
         /\ Counted(w).status = mandates[w.mandate].status
         /\ Counted(w).today = w.today + w.price
         /\ Counted(w).total = w.total + w.price
         /\ Counted(w).deals = w.deals + 1
<1>1. /\ mandates[w.mandate] \in Mandate
      /\ w.today \in Nat /\ w.total \in Nat /\ w.deals \in Nat /\ w.price \in Nat
  BY CapsAssumption DEF TypeOK, Call
<1>2. w.today + w.price \in Nat /\ w.total + w.price \in Nat /\ w.deals + 1 \in Nat
  BY <1>1
<1> QED
  BY <1>1, <1>2 DEF Counted, Mandate

\* What an authorization that passes leaves the session to do.
Authorized(u, price) ==
    LET d == ActiveMandate(u)
        m == mandates[d]
    IN  IF ~WithinLimits(m, price) THEN Idle
        ELSE IF NeedsStepUp(price) THEN [kind |-> "step_up", user |-> u]
        ELSE [kind |-> "call", mandate |-> d, price |-> price,
              today |-> Today(m), total |-> m.total, deals |-> DealsToday(m)]

LEMMA AuthorizeStores ==
  ASSUME TypeOK, NEW s \in Sessions, NEW u \in Users, NEW price \in Prices,
         Authorize(s, u, price)
  PROVE  \E d \in Draft :
            /\ d = ActiveMandate(u)
            /\ mandates' = [mandates EXCEPT ![d] = Refreshed(mandates[d])]
            /\ work' = [work EXCEPT ![s] = Authorized(u, price)]
            /\ Authorized(u, price) \in Work \cup {Idle}
            /\ UNCHANGED <<users, drafts, rdrafts, stepups, paid>>
<1>1. PICK d \in Draft : d = ActiveMandate(u)
  BY NewestMandate DEF Authorize
<1>2. /\ mandates' = [mandates EXCEPT ![d] = Refreshed(mandates[d])]
      /\ UNCHANGED <<users, drafts, rdrafts, stepups, paid>>
  BY <1>1 DEF Authorize
<1>3. work' = [work EXCEPT ![s] = Authorized(u, price)]
  BY DEF Authorize, Authorized
<1>4. mandates[d] \in Mandate /\ Today(mandates[d]) \in Nat /\ DealsToday(mandates[d]) \in Nat
  BY CountersAreNat DEF TypeOK
<1>5. /\ [kind |-> "call", mandate |-> d, price |-> price, today |-> Today(mandates[d]),
          total |-> mandates[d].total, deals |-> DealsToday(mandates[d])] \in Call
      /\ [kind |-> "step_up", user |-> u] \in Queueing
  BY <1>4 DEF Call, Queueing, Mandate
<1>6. Authorized(u, price) \in Work \cup {Idle}
  BY <1>1, <1>5 DEF Authorized, Work
<1> QED
  BY <1>1, <1>2, <1>3, <1>6

LEMMA CallKeepsTypes ==
  ASSUME TypeOK, NEW s \in Sessions, CallNext(s)
  PROVE  TypeOK'
<1>1. ASSUME NEW u \in Users, NEW price \in Prices, Authorize(s, u, price) PROVE TypeOK'
  <2>1. PICK d \in Draft :
           /\ mandates' = [mandates EXCEPT ![d] = Refreshed(mandates[d])]
           /\ work' = [work EXCEPT ![s] = Authorized(u, price)]
           /\ Authorized(u, price) \in Work \cup {Idle}
           /\ UNCHANGED <<users, drafts, rdrafts, stepups, paid>>
    BY <1>1, AuthorizeStores
  <2>2. Refreshed(mandates[d]) \in Mandate
    BY RefreshedIsMandate DEF TypeOK
  <2>3. mandates' \in [Draft -> Mandate]
    BY <2>1, <2>2 DEF TypeOK
  <2>4. work' \in [Sessions -> Work \cup {Idle}]
    BY <2>1, WorkIsTyped
  <2> QED
    BY <2>1, <2>3, <2>4 DEF TypeOK
<1>2. CASE RecordUsage(s)
  <2>1. work[s] \in Call
    BY <1>2, KindOfWork DEF RecordUsage
  <2>2. work[s].mandate \in Draft /\ work[s].price \in Nat
    BY <2>1, CapsAssumption DEF Call
  <2>3. mandates' \in [Draft -> Mandate]
    BY <1>2, <2>1, <2>2, CountedIsMandate DEF RecordUsage, TypeOK
  <2>4. paid' \in [Draft -> Nat]
    BY <1>2, <2>2 DEF RecordUsage, TypeOK
  <2>5. work' \in [Sessions -> Work \cup {Idle}]
    BY <1>2, WorkIsTyped DEF RecordUsage, Ends
  <2> QED
    BY <1>2, <2>3, <2>4, <2>5 DEF RecordUsage, TypeOK
<1>3. CASE QueueStepUp(s)
  <2>1. work[s].user \in Users
    BY <1>3, KindOfWork DEF QueueStepUp, Queueing
  <2>2. PICK w \in Work \cup {Idle} : work' = [work EXCEPT ![s] = w]
    <3>1. CASE Unrevoked(work[s].user) = {}
      BY <1>3, <3>1 DEF QueueStepUp
    <3>2. CASE Unrevoked(work[s].user) # {}
      <4>1. [kind |-> "insert", mandate |-> ActiveMandate(work[s].user)] \in Work
        BY <3>2, NewestMandate DEF Work, Queueing
      <4> QED
        BY <1>3, <3>2, <4>1 DEF QueueStepUp
    <3> QED
      BY <3>1, <3>2
  <2>3. work' \in [Sessions -> Work \cup {Idle}]
    BY <2>2, WorkIsTyped
  <2> QED
    BY <1>3, <2>3 DEF QueueStepUp, TypeOK
<1>4. ASSUME NEW x \in StepUps, CreatePendingRequest(s, x) PROVE TypeOK'
  <2>1. [status |-> "pending", mandate |-> work[s].mandate, due |-> FALSE] \in StepUp
    <3>1. work[s].mandate \in Draft
      BY <1>4, KindOfWork DEF CreatePendingRequest, Queueing
    <3> QED
      BY <3>1, CapsAssumption DEF StepUp, StepUpStatus, Draft
  <2>2. stepups' \in [StepUps -> StepUp]
    BY <1>4, <2>1 DEF CreatePendingRequest, TypeOK
  <2>3. work' \in [Sessions -> Work \cup {Idle}]
    BY <1>4, WorkIsTyped DEF CreatePendingRequest, Ends
  <2> QED
    BY <1>4, <2>2, <2>3 DEF CreatePendingRequest, TypeOK
<1> QED
  BY <1>1, <1>2, <1>3, <1>4 DEF CallNext

LEMMA StepUpKeepsTypes ==
  ASSUME TypeOK, NEW s \in Sessions, StepUpNext(s) \/ Fail(s)
  PROVE  TypeOK'
<1>1. ASSUME NEW x \in StepUps, NEW answer \in {"sign", "reject"},
             GetForSigning(s, x) \/ LoadPending(s, x, answer)
      PROVE  TypeOK'
  <2>1. PICK w \in Work \cup {Idle} : work' = [work EXCEPT ![s] = w]
    <3>1. \A k \in {"sign", "reject", "expire"} : [kind |-> k, stepup |-> x] \in Work
      BY DEF Work, Answer
    <3> QED
      BY <1>1, <3>1 DEF GetForSigning, LoadPending, Starts
  <2>2. work' \in [Sessions -> Work \cup {Idle}]
    BY <2>1, WorkIsTyped
  <2> QED
    BY <1>1, <2>2 DEF GetForSigning, LoadPending, TypeOK
<1>2. ASSUME NEW kind \in {"sign", "reject", "expire"}, NEW status \in StepUpStatus,
             Resolve(s, kind, status)
      PROVE  TypeOK'
  <2>1. stepups' \in [StepUps -> StepUp]
    BY <1>2 DEF Resolve, TypeOK, StepUp
  <2>2. work' \in [Sessions -> Work \cup {Idle}]
    BY <1>2, WorkIsTyped DEF Resolve, Ends
  <2> QED
    BY <1>2, <2>1, <2>2 DEF Resolve, TypeOK
<1>3. CASE Fail(s)
  <2>1. work' \in [Sessions -> Work \cup {Idle}]
    BY <1>3, WorkIsTyped DEF Fail, Ends
  <2> QED
    BY <1>3, <2>1 DEF Fail, TypeOK
<1> QED
  BY <1>1, <1>2, <1>3 DEF StepUpNext, Sign, Reject, ExpireOnLoad, StepUpStatus

\* What happens outside the sessions.
Outside ==
    \/ \E u \in Users : \/ VerifySelf(u)
                       \/ \E d \in Draft : CreateDraft(u, d)
    \/ \E d \in Draft : DraftExpires(d) \/ MandateExpires(d)
    \/ \E r \in RevocationDrafts : RevocationDraftExpires(r)
                                   \/ \E d \in Draft : CreateRevocationDraft(r, d)
    \/ \E x \in StepUps : StepUpFallsDue(x)
    \/ Midnight

LEMMA OutsideKeepsTypes ==
  ASSUME TypeOK, Outside PROVE TypeOK'
<1>1. ASSUME NEW u \in Users, VerifySelf(u) PROVE TypeOK'
  <2>1. PICK n \in Nullifiers :
           users' = [users EXCEPT ![u] = [tier |-> 1, nullifier |-> n,
                                          agent |-> "pending_mandate"]]
    BY <1>1 DEF VerifySelf, UpgradeUserToTier1
  <2>2. users' \in [Users -> User]
    BY <2>1 DEF TypeOK, User, AgentStatus
  <2> QED
    BY <1>1, <2>2 DEF VerifySelf, UpgradeUserToTier1, TypeOK
<1>2. ASSUME NEW u \in Users, NEW d \in Draft, CreateDraft(u, d) PROVE TypeOK'
  BY <1>2 DEF CreateDraft, TypeOK, MandateDraft
<1>3. ASSUME NEW d \in Draft, DraftExpires(d) PROVE TypeOK'
  BY <1>3 DEF DraftExpires, TypeOK, MandateDraft
<1>4. ASSUME NEW d \in Draft, MandateExpires(d) PROVE TypeOK'
  BY <1>4 DEF MandateExpires, TypeOK, Mandate
<1>5. ASSUME NEW r \in RevocationDrafts, RevocationDraftExpires(r) PROVE TypeOK'
  BY <1>5 DEF RevocationDraftExpires, TypeOK, RevocationDraft
<1>6. ASSUME NEW r \in RevocationDrafts, NEW d \in Draft, CreateRevocationDraft(r, d)
      PROVE  TypeOK'
  <2>1. d \in 0..MaxDrafts
    BY CapsAssumption DEF Draft
  <2> QED
    BY <1>6, <2>1 DEF CreateRevocationDraft, TypeOK, RevocationDraft
<1>7. ASSUME NEW x \in StepUps, StepUpFallsDue(x) PROVE TypeOK'
  BY <1>7 DEF StepUpFallsDue, TypeOK, StepUp
<1>8. CASE Midnight
  BY <1>8 DEF Midnight, TypeOK, Mandate
<1> QED
  BY <1>1, <1>2, <1>3, <1>4, <1>5, <1>6, <1>7, <1>8 DEF Outside

-----------------------------------------------------------------------------
(***************************************************************************)
(* Rows, locks and the stages of a user, when one session moves on.        *)
(***************************************************************************)

RowsAndLocks == RowsInv /\ LocksInv /\ OnboardingIsConsistent

\* A session takes a lock that is free, or none.
LEMMA LocksChange ==
  ASSUME TypeOK, LocksAreExclusive, NEW s \in Sessions, NEW w \in Work \cup {Idle},
         work' = [work EXCEPT ![s] = w],
         w.kind = "sign_mandate" => DraftUnlocked(w.draft),
         w.kind \in {"sign", "reject"} => StepUpUnlocked(w.stepup)
  PROVE  LocksAreExclusive' /\ work'[s] = w /\ \A q \in Sessions \ {s} : work'[q] = work[q]
<1>1. work'[s] = w /\ \A q \in Sessions \ {s} : work'[q] = work[q]
  BY DEF TypeOK
<1>2. LocksAreExclusive'
  BY <1>1 DEF LocksAreExclusive, LocksDraft, LocksStepUp, DraftUnlocked, StepUpUnlocked
<1> QED
  BY <1>1, <1>2

\* The stages of the users do not change.
LEMMA StagesStay ==
  ASSUME OnboardingIsConsistent, users' = users,
         \A d \in Draft : /\ mandates'[d].status = mandates[d].status
                          /\ mandates[d].status # "none" => drafts'[d].user = drafts[d].user
  PROVE  OnboardingIsConsistent'
<1>1. \A u \in Users : Stored(u)' = Stored(u) /\ Unrevoked(u)' = Unrevoked(u)
  BY DEF Stored, Unrevoked
<1> QED
  BY <1>1 DEF OnboardingIsConsistent

\* A session takes work that is current; no row changes but mandates' counters.
LEMMA SessionMovesOn ==
  ASSUME TypeOK, RowsAndLocks, NEW s \in Sessions, NEW w \in Work \cup {Idle},
         work' = [work EXCEPT ![s] = w],
         UNCHANGED <<users, drafts, rdrafts, stepups>>,
         \A d \in Draft : mandates'[d].status = mandates[d].status,
         w.kind = "sign_mandate" =>
            /\ DraftUnlocked(w.draft)
            /\ drafts[w.draft].status \in {"open", "lapsed"}
            /\ users[drafts[w.draft].user].agent \in {"pending_mandate", "active"},
         w.kind = "revoke" => rdrafts[w.rdraft].status # "none",
         w.kind \in {"sign", "reject"} =>
            StepUpUnlocked(w.stepup) /\ stepups[w.stepup].status = "pending"
  PROVE  RowsAndLocks'
<1>1. /\ LocksAreExclusive' /\ work'[s] = w
      /\ \A q \in Sessions \ {s} : work'[q] = work[q]
  BY LocksChange DEF RowsAndLocks, LocksInv
<1>2. \A q \in Sessions : WorkIsCurrent(q)'
  BY <1>1 DEF RowsAndLocks, LocksInv, WorkIsCurrent
<1>3. RowsInv'
  BY DEF RowsAndLocks, RowsInv, DraftsAreUsedUp, RevocationsHaveTargets
<1>4. OnboardingIsConsistent'
  BY StagesStay DEF RowsAndLocks
<1> QED
  BY <1>1, <1>2, <1>3, <1>4 DEF RowsAndLocks, LocksInv

LEMMA CallKeepsRows ==
  ASSUME TypeOK, RowsAndLocks, NEW s \in Sessions, CallNext(s) PROVE RowsAndLocks'
<1>0. Idle \in Work \cup {Idle} /\ Idle.kind = "idle"
  BY DEF Idle
<1>1. ASSUME NEW u \in Users, NEW price \in Prices, Authorize(s, u, price) PROVE RowsAndLocks'
  <2>1. PICK d \in Draft :
           /\ mandates' = [mandates EXCEPT ![d] = Refreshed(mandates[d])]
           /\ work' = [work EXCEPT ![s] = Authorized(u, price)]
           /\ Authorized(u, price) \in Work \cup {Idle}
           /\ UNCHANGED <<users, drafts, rdrafts, stepups, paid>>
    BY <1>1, AuthorizeStores
  <2>2. \A e \in Draft : mandates'[e].status = mandates[e].status
    BY <2>1, RefreshedIsMandate DEF TypeOK
  <2>3. Authorized(u, price).kind \in {"idle", "step_up", "call"}
    BY DEF Authorized, Idle
  <2> QED
    BY <2>1, <2>2, <2>3, SessionMovesOn
<1>2. CASE RecordUsage(s)
  <2>1. work[s] \in Call /\ work[s].mandate \in Draft
    BY <1>2, KindOfWork DEF RecordUsage, Call
  <2>2. \A e \in Draft : mandates'[e].status = mandates[e].status
    BY <1>2, <2>1, CountedIsMandate DEF RecordUsage, TypeOK
  <2> QED
    BY <1>0, <1>2, <2>2, SessionMovesOn DEF RecordUsage, Ends
<1>3. CASE QueueStepUp(s)
  <2>1. work[s].user \in Users
    BY <1>3, KindOfWork DEF QueueStepUp, Queueing
  <2>2. PICK w \in Work \cup {Idle} :
           w.kind \in {"idle", "insert"} /\ work' = [work EXCEPT ![s] = w]
    <3>1. CASE Unrevoked(work[s].user) = {}
      BY <1>0, <1>3, <3>1 DEF QueueStepUp
    <3>2. CASE Unrevoked(work[s].user) # {}
      <4>1. [kind |-> "insert", mandate |-> ActiveMandate(work[s].user)] \in Work
        BY <3>2, NewestMandate DEF Work, Queueing
      <4> QED
        BY <1>3, <3>2, <4>1 DEF QueueStepUp
    <3> QED
      BY <3>1, <3>2
  <2> QED
    BY <1>3, <2>2, SessionMovesOn DEF QueueStepUp
<1>4. ASSUME NEW x \in StepUps, CreatePendingRequest(s, x) PROVE RowsAndLocks'
  <2>1. /\ LocksAreExclusive' /\ work'[s] = Idle
        /\ \A q \in Sessions \ {s} : work'[q] = work[q]
    BY <1>0, <1>4, LocksChange DEF RowsAndLocks, LocksInv, CreatePendingRequest, Ends
  <2>2. /\ UNCHANGED <<users, drafts, mandates, rdrafts>> /\ stepups[x].status = "none"
        /\ \A y \in StepUps \ {x} : stepups'[y] = stepups[y]
    BY <1>4 DEF CreatePendingRequest, TypeOK
  <2>3. \A q \in Sessions : work[q].kind \in {"sign", "reject"} => work[q].stepup \in StepUps \ {x}
    BY <2>2, KindOfWork DEF RowsAndLocks, LocksInv, WorkIsCurrent, Answer
  <2>4. \A q \in Sessions : WorkIsCurrent(q)'
    BY <1>0, <2>1, <2>2, <2>3 DEF RowsAndLocks, LocksInv, WorkIsCurrent
  <2>5. RowsInv'
    BY <2>2 DEF RowsAndLocks, RowsInv, DraftsAreUsedUp, RevocationsHaveTargets
  <2> QED
    BY <2>1, <2>2, <2>4, <2>5, StagesStay DEF RowsAndLocks, LocksInv
<1> QED
  BY <1>1, <1>2, <1>3, <1>4 DEF CallNext

\* An answer is stored, or a request that fell due is ended: no other request
\* has the row.
LEMMA AnswerIsStored ==
  ASSUME TypeOK, RowsAndLocks, NEW s \in Sessions, NEW kind \in {"sign", "reject", "expire"},
         NEW status, Resolve(s, kind, status),
         kind = "expire" => StepUpUnlocked(work[s].stepup)
  PROVE  RowsAndLocks' /\ (kind # "expire" => stepups[work[s].stepup].status = "pending")
<1>0. Idle \in Work \cup {Idle} /\ Idle.kind = "idle"
  BY DEF Idle
<1>1. PICK x \in StepUps : x = work[s].stepup
  BY KindOfWork DEF Resolve, Answer
<1>2. /\ LocksAreExclusive' /\ work'[s] = Idle
      /\ \A q \in Sessions \ {s} : work'[q] = work[q]
  BY <1>0, LocksChange DEF RowsAndLocks, LocksInv, Resolve, Ends
<1>3. /\ UNCHANGED <<users, drafts, mandates, rdrafts>>
      /\ \A y \in StepUps \ {x} : stepups'[y] = stepups[y]
  BY <1>1 DEF Resolve, TypeOK
<1>4. \A q \in Sessions \ {s} : ~LocksStepUp(q, x)
  BY <1>1 DEF Resolve, RowsAndLocks, LocksInv, LocksAreExclusive, LocksStepUp, StepUpUnlocked
<1>5. \A q \in Sessions \ {s} :
         work[q].kind \in {"sign", "reject"} => work[q].stepup \in StepUps \ {x}
  BY <1>4, KindOfWork DEF LocksStepUp, Answer
<1>6. \A q \in Sessions : WorkIsCurrent(q)'
  BY <1>0, <1>2, <1>3, <1>5 DEF RowsAndLocks, LocksInv, WorkIsCurrent
<1>7. RowsInv'
  BY <1>3 DEF RowsAndLocks, RowsInv, DraftsAreUsedUp, RevocationsHaveTargets
<1>8. kind # "expire" => stepups[work[s].stepup].status = "pending"
  BY DEF Resolve, RowsAndLocks, LocksInv, WorkIsCurrent
<1> QED
  BY <1>2, <1>3, <1>6, <1>7, <1>8, StagesStay DEF RowsAndLocks, LocksInv

LEMMA StepUpKeepsRows ==
  ASSUME TypeOK, RowsAndLocks, NEW s \in Sessions, StepUpNext(s) \/ Fail(s)
  PROVE  RowsAndLocks'
<1>0. Idle \in Work \cup {Idle} /\ Idle.kind = "idle"
  BY DEF Idle
<1>1. ASSUME NEW x \in StepUps, NEW answer \in {"sign", "reject"},
             GetForSigning(s, x) \/ LoadPending(s, x, answer)
      PROVE  RowsAndLocks'
  <2>1. \A k \in {"sign", "reject", "expire"} : [kind |-> k, stepup |-> x] \in Work
    BY DEF Work, Answer
  <2>2. PICK k \in {"sign", "reject", "expire"} :
           /\ work' = [work EXCEPT ![s] = [kind |-> k, stepup |-> x]]
           /\ k # "expire" => StepUpUnlocked(x) /\ stepups[x].status = "pending"
           /\ UNCHANGED <<users, drafts, mandates, rdrafts, stepups>>
    BY <1>1 DEF GetForSigning, LoadPending, Starts
  <2>3. PICK w \in Work \cup {Idle} : w = [kind |-> k, stepup |-> x]
    BY <2>1
  <2>4. w.kind = k /\ w.stepup = x /\ work' = [work EXCEPT ![s] = w]
    BY <2>2, <2>3
  <2> QED
    BY <2>2, <2>4, SessionMovesOn
<1>2. CASE Sign(s) \/ Reject(s) \/ ExpireOnLoad(s)
  BY <1>2, AnswerIsStored DEF Sign, Reject, ExpireOnLoad
<1>3. CASE Fail(s)
  BY <1>0, <1>3, SessionMovesOn DEF Fail, Ends
<1> QED
  BY <1>1, <1>2, <1>3 DEF StepUpNext

-----------------------------------------------------------------------------
(***************************************************************************)
(* A mandate is signed, or revoked.                                        *)
(***************************************************************************)

\* The signed mandate is stored for a draft nobody else has locked.
LEMMA SubmissionKeepsRows ==
  ASSUME TypeOK, RowsAndLocks, NEW s \in Sessions, SubmitSignedMandate(s)
  PROVE  RowsAndLocks'
<1>0. Idle \in Work \cup {Idle} /\ Idle.kind = "idle"
  BY DEF Idle
<1>1. PICK d \in Draft : d = work[s].draft
  BY KindOfWork DEF SubmitSignedMandate, Submission
<1>2. /\ drafts[d].status \in {"open", "lapsed"}
      /\ users[drafts[d].user].agent \in {"pending_mandate", "active"}
  BY <1>1 DEF SubmitSignedMandate, RowsAndLocks, LocksInv, WorkIsCurrent
<1>3. PICK u \in Users : u = drafts[d].user
  BY <1>2 DEF RowsAndLocks, RowsInv, DraftsAreUsedUp
<1>4. /\ mandates' = [mandates EXCEPT ![d].status = "signed"]
      /\ users' = [users EXCEPT ![u] = Mandated(users[u])]
      /\ drafts' = [drafts EXCEPT ![d].status = "consumed"]
      /\ rdrafts' = rdrafts /\ stepups' = stepups
  BY <1>1, <1>3 DEF SubmitSignedMandate
<1>5. /\ mandates'[d].status = "signed" /\ drafts'[d].status = "consumed"
      /\ drafts'[d].user = u
      /\ \A e \in Draft \ {d} : mandates'[e] = mandates[e] /\ drafts'[e] = drafts[e]
  BY <1>3, <1>4 DEF TypeOK, Mandate, MandateDraft
<1>6. /\ users'[u].tier = 2 /\ users'[u].agent = "active"
      /\ users'[u].nullifier = users[u].nullifier
      /\ \A v \in Users \ {u} : users'[v] = users[v]
  BY <1>4 DEF TypeOK, User, Mandated
<1>7. /\ LocksAreExclusive' /\ work'[s] = Idle
      /\ \A q \in Sessions \ {s} : work'[q] = work[q]
  BY <1>0, LocksChange DEF RowsAndLocks, LocksInv, SubmitSignedMandate, Ends
<1>8. ASSUME NEW q \in Sessions PROVE WorkIsCurrent(q)'
  <2>1. CASE q = s
    BY <1>0, <1>7, <2>1 DEF WorkIsCurrent
  <2>2. CASE q # s
    <3>1. work'[q] = work[q] /\ WorkIsCurrent(q)
      BY <1>7, <2>2 DEF RowsAndLocks, LocksInv
    <3>2. ASSUME work[q].kind = "sign_mandate"
          PROVE  /\ drafts'[work[q].draft].status \in {"open", "lapsed"}
                 /\ users'[drafts'[work[q].draft].user].agent \in {"pending_mandate", "active"}
      <4>1. PICK e \in Draft : e = work[q].draft
        BY <3>2, KindOfWork DEF Submission
      <4>2. e # d
        BY <1>1, <2>2, <3>2, <4>1
           DEF SubmitSignedMandate, RowsAndLocks, LocksInv, LocksAreExclusive, LocksDraft
      <4>3. drafts'[e] = drafts[e]
        BY <1>5, <4>2
      <4>4. drafts[e].status \in {"open", "lapsed"} /\ drafts[e].user \in Users
        BY <3>1, <3>2, <4>1 DEF WorkIsCurrent, RowsAndLocks, RowsInv, DraftsAreUsedUp
      <4>5. users[drafts[e].user].agent \in {"pending_mandate", "active"}
        BY <3>1, <3>2, <4>1 DEF WorkIsCurrent
      <4> QED
        BY <1>6, <4>1, <4>3, <4>4, <4>5
    <3> QED
      BY <1>4, <3>1, <3>2 DEF WorkIsCurrent
  <2> QED
    BY <2>1, <2>2
<1>9. RowsInv'
  <2>1. DraftsAreUsedUp'
    BY <1>5 DEF RowsAndLocks, RowsInv, DraftsAreUsedUp
  <2>2. RevocationsHaveTargets'
    BY <1>4, <1>5 DEF RowsAndLocks, RowsInv, RevocationsHaveTargets
  <2> QED
    BY <2>1, <2>2 DEF RowsInv
<1>10. OnboardingIsConsistent'
  <2>1. d \in Stored(u)' /\ d \in Unrevoked(u)'
    BY <1>5 DEF Stored, Unrevoked
  <2>2. \A v \in Users \ {u} : Stored(v)' = Stored(v) /\ Unrevoked(v)' = Unrevoked(v)
    BY <1>3, <1>5 DEF Stored, Unrevoked
  <2>3. users[u].nullifier # "none"
    BY <1>2, <1>3 DEF RowsAndLocks, OnboardingIsConsistent
  <2>4. \A v \in Users : /\ users'[v].tier = 0 <=> users'[v].nullifier = "none"
                         /\ users'[v].tier = 0 <=> users'[v].agent = "none"
                         /\ users'[v].tier = 2 <=> Stored(v)' # {}
                         /\ users'[v].agent = "active" => Unrevoked(v)' # {}
    BY <1>6, <2>1, <2>2, <2>3 DEF RowsAndLocks, OnboardingIsConsistent
  <2>5. \A v \in Users : users'[v].nullifier = users[v].nullifier
    BY <1>6
  <2> QED
    BY <2>4, <2>5 DEF RowsAndLocks, OnboardingIsConsistent
<1> QED
  BY <1>7, <1>8, <1>9, <1>10 DEF RowsAndLocks, LocksInv

\* What a revocation stores.
LEMMA RevocationStores ==
  ASSUME TypeOK, RowsAndLocks, NEW s \in Sessions, CommitRevocation(s)
  PROVE  \E m \in Draft, u \in Users :
            /\ m = Target(s) /\ u = drafts[m].user /\ mandates[m].status # "none"
            /\ mandates'[m].status = "revoked"
            /\ \A e \in Draft \ {m} : mandates'[e] = mandates[e]
            /\ users'[u].agent = "revoked"
            /\ users'[u].tier = users[u].tier /\ users'[u].nullifier = users[u].nullifier
            /\ \A v \in Users \ {u} : users'[v] = users[v]
            /\ \A e \in Draft : /\ drafts'[e].user = drafts[e].user
                                /\ drafts[e].user # u => drafts'[e] = drafts[e]
                                /\ drafts[e].user = u => drafts'[e].status = "consumed"
            /\ \A r \in RevocationDrafts :
                  /\ rdrafts'[r].mandate = rdrafts[r].mandate
                  /\ rdrafts'[r].status = "none" <=> rdrafts[r].status = "none"
<1>1. PICK r \in RevocationDrafts, m \in Draft, u \in Users :
         /\ r = work[s].rdraft /\ m = Target(s) /\ u = drafts[Target(s)].user
         /\ mandates[m].status # "none"
  BY TargetIsMandated DEF CommitRevocation, RowsAndLocks
<1>2. /\ mandates' = [mandates EXCEPT ![m].status = "revoked"]
      /\ users' = [users EXCEPT ![u].agent = "revoked"]
      /\ rdrafts' = [rdrafts EXCEPT ![r].status = "consumed"]
      /\ drafts' = [d \in Draft |-> IF d \in CascadeDrafts(u)
                                    THEN [drafts[d] EXCEPT !.status = "consumed"]
                                    ELSE drafts[d]]
  BY <1>1 DEF CommitRevocation
<1>3. /\ mandates'[m].status = "revoked"
      /\ \A e \in Draft \ {m} : mandates'[e] = mandates[e]
  BY <1>2 DEF TypeOK, Mandate
<1>4. /\ users'[u].agent = "revoked"
      /\ users'[u].tier = users[u].tier /\ users'[u].nullifier = users[u].nullifier
      /\ \A v \in Users \ {u} : users'[v] = users[v]
  BY <1>2 DEF TypeOK, User
<1>5. \A e \in Draft : /\ drafts'[e].user = drafts[e].user
                       /\ drafts[e].user # u => drafts'[e] = drafts[e]
                       /\ drafts[e].user = u => drafts'[e].status = "consumed"
  BY <1>2 DEF CascadeDrafts, TypeOK, MandateDraft
<1>6. \A q \in RevocationDrafts : /\ rdrafts'[q].mandate = rdrafts[q].mandate
                                  /\ rdrafts'[q].status = "none" <=> rdrafts[q].status = "none"
  <2>1. rdrafts[r].status # "none"
    BY <1>1 DEF CommitRevocation, RowsAndLocks, LocksInv, WorkIsCurrent
  <2> QED
    BY <1>2, <2>1 DEF TypeOK, RevocationDraft
<1> QED
  BY <1>1, <1>3, <1>4, <1>5, <1>6

\* A revocation waits for the drafts and the step-ups that others have locked.
LEMMA RevocationKeepsRows ==
  ASSUME TypeOK, RowsAndLocks, NEW s \in Sessions, CommitRevocation(s)
  PROVE  RowsAndLocks'
<1>0. Idle \in Work \cup {Idle} /\ Idle.kind = "idle"
  BY DEF Idle
<1>1. PICK m \in Draft, u \in Users :
         /\ m = Target(s) /\ u = drafts[m].user /\ mandates[m].status # "none"
         /\ mandates'[m].status = "revoked"
         /\ \A e \in Draft \ {m} : mandates'[e] = mandates[e]
         /\ users'[u].agent = "revoked"
         /\ users'[u].tier = users[u].tier /\ users'[u].nullifier = users[u].nullifier
         /\ \A v \in Users \ {u} : users'[v] = users[v]
         /\ \A e \in Draft : /\ drafts'[e].user = drafts[e].user
                             /\ drafts[e].user # u => drafts'[e] = drafts[e]
                             /\ drafts[e].user = u => drafts'[e].status = "consumed"
         /\ \A r \in RevocationDrafts :
               /\ rdrafts'[r].mandate = rdrafts[r].mandate
               /\ rdrafts'[r].status = "none" <=> rdrafts[r].status = "none"
  BY RevocationStores
<1>2. /\ LocksAreExclusive' /\ work'[s] = Idle
      /\ \A q \in Sessions \ {s} : work'[q] = work[q]
  BY <1>0, LocksChange DEF RowsAndLocks, LocksInv, CommitRevocation, Ends
<1>3. ASSUME NEW q \in Sessions \ {s} PROVE WorkIsCurrent(q)'
  <2>1. work'[q] = work[q] /\ WorkIsCurrent(q)
    BY <1>2 DEF RowsAndLocks, LocksInv
  <2>2. ASSUME work[q].kind = "sign_mandate"
        PROVE  /\ drafts'[work[q].draft].status \in {"open", "lapsed"}
               /\ users'[drafts'[work[q].draft].user].agent \in {"pending_mandate", "active"}
    <3>1. PICK e \in Draft : e = work[q].draft
      BY <2>2, KindOfWork DEF Submission
    <3>2. /\ drafts[e].status \in {"open", "lapsed"} /\ drafts[e].user \in Users
          /\ users[drafts[e].user].agent \in {"pending_mandate", "active"}
      BY <2>1, <2>2, <3>1 DEF WorkIsCurrent, RowsAndLocks, RowsInv, DraftsAreUsedUp
    <3>3. drafts[e].user # u
      BY <1>1, <2>2, <3>1, <3>2
         DEF CommitRevocation, CascadeDrafts, DraftUnlocked, LocksDraft
    <3> QED
      BY <1>1, <3>1, <3>2, <3>3
  <2>3. ASSUME work[q].kind = "revoke"
        PROVE  rdrafts'[work[q].rdraft].status # "none"
    <3>1. work[q].rdraft \in RevocationDrafts
      BY <2>3, KindOfWork DEF Revocation
    <3> QED
      BY <1>1, <2>1, <2>3, <3>1 DEF WorkIsCurrent
  <2>4. ASSUME work[q].kind \in {"sign", "reject"}
        PROVE  stepups'[work[q].stepup].status = "pending"
    <3>1. PICK x \in StepUps : x = work[q].stepup
      BY <2>4, KindOfWork DEF Answer
    <3>2. stepups[x].status = "pending"
      BY <2>1, <2>4, <3>1 DEF WorkIsCurrent
    <3>3. x \notin CascadeStepUps(m)
      BY <1>1, <2>4, <3>1 DEF CommitRevocation, StepUpUnlocked, LocksStepUp
    <3>4. stepups'[x] = stepups[x]
      BY <1>1, <3>3 DEF CommitRevocation
    <3> QED
      BY <3>1, <3>2, <3>4
  <2> QED
    BY <2>1, <2>2, <2>3, <2>4 DEF WorkIsCurrent
<1>4. WorkIsCurrent(s)'
  BY <1>0, <1>2 DEF WorkIsCurrent
<1>5. RowsInv'
  <2>1. DraftsAreUsedUp'
    <3>1. ASSUME NEW d \in Draft
          PROVE  /\ drafts'[d].status # "none" => drafts'[d].user \in Users
                 /\ mandates'[d].status # "none" => drafts'[d].status = "consumed"
      BY <1>1 DEF RowsAndLocks, RowsInv, DraftsAreUsedUp
    <3> QED
      BY <3>1 DEF DraftsAreUsedUp
  <2>2. RevocationsHaveTargets'
    BY <1>1 DEF RowsAndLocks, RowsInv, RevocationsHaveTargets
  <2> QED
    BY <2>1, <2>2 DEF RowsInv
<1>6. OnboardingIsConsistent'
  <2>1. \A v \in Users : Stored(v)' = Stored(v)
    BY <1>1 DEF Stored
  <2>2. \A v \in Users \ {u} : Unrevoked(v)' = Unrevoked(v)
    BY <1>1 DEF Unrevoked
  <2>3. users[u].tier # 0
    <3>1. m \in Stored(u)
      BY <1>1 DEF Stored
    <3> QED
      BY <3>1 DEF RowsAndLocks, OnboardingIsConsistent
  <2>4. \A v \in Users : users'[v].nullifier = users[v].nullifier /\ users'[v].tier = users[v].tier
    BY <1>1
  <2>5. ASSUME NEW v \in Users
        PROVE  /\ users'[v].tier = 0 <=> users'[v].nullifier = "none"
               /\ users'[v].tier = 0 <=> users'[v].agent = "none"
               /\ users'[v].tier = 2 <=> Stored(v)' # {}
               /\ users'[v].agent = "active" => Unrevoked(v)' # {}
    BY <1>1, <2>1, <2>2, <2>3, <2>4 DEF RowsAndLocks, OnboardingIsConsistent
  <2> QED
    BY <2>4, <2>5 DEF RowsAndLocks, OnboardingIsConsistent
<1> QED
  BY <1>2, <1>3, <1>4, <1>5, <1>6 DEF RowsAndLocks, LocksInv

LEMMA MandateKeepsRows ==
  ASSUME TypeOK, RowsAndLocks, NEW s \in Sessions, MandateNext(s) PROVE RowsAndLocks'
<1>1. ASSUME NEW d \in Draft, VerifyMandateSignature(s, d) PROVE RowsAndLocks'
  <2>1. PICK w \in Work \cup {Idle} : w = [kind |-> "sign_mandate", draft |-> d]
    BY DEF Work, Submission
  <2>2. /\ w.kind = "sign_mandate" /\ w.draft = d /\ work' = [work EXCEPT ![s] = w]
        /\ DraftUnlocked(d) /\ drafts[d].status = "open"
        /\ users[drafts[d].user].agent = "pending_mandate"
        /\ UNCHANGED <<users, drafts, mandates, rdrafts, stepups>>
    BY <1>1, <2>1 DEF VerifyMandateSignature, Starts, Mandatable
  <2> QED
    BY <2>2, SessionMovesOn
<1>2. ASSUME NEW r \in RevocationDrafts, SubmitRevocation(s, r) PROVE RowsAndLocks'
  <2>1. /\ rdrafts[r].status = "open"
        /\ UNCHANGED <<users, drafts, mandates, stepups>>
    BY <1>2 DEF SubmitRevocation
  <2>2. CASE rdrafts' = [rdrafts EXCEPT ![r].status = "consumed"] /\ UNCHANGED work
    <3>1. \A p \in RevocationDrafts : /\ rdrafts'[p].mandate = rdrafts[p].mandate
                                      /\ rdrafts'[p].status = "none" <=> rdrafts[p].status = "none"
      BY <2>1, <2>2 DEF TypeOK, RevocationDraft
    <3>2. \A q \in Sessions : WorkIsCurrent(q)'
      <4>1. \A q \in Sessions : work[q].kind = "revoke" => work[q].rdraft \in RevocationDrafts
        BY KindOfWork DEF Revocation
      <4> QED
        BY <2>1, <2>2, <3>1, <4>1 DEF RowsAndLocks, LocksInv, WorkIsCurrent
    <3>3. LocksAreExclusive'
      BY <2>2 DEF RowsAndLocks, LocksInv, LocksAreExclusive, LocksDraft, LocksStepUp
    <3>4. RowsInv'
      BY <2>1, <3>1 DEF RowsAndLocks, RowsInv, DraftsAreUsedUp, RevocationsHaveTargets
    <3> QED
      BY <2>1, <3>2, <3>3, <3>4, StagesStay DEF RowsAndLocks, LocksInv
  <2>3. CASE /\ Starts(s, [kind |-> "revoke", rdraft |-> r, flushed |-> FALSE])
             /\ UNCHANGED rdrafts
    <3>1. PICK w \in Work \cup {Idle} : w = [kind |-> "revoke", rdraft |-> r, flushed |-> FALSE]
      BY DEF Work, Revocation
    <3>2. w.kind = "revoke" /\ w.rdraft = r /\ work' = [work EXCEPT ![s] = w]
      BY <2>3, <3>1 DEF Starts
    <3> QED
      BY <2>1, <2>3, <3>2, SessionMovesOn
  <2> QED
    BY <1>2, <2>2, <2>3 DEF SubmitRevocation
<1>3. CASE Flush(s)
  <2>1. work[s] \in Revocation
    BY <1>3, KindOfWork DEF Flush
  <2>2. PICK w \in Work \cup {Idle} : w = [work[s] EXCEPT !.flushed = TRUE]
    BY <2>1 DEF Work, Revocation
  <2>3. /\ w.kind = "revoke" /\ w.rdraft = work[s].rdraft /\ work' = [work EXCEPT ![s] = w]
        /\ UNCHANGED <<users, drafts, mandates, rdrafts, stepups>>
    BY <1>3, <2>1, <2>2 DEF Flush, Revocation
  <2>4. rdrafts[w.rdraft].status # "none"
    BY <1>3, <2>3 DEF Flush, RowsAndLocks, LocksInv, WorkIsCurrent
  <2> QED
    BY <2>3, <2>4, SessionMovesOn
<1> QED
  BY <1>1, <1>2, <1>3, SubmissionKeepsRows, RevocationKeepsRows DEF MandateNext

LEMMA OutsideKeepsRows ==
  ASSUME TypeOK, RowsAndLocks, Outside PROVE RowsAndLocks'
<1>1. UNCHANGED work
  BY DEF Outside, VerifySelf, UpgradeUserToTier1, CreateDraft, DraftExpires, MandateExpires,
         RevocationDraftExpires, CreateRevocationDraft, StepUpFallsDue, Midnight
<1>2. LocksAreExclusive'
  BY <1>1 DEF RowsAndLocks, LocksInv, LocksAreExclusive, LocksDraft, LocksStepUp
<1>3. \A q \in Sessions : /\ work[q].kind = "sign_mandate" => work[q].draft \in Draft
                          /\ work[q].kind = "revoke" => work[q].rdraft \in RevocationDrafts
                          /\ work[q].kind \in {"sign", "reject"} => work[q].stepup \in StepUps
  BY KindOfWork DEF Submission, Revocation, Answer
<1>4. ASSUME NEW u \in Users, VerifySelf(u) PROVE RowsAndLocks'
  <2>1. PICK n \in Nullifiers : UpgradeUserToTier1(u, n)
    BY <1>4 DEF VerifySelf
  <2>2. /\ users[u].tier = 0 /\ users'[u].tier = 1 /\ users'[u].nullifier = n
        /\ users'[u].agent = "pending_mandate"
        /\ \A v \in Users \ {u} : users'[v] = users[v]
        /\ UNCHANGED <<drafts, mandates, rdrafts, stepups>>
    BY <2>1 DEF UpgradeUserToTier1, TypeOK
  <2>3. RowsInv'
    BY <2>2 DEF RowsAndLocks, RowsInv, DraftsAreUsedUp, RevocationsHaveTargets
  <2>4. ASSUME NEW q \in Sessions PROVE WorkIsCurrent(q)'
    <3>1. work[q].kind = "sign_mandate" => drafts[work[q].draft].user \in Users \ {u}
      BY <1>3, <2>2 DEF RowsAndLocks, RowsInv, DraftsAreUsedUp, LocksInv, WorkIsCurrent,
                        OnboardingIsConsistent
    <3> QED
      BY <1>1, <2>2, <3>1 DEF RowsAndLocks, LocksInv, WorkIsCurrent
  <2>5. OnboardingIsConsistent'
    <3>1. \A v \in Users : Stored(v)' = Stored(v) /\ Unrevoked(v)' = Unrevoked(v)
      BY <2>2 DEF Stored, Unrevoked
    <3>2. n # "none"
      BY SetsAssumption
    <3>3. \A v \in Users : /\ users'[v].tier = 0 <=> users'[v].nullifier = "none"
                           /\ users'[v].tier = 0 <=> users'[v].agent = "none"
                           /\ users'[v].tier = 2 <=> Stored(v)' # {}
                           /\ users'[v].agent = "active" => Unrevoked(v)' # {}
      BY <2>2, <3>1, <3>2 DEF RowsAndLocks, OnboardingIsConsistent
    <3>4. \A v \in Users \ {u} : users[v].nullifier # n
      BY <2>1 DEF UpgradeUserToTier1, Collision
    <3>5. \A v, z \in Users : v # z /\ users'[v].nullifier # "none"
                                => users'[v].nullifier # users'[z].nullifier
      BY <2>2, <3>4 DEF RowsAndLocks, OnboardingIsConsistent
    <3> QED
      BY <3>3, <3>5 DEF OnboardingIsConsistent
  <2> QED
    BY <1>2, <2>3, <2>4, <2>5 DEF RowsAndLocks, LocksInv
<1>5. ASSUME UNCHANGED users,
             \A d \in Draft : /\ mandates'[d].status = mandates[d].status
                              /\ drafts'[d].status = "none" => drafts[d].status = "none"
                              /\ drafts'[d].status # "none" => drafts'[d].user \in Users
                              /\ drafts[d].status # "none" => drafts'[d].user = drafts[d].user
                              /\ drafts[d].status = "consumed" => drafts'[d].status = "consumed"
                              /\ drafts[d].status \in {"open", "lapsed"}
                                   => drafts'[d].status \in {"open", "lapsed"},
             \A r \in RevocationDrafts :
                /\ rdrafts[r].status # "none" => rdrafts'[r].status # "none"
                /\ rdrafts'[r].status # "none" =>
                      /\ rdrafts'[r].mandate \in Draft
                      /\ mandates[rdrafts'[r].mandate].status # "none",
             \A x \in StepUps : stepups'[x].status = stepups[x].status
      PROVE  RowsAndLocks'
  <2>1. DraftsAreUsedUp'
    BY <1>5 DEF RowsAndLocks, RowsInv, DraftsAreUsedUp
  <2>2. RevocationsHaveTargets'
    BY <1>5 DEF RevocationsHaveTargets
  <2>3. \A d \in Draft : mandates[d].status # "none" => drafts'[d].user = drafts[d].user
    BY <1>5 DEF RowsAndLocks, RowsInv, DraftsAreUsedUp
  <2>4. OnboardingIsConsistent'
    BY <1>5, <2>3, StagesStay DEF RowsAndLocks
  <2>5. ASSUME NEW q \in Sessions PROVE WorkIsCurrent(q)'
    BY <1>1, <1>3, <1>5 DEF RowsAndLocks, LocksInv, WorkIsCurrent
  <2> QED
    BY <1>2, <2>1, <2>2, <2>4, <2>5 DEF RowsAndLocks, RowsInv, LocksInv
<1>6. \A d \in Draft : drafts[d].status # "none" => drafts[d].user \in Users
  BY DEF RowsAndLocks, RowsInv, DraftsAreUsedUp
<1>7. \A r \in RevocationDrafts :
         rdrafts[r].status # "none" => /\ rdrafts[r].mandate \in Draft
                                       /\ mandates[rdrafts[r].mandate].status # "none"
  BY DEF RowsAndLocks, RowsInv, RevocationsHaveTargets
<1>8. ASSUME NEW u \in Users, NEW d \in Draft, CreateDraft(u, d) PROVE RowsAndLocks'
  <2>1. /\ drafts[d].status = "none" /\ drafts'[d].status = "open" /\ drafts'[d].user = u
        /\ \A e \in Draft \ {d} : drafts'[e] = drafts[e]
        /\ UNCHANGED <<users, mandates, rdrafts, stepups>>
    BY <1>8 DEF CreateDraft, TypeOK
  <2> QED
    BY <1>5, <1>6, <1>7, <2>1
<1>9. ASSUME NEW d \in Draft, DraftExpires(d) PROVE RowsAndLocks'
  <2>1. /\ drafts[d].status = "open" /\ drafts'[d].status = "lapsed"
        /\ drafts'[d].user = drafts[d].user
        /\ \A e \in Draft \ {d} : drafts'[e] = drafts[e]
        /\ UNCHANGED <<users, mandates, rdrafts, stepups>>
    BY <1>9 DEF DraftExpires, TypeOK, MandateDraft
  <2> QED
    BY <1>5, <1>6, <1>7, <2>1
<1>10. ASSUME NEW d \in Draft, MandateExpires(d) PROVE RowsAndLocks'
  <2>1. /\ \A e \in Draft : mandates'[e].status = mandates[e].status
        /\ UNCHANGED <<users, drafts, rdrafts, stepups>>
    BY <1>10 DEF MandateExpires, TypeOK, Mandate
  <2> QED
    BY <1>5, <1>6, <1>7, <2>1
<1>11. CASE Midnight
  <2>1. /\ \A e \in Draft : mandates'[e].status = mandates[e].status
        /\ UNCHANGED <<users, drafts, rdrafts, stepups>>
    BY <1>11 DEF Midnight, TypeOK, Mandate
  <2> QED
    BY <1>5, <1>6, <1>7, <2>1
<1>12. ASSUME NEW r \in RevocationDrafts, RevocationDraftExpires(r) PROVE RowsAndLocks'
  <2>1. /\ rdrafts[r].status = "open" /\ rdrafts'[r].status = "lapsed"
        /\ rdrafts'[r].mandate = rdrafts[r].mandate
        /\ \A p \in RevocationDrafts \ {r} : rdrafts'[p] = rdrafts[p]
        /\ UNCHANGED <<users, drafts, mandates, stepups>>
    BY <1>12 DEF RevocationDraftExpires, TypeOK, RevocationDraft
  <2> QED
    BY <1>5, <1>6, <1>7, <2>1
<1>13. ASSUME NEW r \in RevocationDrafts, NEW d \in Draft, CreateRevocationDraft(r, d)
       PROVE  RowsAndLocks'
  <2>1. /\ mandates[d].status = "signed" /\ rdrafts[r].status = "none"
        /\ rdrafts'[r].status = "open" /\ rdrafts'[r].mandate = d
        /\ \A p \in RevocationDrafts \ {r} : rdrafts'[p] = rdrafts[p]
        /\ UNCHANGED <<users, drafts, mandates, stepups>>
    BY <1>13 DEF CreateRevocationDraft, TypeOK
  <2> QED
    BY <1>5, <1>6, <1>7, <2>1
<1>14. ASSUME NEW x \in StepUps, StepUpFallsDue(x) PROVE RowsAndLocks'
  <2>1. /\ \A y \in StepUps : stepups'[y].status = stepups[y].status
        /\ UNCHANGED <<users, drafts, mandates, rdrafts>>
    BY <1>14 DEF StepUpFallsDue, TypeOK, StepUp
  <2> QED
    BY <1>5, <1>6, <1>7, <2>1
<1> QED
  BY <1>4, <1>8, <1>9, <1>10, <1>11, <1>12, <1>13, <1>14 DEF Outside

-----------------------------------------------------------------------------
(***************************************************************************)
(* The counters of the verifier.                                           *)
(***************************************************************************)

CountersInv == RecordedIsBounded /\ CallsHaveRoom

\* No counter moves and no call begins.
LEMMA CountersStay ==
  ASSUME CountersInv, paid' = paid,
         \A d \in Draft : /\ mandates'[d].total = mandates[d].total
                          /\ mandates'[d].today = mandates[d].today
                          /\ mandates'[d].deals = mandates[d].deals,
         \A s \in Sessions : work'[s].kind = "call" => work'[s] = work[s]
  PROVE  CountersInv'
<1>1. RecordedIsBounded'
  BY DEF CountersInv, RecordedIsBounded
<1>2. CallsHaveRoom'
  BY DEF CountersInv, CallsHaveRoom, CallHasRoom
<1> QED
  BY <1>1, <1>2 DEF CountersInv

\* A call that is let through has room for its price.
LEMMA AuthorizeKeepsCounters ==
  ASSUME TypeOK, CountersInv, NEW s \in Sessions, NEW u \in Users, NEW price \in Prices,
         Authorize(s, u, price)
  PROVE  CountersInv'
<1>1. PICK d \in Draft :
         /\ d = ActiveMandate(u)
         /\ mandates' = [mandates EXCEPT ![d] = Refreshed(mandates[d])]
         /\ work' = [work EXCEPT ![s] = Authorized(u, price)]
         /\ Authorized(u, price) \in Work \cup {Idle}
         /\ UNCHANGED <<users, drafts, rdrafts, stepups, paid>>
  BY AuthorizeStores
<1>2. mandates[d] \in Mandate /\ price \in Nat
  BY CapsAssumption DEF TypeOK
<1>3. /\ mandates'[d] = Refreshed(mandates[d])
      /\ \A e \in Draft \ {d} : mandates'[e] = mandates[e]
      /\ work'[s] = Authorized(u, price)
      /\ \A q \in Sessions \ {s} : work'[q] = work[q]
  BY <1>1 DEF TypeOK
<1>4. RecordedIsBounded'
  <2>1. /\ mandates'[d].total = mandates[d].total
        /\ mandates'[d].today \in {0, mandates[d].today}
        /\ mandates'[d].deals \in {0, mandates[d].deals}
    BY <1>2, <1>3, RefreshedIsMandate DEF Today, DealsToday
  <2>2. DayCap \in Nat /\ DealsCap \in Nat
    BY CapsAssumption
  <2>3. \A e \in Draft : /\ mandates'[e].total <= TotalCap
                         /\ mandates'[e].total <= paid[e]
                         /\ mandates'[e].today <= DayCap
                         /\ mandates'[e].deals <= DealsCap
    BY <1>3, <2>1, <2>2 DEF CountersInv, RecordedIsBounded
  <2> QED
    BY <1>1, <2>3 DEF RecordedIsBounded
<1>5. CallsHaveRoom'
  <2>1. ASSUME Authorized(u, price).kind = "call"
        PROVE  CallHasRoom(Authorized(u, price))
    <3>1. WithinLimits(mandates[d], price)
      BY <1>1, <2>1 DEF Authorized, Idle
    <3>2. Authorized(u, price) =
             [kind |-> "call", mandate |-> d, price |-> price, today |-> Today(mandates[d]),
              total |-> mandates[d].total, deals |-> DealsToday(mandates[d])]
      BY <1>1, <2>1 DEF Authorized, Idle
    <3>3. mandates[d].total <= paid[d]
      BY DEF CountersInv, RecordedIsBounded
    <3> QED
      BY <3>1, <3>2, <3>3 DEF CallHasRoom, WithinLimits
  <2>2. ASSUME NEW q \in Sessions, work'[q].kind = "call" PROVE CallHasRoom(work'[q])
    BY <1>3, <2>1, <2>2 DEF CountersInv, CallsHaveRoom
  <2> QED
    BY <1>1, <2>2 DEF CallsHaveRoom, CallHasRoom
<1> QED
  BY <1>4, <1>5 DEF CountersInv

\* What a call records is what it had room for, and was paid.
LEMMA RecordingKeepsCounters ==
  ASSUME TypeOK, CountersInv, NEW s \in Sessions, RecordUsage(s)
  PROVE  CountersInv'
<1>1. work[s] \in Call /\ work[s].kind = "call"
  BY KindOfWork DEF RecordUsage
<1>2. PICK d \in Draft, price \in Nat : d = work[s].mandate /\ price = work[s].price
  BY <1>1, CapsAssumption DEF Call
<1>3. /\ paid'[d] = paid[d] + price /\ \A e \in Draft \ {d} : paid'[e] = paid[e]
      /\ price = 0 => mandates' = mandates
      /\ price # 0 => mandates'[d] = Counted(work[s])
      /\ \A e \in Draft \ {d} : mandates'[e] = mandates[e]
      /\ work'[s] = Idle /\ \A q \in Sessions \ {s} : work'[q] = work[q]
  BY <1>2 DEF RecordUsage, Ends, TypeOK
<1>4. \A e \in Draft : paid[e] \in Nat /\ paid'[e] \in Nat /\ paid[e] <= paid'[e]
  BY <1>2, <1>3 DEF TypeOK
<1>5. RecordedIsBounded'
  <2>1. ASSUME price # 0
        PROVE  /\ mandates'[d].total <= TotalCap
               /\ mandates'[d].total <= paid'[d]
               /\ mandates'[d].today <= DayCap
               /\ mandates'[d].deals <= DealsCap
    <3>1. CallHasRoom(work[s])
      BY <1>1 DEF CountersInv, CallsHaveRoom
    <3>2. /\ mandates'[d].today = work[s].today + price
          /\ mandates'[d].total = work[s].total + price
          /\ mandates'[d].deals = work[s].deals + 1
      BY <1>1, <1>2, <1>3, <2>1, CountedIsMandate
    <3>3. /\ work[s].today \in Nat /\ work[s].total \in Nat /\ work[s].deals \in Nat
          /\ DealsCap \in Nat /\ paid[d] \in Nat
      BY <1>1, CapsAssumption DEF Call, TypeOK
    <3> QED
      BY <1>2, <1>3, <2>1, <3>1, <3>2, <3>3 DEF CallHasRoom
  <2>2. ASSUME NEW e \in Draft, e # d \/ price = 0
        PROVE  /\ mandates'[e].total <= TotalCap
               /\ mandates'[e].total <= paid'[e]
               /\ mandates'[e].today <= DayCap
               /\ mandates'[e].deals <= DealsCap
    <3>1. mandates'[e] = mandates[e] /\ mandates[e].total \in Nat
      BY <1>3, <2>2 DEF TypeOK, Mandate
    <3> QED
      BY <1>4, <3>1 DEF CountersInv, RecordedIsBounded
  <2> QED
    BY <2>1, <2>2 DEF RecordedIsBounded
<1>6. CallsHaveRoom'
  <2>1. ASSUME NEW q \in Sessions, work'[q].kind = "call"
        PROVE  /\ work'[q].total <= paid'[work'[q].mandate]
               /\ work'[q].price # 0 => /\ work'[q].today + work'[q].price <= DayCap
                                        /\ work'[q].total + work'[q].price <= TotalCap
                                        /\ work'[q].deals < DealsCap
    <3>1. work'[q] = work[q] /\ work[q].kind = "call"
      BY <1>3, <2>1 DEF Idle
    <3>2. CallHasRoom(work[q]) /\ work[q] \in Call
      BY <3>1, KindOfWork DEF CountersInv, CallsHaveRoom
    <3>3. work[q].total \in Nat /\ work[q].mandate \in Draft
      BY <3>2 DEF Call
    <3> QED
      BY <1>4, <3>1, <3>2, <3>3 DEF CallHasRoom
  <2> QED
    BY <2>1 DEF CallsHaveRoom, CallHasRoom
<1> QED
  BY <1>5, <1>6 DEF CountersInv

LEMMA SessionKeepsCounters ==
  ASSUME TypeOK, RowsAndLocks, CountersInv, NEW s \in Sessions,
         MandateNext(s) \/ CallNext(s) \/ StepUpNext(s) \/ Fail(s)
  PROVE  CountersInv'
<1>1. ASSUME NEW d \in Draft, VerifyMandateSignature(s, d) PROVE CountersInv'
  BY <1>1, CountersStay DEF VerifyMandateSignature, Starts, TypeOK
<1>2. CASE SubmitSignedMandate(s)
  BY <1>2, CountersStay DEF SubmitSignedMandate, Ends, Idle, TypeOK, Mandate
<1>3. ASSUME NEW r \in RevocationDrafts, SubmitRevocation(s, r) PROVE CountersInv'
  BY <1>3, CountersStay DEF SubmitRevocation, Starts, TypeOK
<1>4. CASE Flush(s)
  <2>1. work[s] \in Revocation
    BY <1>4, KindOfWork DEF Flush
  <2> QED
    BY <1>4, <2>1, CountersStay DEF Flush, Revocation, TypeOK
<1>5. CASE CommitRevocation(s)
  <2>1. UNCHANGED paid /\ \A q \in Sessions : work'[q].kind = "call" => work'[q] = work[q]
    BY <1>5 DEF CommitRevocation, Ends, Idle, TypeOK
  <2>2. Target(s) \in Draft
    BY <1>5, TargetIsMandated DEF CommitRevocation, RowsAndLocks
  <2>3. mandates' = [mandates EXCEPT ![Target(s)].status = "revoked"]
    BY <1>5 DEF CommitRevocation
  <2> QED
    BY <2>1, <2>2, <2>3, CountersStay DEF TypeOK, Mandate
<1>6. CASE QueueStepUp(s)
  <2>1. PICK w : w.kind # "call" /\ work' = [work EXCEPT ![s] = w]
    BY <1>6 DEF QueueStepUp, Idle
  <2> QED
    BY <1>6, <2>1, CountersStay DEF QueueStepUp, TypeOK
<1>7. ASSUME NEW x \in StepUps,
             \/ CreatePendingRequest(s, x) \/ GetForSigning(s, x)
             \/ LoadPending(s, x, "sign") \/ LoadPending(s, x, "reject")
      PROVE  CountersInv'
  BY <1>7, CountersStay
     DEF CreatePendingRequest, GetForSigning, LoadPending, Starts, Ends, Idle, TypeOK
<1>8. CASE Sign(s) \/ Reject(s) \/ ExpireOnLoad(s) \/ Fail(s)
  BY <1>8, CountersStay DEF Sign, Reject, ExpireOnLoad, Resolve, Fail, Ends, Idle, TypeOK
<1> QED
  BY <1>1, <1>2, <1>3, <1>4, <1>5, <1>6, <1>7, <1>8, AuthorizeKeepsCounters,
     RecordingKeepsCounters DEF MandateNext, CallNext, StepUpNext

LEMMA OutsideKeepsCounters ==
  ASSUME TypeOK, CountersInv, Outside PROVE CountersInv'
<1>1. UNCHANGED <<work, paid>>
  BY DEF Outside, VerifySelf, UpgradeUserToTier1, CreateDraft, DraftExpires, MandateExpires,
         RevocationDraftExpires, CreateRevocationDraft, StepUpFallsDue, Midnight
<1>2. ASSUME UNCHANGED mandates PROVE CountersInv'
  BY <1>1, <1>2, CountersStay
<1>3. ASSUME NEW d \in Draft, MandateExpires(d) PROVE CountersInv'
  BY <1>1, <1>3, CountersStay DEF MandateExpires, TypeOK, Mandate
<1>4. CASE Midnight
  BY <1>1, <1>4, CountersStay DEF Midnight, TypeOK, Mandate
<1> QED
  BY <1>2, <1>3, <1>4 DEF Outside, VerifySelf, UpgradeUserToTier1, CreateDraft, DraftExpires,
     RevocationDraftExpires, CreateRevocationDraft, StepUpFallsDue

-----------------------------------------------------------------------------
(***************************************************************************)
(* The invariant and the theorems.                                         *)
(***************************************************************************)

Inv == TypeOK /\ RowsAndLocks /\ CountersInv

LEMMA NextIsSessionOrOutside ==
  ASSUME Next
  PROVE  \/ Outside
         \/ \E s \in Sessions : MandateNext(s) \/ CallNext(s) \/ StepUpNext(s) \/ Fail(s)
  BY DEF Next, Outside

LEMMA InitInv == Init => Inv
<1> SUFFICES ASSUME Init PROVE Inv
  OBVIOUS
<1>1. TypeOK
  BY CapsAssumption DEF Init, TypeOK, User, MandateDraft, Mandate, RevocationDraft, StepUp,
     AgentStatus, StepUpStatus
<1>2. RowsInv
  BY DEF Init, RowsInv, DraftsAreUsedUp, RevocationsHaveTargets
<1>3. LocksInv
  BY DEF Init, LocksInv, LocksAreExclusive, LocksDraft, LocksStepUp, WorkIsCurrent, Idle
<1>4. OnboardingIsConsistent
  BY DEF Init, OnboardingIsConsistent, Stored, Unrevoked
<1>5. CountersInv
  BY CapsAssumption DEF Init, CountersInv, RecordedIsBounded, CallsHaveRoom, Idle
<1> QED
  BY <1>1, <1>2, <1>3, <1>4, <1>5 DEF Inv, RowsAndLocks

LEMMA NextInv == Inv /\ [Next]_vars => Inv'
<1> SUFFICES ASSUME Inv, [Next]_vars PROVE Inv'
  OBVIOUS
<1>1. CASE UNCHANGED vars
  <2>1. UNCHANGED <<users, drafts, mandates, rdrafts, stepups, work, paid>>
    BY <1>1 DEF vars
  <2>2. TypeOK'
    BY <2>1 DEF Inv, TypeOK
  <2>3. RowsInv' /\ LocksAreExclusive' /\ \A s \in Sessions : WorkIsCurrent(s)'
    BY <2>1 DEF Inv, RowsAndLocks, RowsInv, DraftsAreUsedUp, RevocationsHaveTargets, LocksInv,
                LocksAreExclusive, LocksDraft, LocksStepUp, WorkIsCurrent
  <2>4. OnboardingIsConsistent'
    BY <2>1, StagesStay DEF Inv, RowsAndLocks
  <2>5. CountersInv'
    BY <2>1, CountersStay DEF Inv
  <2> QED
    BY <2>2, <2>3, <2>4, <2>5 DEF Inv, RowsAndLocks, LocksInv
<1>2. CASE Outside
  BY <1>2, OutsideKeepsTypes, OutsideKeepsRows, OutsideKeepsCounters DEF Inv
<1>3. ASSUME NEW s \in Sessions, MandateNext(s) PROVE Inv'
  BY <1>3, MandateKeepsTypes, MandateKeepsRows, SessionKeepsCounters DEF Inv, RowsAndLocks
<1>4. ASSUME NEW s \in Sessions, CallNext(s) PROVE Inv'
  BY <1>4, CallKeepsTypes, CallKeepsRows, SessionKeepsCounters DEF Inv
<1>5. ASSUME NEW s \in Sessions, StepUpNext(s) \/ Fail(s) PROVE Inv'
  BY <1>5, StepUpKeepsTypes, StepUpKeepsRows, SessionKeepsCounters DEF Inv
<1> QED
  BY <1>1, <1>2, <1>3, <1>4, <1>5, NextIsSessionOrOutside

LEMMA Invariance == Spec => []Inv
  BY InitInv, NextInv, PTL DEF Spec

\* Every row and every request in flight has the type of its table.
THEOREM MandatesTypeCorrect == Spec => []TypeOK
<1>1. Inv => TypeOK
  BY DEF Inv
<1> QED
  BY <1>1, Invariance, PTL

\* Identity, tier, agent and mandate of a user agree, and no identity is used
\* twice, for any number of users and of overlapping requests.
THEOREM OnboardingConsistent == Spec => []OnboardingIsConsistent
<1>1. Inv => OnboardingIsConsistent
  BY DEF Inv, RowsAndLocks
<1> QED
  BY <1>1, Invariance, PTL

\* The verifier records within the caps, and only what was paid, for any caps
\* and any number of overlapping calls.
THEOREM RecordedBounded == Spec => []RecordedIsBounded
<1>1. Inv => RecordedIsBounded
  BY DEF Inv, CountersInv
<1> QED
  BY <1>1, Invariance, PTL

\* A step of a session that leaves the statuses of mandates and users alone,
\* or signs a mandate that was never stored, or revokes one.
LEMMA RevocationStands ==
  ASSUME Inv, Next
  PROVE  /\ \A d \in Draft : mandates[d].status = "revoked" => mandates'[d].status = "revoked"
         /\ \A u \in Users : users[u].agent = "revoked" => users'[u].agent = "revoked"
<1> DEFINE Stands == /\ \A d \in Draft : mandates[d].status = "revoked"
                                           => mandates'[d].status = "revoked"
                     /\ \A u \in Users : users[u].agent = "revoked"
                                           => users'[u].agent = "revoked"
<1>0. TypeOK /\ RowsAndLocks
  BY DEF Inv
<1>1. ASSUME NEW s \in Sessions, SubmitSignedMandate(s) PROVE Stands
  <2>1. PICK d \in Draft : d = work[s].draft
    BY <1>0, <1>1, KindOfWork DEF SubmitSignedMandate, Submission
  <2>2. /\ drafts[d].status \in {"open", "lapsed"}
        /\ users[drafts[d].user].agent \in {"pending_mandate", "active"}
    BY <1>0, <1>1, <2>1 DEF SubmitSignedMandate, RowsAndLocks, LocksInv, WorkIsCurrent
  <2>3. mandates[d].status = "none"
    BY <1>0, <2>2 DEF RowsAndLocks, RowsInv, DraftsAreUsedUp
  <2>4. /\ mandates' = [mandates EXCEPT ![d].status = "signed"]
        /\ users' = [users EXCEPT ![drafts[d].user] = Mandated(users[drafts[d].user])]
    BY <1>1, <2>1 DEF SubmitSignedMandate
  <2>5. \A e \in Draft : mandates[e].status = "revoked" => mandates'[e].status = "revoked"
    BY <1>0, <2>3, <2>4 DEF TypeOK
  <2>6. \A u \in Users : users[u].agent = "revoked" => users'[u].agent = "revoked"
    BY <1>0, <2>2, <2>4 DEF TypeOK
  <2> QED
    BY <2>5, <2>6
<1>2. ASSUME NEW s \in Sessions, CommitRevocation(s) PROVE Stands
  BY <1>0, <1>2, RevocationStores
<1>3. ASSUME NEW s \in Sessions, NEW u \in Users, NEW price \in Prices, Authorize(s, u, price)
      PROVE  Stands
  <2>1. PICK d \in Draft : /\ mandates' = [mandates EXCEPT ![d] = Refreshed(mandates[d])]
                           /\ UNCHANGED users
    BY <1>0, <1>3, AuthorizeStores
  <2> QED
    BY <1>0, <2>1, RefreshedIsMandate DEF TypeOK
<1>4. ASSUME NEW s \in Sessions, RecordUsage(s) PROVE Stands
  <2>1. work[s] \in Call /\ work[s].mandate \in Draft
    BY <1>0, <1>4, KindOfWork DEF RecordUsage, Call
  <2> QED
    BY <1>0, <1>4, <2>1, CountedIsMandate DEF RecordUsage, TypeOK
<1>5. ASSUME NEW u \in Users, VerifySelf(u) PROVE Stands
  BY <1>0, <1>5 DEF VerifySelf, UpgradeUserToTier1, RowsAndLocks, OnboardingIsConsistent, TypeOK
<1>6. ASSUME Midnight \/ \E d \in Draft : MandateExpires(d) PROVE Stands
  BY <1>0, <1>6 DEF Midnight, MandateExpires, TypeOK, Mandate
<1>7. ASSUME UNCHANGED <<users, mandates>> PROVE Stands
  BY <1>7
<1> HIDE DEF Stands
<1>8. ASSUME NEW s \in Sessions, MandateNext(s) PROVE Stands
  BY <1>1, <1>2, <1>7, <1>8 DEF MandateNext, VerifyMandateSignature, SubmitRevocation, Flush
<1>9. ASSUME NEW s \in Sessions, CallNext(s) \/ StepUpNext(s) \/ Fail(s) PROVE Stands
  BY <1>3, <1>4, <1>7, <1>9
     DEF CallNext, QueueStepUp, CreatePendingRequest, StepUpNext, GetForSigning, LoadPending,
         Sign, Reject, ExpireOnLoad, Resolve, Fail
<1>10. ASSUME Outside PROVE Stands
  BY <1>5, <1>6, <1>7, <1>10
     DEF Outside, CreateDraft, DraftExpires, RevocationDraftExpires, CreateRevocationDraft,
         StepUpFallsDue
<1>11. Stands
  BY <1>8, <1>9, <1>10, NextIsSessionOrOutside
<1> QED
  BY <1>11 DEF Stands

\* Nothing undoes a revocation, for any number of users, drafts and requests
\* in flight: a signature that has passed its checks holds a draft the
\* revocation has to wait for.
THEOREM RevocationStays == Spec => RevocationIsFinal
<1>1. Inv /\ [Next]_vars =>
         [/\ \A d \in Draft : mandates[d].status = "revoked" => mandates'[d].status = "revoked"
          /\ \A u \in Users : users[u].agent = "revoked" => users'[u].agent = "revoked"]_vars
  BY RevocationStands
<1> QED
  BY <1>1, Invariance, PTL DEF Spec, RevocationIsFinal

=============================================================================
