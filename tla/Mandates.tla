------------------------------ MODULE Mandates ------------------------------
(***************************************************************************)
(* From an anonymous account to a mandated agent and back: the identity    *)
(* upgrade, mandate drafts and their signature, the verifier that counts   *)
(* what the agent spends, step-up requests, and the revocation that ends   *)
(* it (identity_service.py, mandate_service.py, mandate_verifier.py,       *)
(* step_up_service.py, mandate_revocation_service.py, tool_layer.py).      *)
(*                                                                         *)
(* A user has one agent.  A mandate has the id of its draft, and later     *)
(* drafts have greater ids, as they have later issue times.  A request     *)
(* locks the draft or the step-up it acts on and reads every other row     *)
(* without a lock; it writes when it commits, after the rows it writes     *)
(* have been released.  A revocation writes its rows one statement after   *)
(* the other: from Flush on it holds the user, the agent and the mandate.  *)
(***************************************************************************)
EXTENDS Integers, FiniteSets, FiniteSetsExt

CONSTANTS Users,
          Nullifiers,      \* what proofs of identity may reveal
          MaxDrafts,       \* mandate drafts are 1..MaxDrafts
          RevocationDrafts,
          StepUps,
          Sessions,        \* requests and agent ticks in flight at the same time
          Prices,          \* the prices agents tell the verifier, 0 for none
          DealCap,         \* max_price_per_deal_eur
          TotalCap,        \* max_total_volume_eur_per_mandate
          DayCap,          \* max_total_volume_eur_per_day
          DealsCap,        \* max_deals_per_day
          StepUpAbove      \* the step-up threshold of accept_offer

ASSUME SetsAssumption == /\ IsFiniteSet(Sessions)
                         /\ "none" \notin Nullifiers
ASSUME CapsAssumption == /\ Prices \subseteq Nat
                         /\ MaxDrafts \in Nat
                         /\ {DealCap, TotalCap, DayCap, DealsCap, StepUpAbove} \subseteq Nat \ {0}

VARIABLES users,      \* tier, nullifier, and the status of the user's agent
          drafts,     \* mandate_drafts
          mandates,   \* mandates, by the id of their draft
          rdrafts,    \* mandate_revocation_drafts
          stepups,    \* step_up_requests
          work,       \* what each session is doing
          paid        \* per mandate, what the agent has really agreed to pay

vars == <<users, drafts, mandates, rdrafts, stepups, work, paid>>

-----------------------------------------------------------------------------
Draft == 1..MaxDrafts
NoUser == "nobody"
AgentStatus == {"none", "pending_mandate", "active", "revoked"}
StepUpStatus == {"none", "pending", "approved", "rejected", "expired"}

Idle == [kind |-> "idle"]
Submission == [kind : {"sign_mandate"}, draft : Draft]
Revocation == [kind : {"revoke"}, rdraft : RevocationDrafts, flushed : BOOLEAN]
Call == [kind : {"call"}, mandate : Draft, price : Prices, today : Nat, total : Nat, deals : Nat]
Queueing == [kind : {"step_up"}, user : Users] \cup [kind : {"insert"}, mandate : Draft]
Answer == [kind : {"sign", "reject", "expire"}, stepup : StepUps]
Work == Submission \cup Revocation \cup Call \cup Queueing \cup Answer

User == [tier : 0..2, nullifier : Nullifiers \cup {"none"}, agent : AgentStatus]
MandateDraft == [status : {"none", "open", "lapsed", "consumed"}, user : Users \cup {NoUser}]
Mandate == [status : {"none", "signed", "revoked"}, lapsed : BOOLEAN,
            today : Nat, total : Nat, deals : Nat, reset : BOOLEAN]
RevocationDraft == [status : {"none", "open", "lapsed", "consumed"}, mandate : 0..MaxDrafts]
StepUp == [status : StepUpStatus, mandate : 0..MaxDrafts, due : BOOLEAN]

TypeOK ==
    /\ users \in [Users -> User]
    /\ drafts \in [Draft -> MandateDraft]
    /\ mandates \in [Draft -> Mandate]
    /\ rdrafts \in [RevocationDrafts -> RevocationDraft]
    /\ stepups \in [StepUps -> StepUp]
    /\ work \in [Sessions -> Work \cup {Idle}]
    /\ paid \in [Draft -> Nat]

Init ==
    /\ users = [u \in Users |-> [tier |-> 0, nullifier |-> "none", agent |-> "none"]]
    /\ drafts = [d \in Draft |-> [status |-> "none", user |-> NoUser]]
    /\ mandates = [d \in Draft |-> [status |-> "none", lapsed |-> FALSE,
                                    today |-> 0, total |-> 0, deals |-> 0, reset |-> TRUE]]
    /\ rdrafts = [r \in RevocationDrafts |-> [status |-> "none", mandate |-> 0]]
    /\ stepups = [x \in StepUps |-> [status |-> "none", mandate |-> 0, due |-> FALSE]]
    /\ work = [s \in Sessions |-> Idle]
    /\ paid = [d \in Draft |-> 0]

-----------------------------------------------------------------------------
(* Row locks.                                                              *)

LocksDraft(s, d) == work[s].kind = "sign_mandate" /\ work[s].draft = d
LocksStepUp(s, x) == work[s].kind \in {"sign", "reject"} /\ work[s].stepup = x
LocksRevocation(s, r) == work[s].kind = "revoke" /\ work[s].rdraft = r

Target(s) == rdrafts[work[s].rdraft].mandate

\* A revocation under way holds the rows of this user.
Revoking(s, u) ==
    /\ work[s].kind = "revoke"
    /\ work[s].flushed
    /\ drafts[Target(s)].user = u

UserFree(u) == \A s \in Sessions : ~Revoking(s, u)

Starts(s, w) == /\ work[s] = Idle
                /\ work' = [work EXCEPT ![s] = w]

Ends(s) == work' = [work EXCEPT ![s] = Idle]

-----------------------------------------------------------------------------
(* Tier 1.                                                                 *)

\* Mutant: the nullifier is not looked up, and has no unique index.
Collision_Never(n) == FALSE

Collision(n) == \E v \in Users : users[v].nullifier = n

\* A second proof of the same user changes nothing; a nullifier that is taken
\* is refused by the check or, when two users race, by the unique index.
UpgradeUserToTier1(u, n) ==
    /\ UserFree(u)
    /\ users[u].tier = 0
    /\ ~Collision(n)
    /\ users' = [users EXCEPT ![u] = [tier |-> 1, nullifier |-> n, agent |-> "pending_mandate"]]
    /\ UNCHANGED <<drafts, mandates, rdrafts, stepups, work, paid>>

\* The external verifier accepts a proof and reveals its nullifier, or the
\* request fails.  Nothing is read from the database before it answers.
VerifySelf(u) == \E n \in Nullifiers : UpgradeUserToTier1(u, n)

-----------------------------------------------------------------------------
(* Tier 2.                                                                 *)

Mandatable(u) == users[u].tier < 2 /\ users[u].agent = "pending_mandate"

CreateDraft(u, d) ==
    /\ Mandatable(u)
    /\ drafts[d].status = "none"
    /\ \A e \in Draft : e < d => drafts[e].status # "none"
    /\ drafts' = [drafts EXCEPT ![d] = [status |-> "open", user |-> u]]
    /\ UNCHANGED <<users, mandates, rdrafts, stepups, work, paid>>

DraftExpires(d) ==
    /\ drafts[d].status = "open"
    /\ drafts' = [drafts EXCEPT ![d].status = "lapsed"]
    /\ UNCHANGED <<users, mandates, rdrafts, stepups, work, paid>>

\* Mutant: submission reads its draft without FOR UPDATE.
DraftUnlocked_NoLock(d) == TRUE

\* No other request holds the draft.
DraftUnlocked(d) == \A q \in Sessions : ~LocksDraft(q, d)

\* The draft is locked, the user and the agent are read, the assertion verifies ...
VerifyMandateSignature(s, d) ==
    /\ DraftUnlocked(d)
    /\ drafts[d].status = "open"
    /\ Mandatable(drafts[d].user)
    /\ Starts(s, [kind |-> "sign_mandate", draft |-> d])
    /\ UNCHANGED <<users, drafts, mandates, rdrafts, stepups, paid>>

\* ... and everything is stored in one commit.
Mandated(row) == [tier |-> 2, nullifier |-> row.nullifier, agent |-> "active"]

SubmitSignedMandate(s) ==
    /\ work[s].kind = "sign_mandate"
    /\ LET d == work[s].draft
           u == drafts[d].user
       IN  /\ UserFree(u)
           /\ mandates' = [mandates EXCEPT ![d].status = "signed"]
           /\ users' = [users EXCEPT ![u] = Mandated(@)]
           /\ drafts' = [drafts EXCEPT ![d].status = "consumed"]
    /\ Ends(s)
    /\ UNCHANGED <<rdrafts, stepups, paid>>

MandateExpires(d) ==
    /\ mandates[d].status = "signed"
    /\ ~mandates[d].lapsed
    /\ mandates' = [mandates EXCEPT ![d].lapsed = TRUE]
    /\ UNCHANGED <<users, drafts, rdrafts, stepups, work, paid>>

Midnight ==
    /\ mandates' = [d \in Draft |-> [mandates[d] EXCEPT !.reset = @ /\ mandates[d].status = "none"]]
    /\ UNCHANGED <<users, drafts, rdrafts, stepups, work, paid>>

-----------------------------------------------------------------------------
(* A tool call of the agent: authorize, the tool, record_usage.            *)

\* _get_active_mandate takes the newest; the status of the agent is not read.
Unrevoked(u) == {d \in Draft : drafts[d].user = u /\ mandates[d].status = "signed"}
ActiveMandate(u) == Max(Unrevoked(u))

\* The counters after _reset_daily_counters_if_needed.
Today(m) == IF m.reset THEN m.today ELSE 0
DealsToday(m) == IF m.reset THEN m.deals ELSE 0

Refreshed(m) == [m EXCEPT !.today = Today(m), !.deals = DealsToday(m), !.reset = TRUE]

\* Mutant: the total cap is checked against the spent total without the new price.
WithinLimits_Late(m, price) ==
    /\ price <= DealCap
    /\ price # 0 => /\ Today(m) + price <= DayCap
                    /\ m.total <= TotalCap
    /\ DealsToday(m) < DealsCap

\* _check_limits of an accept: a price that is not told is not checked.
WithinLimits(m, price) ==
    /\ price <= DealCap
    /\ price # 0 => /\ Today(m) + price <= DayCap
                    /\ m.total + price <= TotalCap
    /\ DealsToday(m) < DealsCap

\* _check_step_up: no caller attaches a signature.
NeedsStepUp(price) == price > StepUpAbove

\* Counters of another day are reset first, whatever the answer.
Authorize(s, u, price) ==
    /\ work[s] = Idle
    /\ Unrevoked(u) # {}
    /\ LET d == ActiveMandate(u)
           m == mandates[d]
       IN  /\ ~m.lapsed
           /\ m.reset \/ UserFree(u)
           /\ mandates' = [mandates EXCEPT ![d] = Refreshed(m)]
           /\ work' = [work EXCEPT ![s] =
                  IF ~WithinLimits(m, price) THEN Idle
                  ELSE IF NeedsStepUp(price) THEN [kind |-> "step_up", user |-> u]
                  ELSE [kind |-> "call", mandate |-> d, price |-> price,
                        today |-> Today(m), total |-> m.total, deals |-> DealsToday(m)]]
    /\ UNCHANGED <<users, drafts, rdrafts, stepups, paid>>

\* Mutant: record_usage takes the price from what is left of the day.
Counted_Subtracted(w) ==
    [mandates[w.mandate] EXCEPT !.today = w.today - w.price, !.total = w.total + w.price,
                                !.deals = w.deals + 1]

\* The tool succeeded: the counters that authorize has read go up, when a
\* price was told.  The commit writes them over whatever is stored by now.
Counted(w) ==
    [mandates[w.mandate] EXCEPT !.today = w.today + w.price, !.total = w.total + w.price,
                                !.deals = w.deals + 1]

RecordUsage(s) ==
    /\ work[s].kind = "call"
    /\ LET d == work[s].mandate
           price == work[s].price
       IN  /\ price # 0 => UserFree(drafts[d].user)
           /\ mandates' = IF price = 0 THEN mandates
                          ELSE [mandates EXCEPT ![d] = Counted(work[s])]
           /\ paid' = [paid EXCEPT ![d] = @ + price]
    /\ Ends(s)
    /\ UNCHANGED <<users, drafts, rdrafts, stepups>>

\* A request fails or its tool raises; its transaction is rolled back.  The
\* victim of a deadlock ends this way, too.
Fail(s) ==
    /\ work[s] # Idle
    /\ Ends(s)
    /\ UNCHANGED <<users, drafts, mandates, rdrafts, stepups, paid>>

-----------------------------------------------------------------------------
(* Step-up requests.                                                       *)

\* _queue_step_up reads the mandate again, in the session of the tick ...
QueueStepUp(s) ==
    /\ work[s].kind = "step_up"
    /\ work' = [work EXCEPT ![s] =
                  IF Unrevoked(work[s].user) = {} THEN Idle
                  ELSE [kind |-> "insert", mandate |-> ActiveMandate(work[s].user)]]
    /\ UNCHANGED <<users, drafts, mandates, rdrafts, stepups, paid>>

\* ... and stores the request.
CreatePendingRequest(s, x) ==
    /\ work[s].kind = "insert"
    /\ stepups[x].status = "none"
    /\ stepups' = [stepups EXCEPT ![x] = [status |-> "pending", mandate |-> work[s].mandate,
                                          due |-> FALSE]]
    /\ Ends(s)
    /\ UNCHANGED <<users, drafts, mandates, rdrafts, paid>>

StepUpFallsDue(x) ==
    /\ stepups[x].status = "pending"
    /\ ~stepups[x].due
    /\ stepups' = [stepups EXCEPT ![x].due = TRUE]
    /\ UNCHANGED <<users, drafts, mandates, rdrafts, work, paid>>

StepUpUnlocked(x) == \A q \in Sessions : ~LocksStepUp(q, x)

\* sign and reject lock the request and find it pending ...
LoadPending(s, x, answer) ==
    /\ StepUpUnlocked(x)
    /\ stepups[x].status = "pending"
    /\ Starts(s, [kind |-> IF stepups[x].due THEN "expire" ELSE answer, stepup |-> x])
    /\ UNCHANGED <<users, drafts, mandates, rdrafts, stepups, paid>>

\* ... get_for_signing reads it without a lock, and like them ends a request
\* that has fallen due.
GetForSigning(s, x) ==
    /\ stepups[x].status = "pending"
    /\ stepups[x].due
    /\ Starts(s, [kind |-> "expire", stepup |-> x])
    /\ UNCHANGED <<users, drafts, mandates, rdrafts, stepups, paid>>

Resolve(s, kind, status) ==
    /\ work[s].kind = kind
    /\ stepups' = [stepups EXCEPT ![work[s].stepup].status = status]
    /\ Ends(s)
    /\ UNCHANGED <<users, drafts, mandates, rdrafts, paid>>

\* The signature also stores the counter of the user's passkey.
Sign(s) ==
    /\ Resolve(s, "sign", "approved")
    /\ UserFree(drafts[stepups[work[s].stepup].mandate].user)

Reject(s) == Resolve(s, "reject", "rejected")

ExpireOnLoad(s) ==
    /\ Resolve(s, "expire", "expired")
    /\ StepUpUnlocked(work[s].stepup)

-----------------------------------------------------------------------------
(* Revocation.                                                             *)

CreateRevocationDraft(r, d) ==
    /\ mandates[d].status = "signed"
    /\ rdrafts[r].status = "none"
    /\ rdrafts' = [rdrafts EXCEPT ![r] = [status |-> "open", mandate |-> d]]
    /\ UNCHANGED <<users, drafts, mandates, stepups, work, paid>>

RevocationDraftExpires(r) ==
    /\ rdrafts[r].status = "open"
    /\ rdrafts' = [rdrafts EXCEPT ![r].status = "lapsed"]
    /\ UNCHANGED <<users, drafts, mandates, stepups, work, paid>>

\* The draft is locked and the mandate is read: revoked already, or signed.
SubmitRevocation(s, r) ==
    /\ \A q \in Sessions : ~LocksRevocation(q, r)
    /\ rdrafts[r].status = "open"
    /\ IF mandates[rdrafts[r].mandate].status = "revoked"
       THEN /\ work[s] = Idle
            /\ rdrafts' = [rdrafts EXCEPT ![r].status = "consumed"]
            /\ UNCHANGED work
       ELSE /\ Starts(s, [kind |-> "revoke", rdraft |-> r, flushed |-> FALSE])
            /\ UNCHANGED rdrafts
    /\ UNCHANGED <<users, drafts, mandates, stepups, paid>>

\* The first query of the cascade writes the user, the mandate and the agent.
Flush(s) ==
    /\ work[s].kind = "revoke"
    /\ ~work[s].flushed
    /\ UserFree(drafts[Target(s)].user)
    /\ work' = [work EXCEPT ![s].flushed = TRUE]
    /\ UNCHANGED <<users, drafts, mandates, rdrafts, stepups, paid>>

\* The rows _cascade_cancellations updates, once their locks are free: all
\* drafts of the user, and the step-ups of this mandate only.
CascadeDrafts(u) == {d \in Draft : drafts[d].user = u /\ drafts[d].status # "consumed"}
CascadeStepUps(d) == {x \in StepUps : stepups[x].mandate = d /\ stepups[x].status = "pending"}

CommitRevocation(s) ==
    /\ work[s].kind = "revoke"
    /\ work[s].flushed
    /\ LET m == Target(s)
           u == drafts[m].user
       IN  /\ \A d \in CascadeDrafts(u) : DraftUnlocked(d)
           /\ \A x \in CascadeStepUps(m) : StepUpUnlocked(x)
           /\ mandates' = [mandates EXCEPT ![m].status = "revoked"]
           /\ users' = [users EXCEPT ![u].agent = "revoked"]
           /\ drafts' = [d \in Draft |-> IF d \in CascadeDrafts(u)
                                         THEN [drafts[d] EXCEPT !.status = "consumed"]
                                         ELSE drafts[d]]
           /\ stepups' = [x \in StepUps |-> IF x \in CascadeStepUps(m)
                                            THEN [stepups[x] EXCEPT !.status = "expired"]
                                            ELSE stepups[x]]
    /\ rdrafts' = [rdrafts EXCEPT ![work[s].rdraft].status = "consumed"]
    /\ Ends(s)
    /\ UNCHANGED paid

-----------------------------------------------------------------------------
MandateNext(s) ==
    \/ \E d \in Draft : VerifyMandateSignature(s, d)
    \/ SubmitSignedMandate(s)
    \/ \E r \in RevocationDrafts : SubmitRevocation(s, r)
    \/ Flush(s)
    \/ CommitRevocation(s)

CallNext(s) ==
    \/ \E u \in Users, price \in Prices : Authorize(s, u, price)
    \/ RecordUsage(s)
    \/ QueueStepUp(s)
    \/ \E x \in StepUps : CreatePendingRequest(s, x)

StepUpNext(s) ==
    \/ \E x \in StepUps : GetForSigning(s, x) \/ LoadPending(s, x, "sign") \/ LoadPending(s, x, "reject")
    \/ Sign(s) \/ Reject(s) \/ ExpireOnLoad(s)

Next ==
    \/ \E u \in Users : \/ VerifySelf(u)
                       \/ \E d \in Draft : CreateDraft(u, d)
    \/ \E d \in Draft : DraftExpires(d) \/ MandateExpires(d)
    \/ \E r \in RevocationDrafts : RevocationDraftExpires(r)
                                   \/ \E d \in Draft : CreateRevocationDraft(r, d)
    \/ \E x \in StepUps : StepUpFallsDue(x)
    \/ Midnight
    \/ \E s \in Sessions : MandateNext(s) \/ CallNext(s) \/ StepUpNext(s) \/ Fail(s)

Spec == Init /\ [][Next]_vars

-----------------------------------------------------------------------------
(* Properties.                                                             *)

Stored(u) == {d \in Draft : drafts[d].user = u /\ mandates[d].status # "none"}

\* The stages of a user agree across the three tables and all the races: a
\* revealed identity belongs to one user, who then has an agent, and a user
\* is at tier 2 exactly when a mandate is stored; an active agent can always
\* show a mandate that is not revoked.
OnboardingIsConsistent ==
    /\ \A u \in Users : /\ users[u].tier = 0 <=> users[u].nullifier = "none"
                        /\ users[u].tier = 0 <=> users[u].agent = "none"
                        /\ users[u].tier = 2 <=> Stored(u) # {}
                        /\ users[u].agent = "active" => Unrevoked(u) # {}
    /\ \A u, v \in Users : u # v /\ users[u].nullifier # "none"
                              => users[u].nullifier # users[v].nullifier

\* Whatever requests of the user were under way, no step undoes a revocation:
\* neither the mandate nor the agent it ended comes back to life.
RevocationIsFinal ==
    [][/\ \A d \in Draft : mandates[d].status = "revoked" => mandates'[d].status = "revoked"
       /\ \A u \in Users : users[u].agent = "revoked" => users'[u].agent = "revoked"]_vars

\* The verifier keeps what it records within the caps the user has signed,
\* and records nothing that was not paid, however its calls overlap.  (Calls
\* that overlap do lose updates: more may be paid than is recorded.)
RecordedIsBounded ==
    \A d \in Draft : /\ mandates[d].total <= TotalCap
                     /\ mandates[d].total <= paid[d]
                     /\ mandates[d].today <= DayCap
                     /\ mandates[d].deals <= DealsCap

=============================================================================
