------------------------------ MODULE Capital ------------------------------
(***************************************************************************)
(* Capital mandates: a signed budget under which one agent accepts offers  *)
(* and authorizes its side of the deals by itself.  A tool call checks the *)
(* mandate, accepts the offer (which commits), checks again with the deal  *)
(* locked, and commits the reservation.  The mandate, the ledger and the   *)
(* positions are read without a lock, and the calls of overlapping ticks,  *)
(* the user's requests and the signatures on the deals interleave.         *)
(*                                                                         *)
(* A deal is identified by its negotiation and price, as its idempotency   *)
(* key is; who holds the intents meanwhile is the subject of Marketplace.  *)
(***************************************************************************)
EXTENDS Naturals, FiniteSets, FiniteSetsExt

CONSTANTS
    Mandates,    \* capital mandates of the agent that can ever be drafted
    NoMandate,
    Deals,
    NoDeal,
    AgentSide,   \* [Deals -> Side]: the agent's side
    Price,       \* [Deals -> Nat]: agreed_price_cents
    Budget,      \* budget_total_cents
    MaxSingle,   \* max_single_purchase_cents; the other limits on the terms
                 \* of one purchase are part of it
    MaxOpen,     \* max_open_positions
    Calls,       \* the tool calls of the agent that can be in flight at once
    MaxEdits     \* bound: requests on mandates in flight at once

Side == {"buyer", "seller"}

ASSUME CapitalAssumption ==
    /\ NoMandate \notin Mandates
    /\ Mandates \cap {"none", "passkey"} = {}
    /\ NoDeal \notin Deals
    /\ AgentSide \in [Deals -> Side]
    /\ Price \in [Deals -> Nat \ {0}]
    /\ Budget \in Nat
    /\ MaxSingle \in Nat
    /\ MaxOpen \in Nat
    /\ IsFiniteSet(Calls) /\ Calls # {}
    /\ MaxEdits \in Nat

VARIABLES
    status,      \* [Mandates -> MandateStatus]
    older,       \* [Mandates -> SUBSET Mandates]: those with an activated_at
                 \* before this one's
    overdue,     \* mandates past expires_at
    draft,       \* [Mandates -> DraftStatus]: the draft that carries its id
    edits,       \* requests that have read a mandate and not yet written it
    deal,        \* [Deals -> DealStatus]
    by,          \* [Deals -> [Side -> Method]]: how each side authorized
    call,        \* [Calls -> Call]: how far each tool call is
    ledger       \* reservations: pairs of a mandate and a deal

vars == << status, older, overdue, draft, edits, deal, by, call, ledger >>

mandateVars == << status, older, overdue, draft, edits >>
dealVars    == << deal, by, call, ledger >>

MandateStatus == {"none", "active", "paused", "expired", "revoked"}
DraftStatus   == {"none", "open", "signing", "used"}
DealStatus    == {"none", "pending_signatures", "confirmed", "ended"}
Method        == {"none", "passkey"} \cup Mandates
Edit          == {"pause", "resume", "revoke", "expire"}

\* A call works on one offer, under the mandate it found when it began.
Idle == [step |-> "idle", under |-> NoMandate, offer |-> NoDeal]

Call == {Idle} \cup
    [step : {"checked", "accepted", "judged"}, under : Mandates, offer : Deals]

-----------------------------------------------------------------------------
(***************************************************************************)
(* Mandates.                                                               *)
(***************************************************************************)

Running   == {m \in Mandates : status[m] \in {"active", "paused"}}
Activated == {m \in Mandates : status[m] # "none"}

\* order_by(activated_at.desc()), first row.
Newest(m, S) == m \in S /\ S \subseteq older[m] \cup {m}

\* Only the newest running mandate is looked at.
NoActiveMandate == \A m \in Mandates : Newest(m, Running) => m \in overdue

Init ==
    /\ status = [m \in Mandates |-> "none"]
    /\ older = [m \in Mandates |-> {}]
    /\ overdue = {}
    /\ draft = [m \in Mandates |-> "none"]
    /\ edits = {}
    /\ deal = [d \in Deals |-> "none"]
    /\ by = [d \in Deals |-> [s \in Side |-> "none"]]
    /\ call = [c \in Calls |-> Idle]
    /\ ledger = {}

CreateDraft(m) ==
    /\ draft[m] = "none"
    /\ NoActiveMandate
    /\ draft' = [draft EXCEPT ![m] = "open"]
    /\ UNCHANGED << status, older, overdue, edits, dealVars >>

\* The draft is locked, other drafts and the mandates are not.
SubmitDraft(m) ==
    /\ draft[m] = "open"
    /\ NoActiveMandate
    /\ draft' = [draft EXCEPT ![m] = "signing"]
    /\ older' = [older EXCEPT ![m] = {k \in Mandates : draft[k] \in {"signing", "used"}}]
    /\ UNCHANGED << status, overdue, edits, dealVars >>

ActivateMandate(m) ==
    /\ draft[m] = "signing"
    /\ draft' = [draft EXCEPT ![m] = "used"]
    /\ status' = [status EXCEPT ![m] = "active"]
    /\ UNCHANGED << older, overdue, edits, dealVars >>

MandateLapses(m) ==
    /\ m \in Activated \ overdue
    /\ overdue' = overdue \cup {m}
    /\ UNCHANGED << status, older, draft, edits, dealVars >>

\* What pause, resume, revoke and expire_old_capital_mandates look for.
Editable(m, edit) ==
    CASE edit = "pause"  -> status[m] = "active"
      [] edit = "resume" -> status[m] = "paused" /\ m \notin overdue
      [] edit = "revoke" -> status[m] \notin {"none", "revoked"}
      [] edit = "expire" -> m \in Running \cap overdue

ReadMandate(m, edit) ==
    /\ Cardinality(edits) < MaxEdits
    /\ Editable(m, edit)
    /\ edits' = edits \cup {<< m, edit >>}
    /\ UNCHANGED << status, older, overdue, draft, dealVars >>

Edited == [pause |-> "paused", resume |-> "active", revoke |-> "revoked",
           expire |-> "expired"]

\* Whatever the status has become.
WriteMandate(m, edit) ==
    /\ << m, edit >> \in edits
    /\ edits' = edits \ {<< m, edit >>}
    /\ status' = [status EXCEPT ![m] = Edited[edit]]
    /\ UNCHANGED << older, overdue, draft, dealVars >>

-----------------------------------------------------------------------------
(***************************************************************************)
(* The tool call accept_offer_under_capital_mandate.                       *)
(***************************************************************************)

Charged(m) == {d \in Deals : << m, d >> \in ledger}

\* Every entry is a budget_reserved: release_budget, commit_budget and
\* record_sale have no caller.
Reserved(m) == MapThenSumSet(LAMBDA d : Price[d], Charged(m))

\* Mutant: reservations do not count until they are committed.
FitsBudget_Uncommitted(m, d) == Price[d] <= Budget

FitsBudget(m, d) == Reserved(m) + Price[d] <= Budget

\* A position is opened with each reservation and never closed.
WithinLimits(m, d) ==
    /\ Price[d] <= MaxSingle
    /\ Cardinality(Charged(m)) < MaxOpen
    /\ FitsBudget(m, d)

\* A sale is not limited by the budget.
Authorizable(m, d) == AgentSide[d] = "buyer" => WithinLimits(m, d)

Under(c) == call[c].under
Offer(c) == call[c].offer

\* The call goes on to a step, or is over.
Advance(c, step) == call' = [call EXCEPT ![c].step = step]
Return(c)        == call' = [call EXCEPT ![c] = Idle]

\* The tool has expired what is overdue; the newest mandate must be active.
\* Other calls may be at the same offer.
StartCall(c) ==
    /\ call[c] = Idle
    /\ Running \cap overdue = {}
    /\ \E m \in Mandates, d \in Deals :
          /\ Newest(m, Activated)
          /\ status[m] = "active"
          /\ deal[d] = "none"
          /\ Authorizable(m, d)
          /\ call' = [call EXCEPT ![c] = [step |-> "checked", under |-> m, offer |-> d]]
    /\ UNCHANGED << deal, by, ledger, mandateVars >>

\* accept_offer commits the deal.  The session still holds the negotiation,
\* the match and the intents as they were checked: an accept that committed
\* meanwhile goes unnoticed, and its deal is taken whatever became of it.
AcceptUnderMandate(c) ==
    /\ call[c].step = "checked"
    /\ deal' = [deal EXCEPT ![Offer(c)] = IF @ = "none" THEN "pending_signatures" ELSE @]
    /\ Advance(c, "accepted")
    /\ UNCHANGED << by, ledger, mandateVars >>

\* Mutant: the deal row is read without a lock.
Unlocked_NoLock(d) == TRUE

\* No authorization holds the deal row.
Unlocked(d) == \A c \in Calls : call[c].step = "judged" => Offer(c) # d

\* Mutant: only a signature counts, as before there were capital mandates.
SideAuthorized_Signed(d, s) == by[d][s] = "passkey"

SideAuthorized(d, s) == by[d][s] # "none"

\* Mutant: a side that has signed meanwhile is authorized again.
SideOpen_Unchecked(d) == TRUE

SideOpen(d) == ~SideAuthorized(d, AgentSide[d])

\* The call has locked its deal and found it pending.
LocksPending(c) ==
    /\ call[c].step = "accepted"
    /\ deal[Offer(c)] = "pending_signatures"
    /\ Unlocked(Offer(c))

\* The conditions on the deal and on whose mandate it is.
Admitted(c) ==
    /\ LocksPending(c)
    /\ SideOpen(Offer(c))
    /\ Newest(Under(c), Activated)

\* The deal is locked from here on.  The ledger and the positions are read
\* again; the mandate's status is not, because the session holds the mandate.
JudgeAuthorization(c) ==
    /\ Admitted(c)
    /\ Under(c) \notin overdue
    /\ Authorizable(Under(c), Offer(c))
    /\ Advance(c, "judged")
    /\ UNCHANGED << deal, by, ledger, mandateVars >>

\* Another call has authorized the side under the same mandate: the answer is
\* that authorization, and nothing is reserved.
RepeatAuthorization(c) ==
    /\ LocksPending(c)
    /\ by[Offer(c)][AgentSide[Offer(c)]] = Under(c)
    /\ Return(c)
    /\ UNCHANGED << deal, by, ledger, mandateVars >>

ConfirmIfAuthorized(d) ==
    deal' = [deal EXCEPT ![d] =
                IF \A s \in Side : by'[d][s] # "none" THEN "confirmed" ELSE @]

\* Keyed by the mandate and the deal.  A sale takes no reservation.
Entries(c) ==
    IF AgentSide[Offer(c)] = "buyer" THEN {<< Under(c), Offer(c) >>} ELSE {}

AuthorizeDealSide(c) ==
    /\ call[c].step = "judged"
    /\ by' = [by EXCEPT ![Offer(c)][AgentSide[Offer(c)]] = Under(c)]
    /\ ledger' = ledger \cup Entries(c)
    /\ ConfirmIfAuthorized(Offer(c))
    /\ Return(c)
    /\ UNCHANGED mandateVars

\* accept_offer or the authorization refuses, or the worker dies.  What was
\* committed stays: an accepted deal is left without its authorization.  A
\* refusal because the mandate is overdue also marks it, over any later status.
CallFails(c) ==
    /\ call[c] # Idle
    /\ Return(c)
    /\ \/ UNCHANGED status
       \/ /\ Admitted(c)
          /\ Under(c) \in overdue
          /\ status' = [status EXCEPT ![Under(c)] = "expired"]
    /\ UNCHANGED << deal, by, ledger, older, overdue, draft, edits >>

-----------------------------------------------------------------------------
(***************************************************************************)
(* What others do with the deals.                                          *)
(***************************************************************************)

\* The offer is accepted outside the tool, by either party.
AcceptOffer(d) ==
    /\ deal[d] = "none"
    /\ deal' = [deal EXCEPT ![d] = "pending_signatures"]
    /\ UNCHANGED << by, call, ledger, mandateVars >>

\* The counterparty's own capital mandate counts as its signature here.
SubmitSignature(d, s) ==
    /\ deal[d] = "pending_signatures"
    /\ Unlocked(d)
    /\ ~SideAuthorized(d, s)
    /\ by' = [by EXCEPT ![d][s] = "passkey"]
    /\ ConfirmIfAuthorized(d)
    /\ UNCHANGED << call, ledger, mandateVars >>

\* Cancelled or expired.  The reservation stays.
EndDeal(d) ==
    /\ deal[d] = "pending_signatures"
    /\ Unlocked(d)
    /\ deal' = [deal EXCEPT ![d] = "ended"]
    /\ UNCHANGED << by, call, ledger, mandateVars >>

MandateNext ==
    \E m \in Mandates :
        \/ CreateDraft(m) \/ SubmitDraft(m) \/ ActivateMandate(m)
        \/ MandateLapses(m)
        \/ \E edit \in Edit : ReadMandate(m, edit) \/ WriteMandate(m, edit)

CallNext ==
    \E c \in Calls :
        \/ StartCall(c) \/ AcceptUnderMandate(c) \/ JudgeAuthorization(c)
        \/ RepeatAuthorization(c) \/ AuthorizeDealSide(c) \/ CallFails(c)

DealNext ==
    \E d \in Deals :
        \/ AcceptOffer(d) \/ EndDeal(d)
        \/ \E s \in Side : SubmitSignature(d, s)

Next == MandateNext \/ CallNext \/ DealNext

Spec == Init /\ [][Next]_vars

-----------------------------------------------------------------------------
(***************************************************************************)
(* What holds.                                                             *)
(***************************************************************************)

\* Every column holds a value the schema lists, and only the agent's mandates
\* are ever charged.
TypeOK ==
    /\ status \in [Mandates -> MandateStatus]
    /\ older \in [Mandates -> SUBSET Mandates]
    /\ overdue \subseteq Mandates
    /\ draft \in [Mandates -> DraftStatus]
    /\ edits \subseteq Mandates \X Edit
    /\ deal \in [Deals -> DealStatus]
    /\ by \in [Deals -> [Side -> Method]]
    /\ call \in [Calls -> Call]
    /\ ledger \subseteq Mandates \X Deals

\* Each purchase the agent authorized is in the ledger once, under the mandate
\* that authorized it, and nothing else is: however many calls, of whichever
\* mandates, accept the same offer, and neither a sale, nor a deal the user
\* signed meanwhile, nor an accept whose authorization was refused is charged.
ChargedOnce ==
    \A d \in Deals, m \in Mandates : by[d]["buyer"] = m <=> << m, d >> \in ledger

\* A side authorizes once: no late tool call, of the same offer or of another
\* mandate, and no late signature replaces an authorization.
AuthorizationIsFinal ==
    [][\A d \in Deals, s \in Side : by[d][s] # "none" => by'[d][s] = by[d][s]]_vars

\* A deal that was cancelled or expired while a call was under way is neither
\* charged nor confirmed.
EndedIsNotCharged ==
    [][\A d \in Deals : deal[d] = "ended" =>
          /\ deal'[d] = "ended"
          /\ \A m \in Mandates : << m, d >> \in ledger' => << m, d >> \in ledger]_vars

\* How far overlapping calls can overrun a mandate: by one purchase for each
\* further call that can be in flight, and no more, however many deals there are
\* and however many calls are at the same offer.
ExposureIsBounded ==
    \A m \in Mandates : Reserved(m) <= Budget + (Cardinality(Calls) - 1) * MaxSingle

=============================================================================
