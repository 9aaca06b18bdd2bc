----------------------------- MODULE AgentTick -----------------------------
(***************************************************************************)
(* The scheduler that finds agents with work and runs their ticks: the     *)
(* discovery job, the rate limiter, the orchestrator's tool loop with its  *)
(* cost caps, and the cursor of the agent's inbox (agent_scheduler.py,     *)
(* core/rate_limiter.py, orchestrator.py, cost_tracking_service.py,        *)
(* inbox_service.py, agent_state_service.py).                              *)
(*                                                                         *)
(* A user has one agent, known by its user.  One discovery runs at a time; *)
(* ticks are background tasks that may outlive it and overlap, even two of *)
(* one agent.  What tools do to the market is the other modules' business; *)
(* read_inbox, which shows a tick what arrived since it began, changes     *)
(* nothing here.                                                           *)
(*                                                                         *)
(* An event is new to its user when its stamp is later than the agent's    *)
(* last_tick_at.  The stamp is taken before the event is committed, and    *)
(* that of an offer is cut to the second, so an event may be passed by the *)
(* cursor before anybody can read it.                                      *)
(***************************************************************************)
EXTENDS Integers, Sequences, FiniteSets, FiniteSetsExt, Functions

CONSTANTS Users,
          Events,         \* offers, signatures and answered step-ups ...
          Recipient,      \* ... the user whose inbox each belongs to ...
          Offers,         \* ... and those stamped with the second only
          Ticks,          \* tasks that may exist at the same time
          MaxConcurrent,  \* agent_scheduler_max_concurrent
          MaxPerMinute,   \* agent_scheduler_max_per_minute
          MaxCandidates,  \* agent_scheduler_max_candidates
          MaxTurns,       \* MAX_TURNS_PER_TICK
          TurnCosts,      \* what a call of the language model may cost
          GlobalCap,      \* max_daily_llm_cost_usd
          UserCap,        \* daily_user_cost_cap_usd
          TickCap         \* agent_tick_cost_cap_usd; 0 disables it

ASSUME SetsAssumption == /\ IsFiniteSet(Users)
                         /\ IsFiniteSet(Ticks)
                         /\ Recipient \in [Events -> Users]
                         /\ Offers \subseteq Events
ASSUME BoundsAssumption ==
    /\ {MaxConcurrent, MaxPerMinute, MaxCandidates, MaxTurns} \subseteq Nat \ {0}
    /\ MaxConcurrent <= Cardinality(Ticks)
    /\ {GlobalCap, UserCap} \subseteq Nat \ {0}
    /\ TickCap \in Nat
    /\ TurnCosts \subseteq Nat
    /\ \E dearest \in TurnCosts : \A c \in TurnCosts : dearest >= c

VARIABLES cooling,  \* the users whose agent's last_tick_at is within the cooldown
          event,   \* per event, whether it has its stamp and is committed
          passed,  \* the events whose stamp is not later than last_tick_at
          fresh,   \* the users whose last_tick_at is of the running second
          quiet,   \* the events between the ticks of their user (see Stamp)
          handled, \* the events that a tick which succeeded has known of
          spent,   \* daily_cost_tracking, per user, of today: what was recorded
          job,     \* the discovery that is running
          window,  \* dispatches the limiter remembers of the last minute
          slots,   \* the semaphore
          tick     \* the background tasks

arrivals == <<event, passed, fresh, quiet, handled>>
scheduler == <<spent, job, window, slots, tick>>
vars == <<cooling, arrivals, scheduler>>

-----------------------------------------------------------------------------
Phase == {"spawned", "refused", "read", "checked", "looping", "done", "failed"}
NoTick == [phase |-> "none"]
NoJob == [phase |-> "idle", queue |-> <<>>]

TypeOK ==
    /\ cooling \subseteq Users
    /\ event \in [Events -> {"none", "stamped", "committed"}]
    /\ {passed, quiet, handled} \subseteq SUBSET Events
    /\ fresh \subseteq Users
    /\ spent \in [Users -> Nat]
    /\ job \in [phase : {"idle", "dispatching", "waiting"}, queue : Seq(Users)]
    /\ job.phase = "waiting" => job.queue # <<>>
    /\ window \in 0..MaxPerMinute
    /\ slots \in 0..MaxConcurrent
    /\ tick \in [Ticks -> {NoTick} \cup
                    [phase : Phase, user : Users, inbox : SUBSET Events,
                     cost : Nat, turns : 0..MaxTurns]]

Init ==
    /\ cooling = {}
    /\ event = [e \in Events |-> "none"]
    /\ passed = {} /\ fresh = {} /\ quiet = {} /\ handled = {}
    /\ spent = [u \in Users |-> 0]
    /\ job = NoJob
    /\ window = 0
    /\ slots = MaxConcurrent
    /\ tick = [t \in Ticks |-> NoTick]

-----------------------------------------------------------------------------
(* What happens around the scheduler.                                      *)

\* The ticks of the user that have read their inbox.
UnderWay(u) == {t \in Ticks : /\ tick[t].phase \in Phase \ {"spawned", "refused"}
                              /\ tick[t].user = u}

\* An offer of the second in which a tick of its reader ended is stamped
\* before that end, all other stamps after it.
StampedTooLate(e) == e \in Offers /\ Recipient[e] \in fresh

\* The writer of an event takes its time.  The event is quiet, as far as the
\* code can tell, if no tick of its user is under way and it is not stamped
\* too late; and it stays quiet unless a tick begins before it is committed.
Stamp(e) ==
    /\ event[e] = "none"
    /\ event' = [event EXCEPT ![e] = "stamped"]
    /\ passed' = IF StampedTooLate(e) THEN passed \cup {e} ELSE passed
    /\ quiet' = IF UnderWay(Recipient[e]) = {} /\ ~StampedTooLate(e)
                THEN quiet \cup {e} ELSE quiet
    /\ UNCHANGED <<cooling, fresh, handled, scheduler>>

\* Only now can a tick read it.
EventOccurs(e) ==
    /\ event[e] = "stamped"
    /\ event' = [event EXCEPT ![e] = "committed"]
    /\ UNCHANGED <<cooling, passed, fresh, quiet, handled, scheduler>>

SecondPasses ==
    /\ fresh # {}
    /\ fresh' = {}
    /\ UNCHANGED <<cooling, event, passed, quiet, handled, scheduler>>

CooldownEnds(u) ==
    /\ u \in cooling
    /\ cooling' = cooling \ {u}
    /\ UNCHANGED <<arrivals, scheduler>>

\* The rows of yesterday no longer count.
Midnight ==
    /\ spent' = [u \in Users |-> 0]
    /\ UNCHANGED <<cooling, arrivals, job, window, slots, tick>>

\* The process stops and starts again: what was in memory is gone.
Restart ==
    /\ job' = NoJob
    /\ window' = 0
    /\ slots' = MaxConcurrent
    /\ tick' = [t \in Ticks |-> NoTick]
    /\ UNCHANGED <<cooling, arrivals, spent>>

-----------------------------------------------------------------------------
(* Discovery.                                                              *)

TotalSpent == FoldFunction(+, 0, spent)

\* An agent is signalled for an offer, a deal or an old intent that waits for
\* it.  What waits for whom is for the other modules to say: any set.
SignalledAgents == SUBSET Users

\* The signalled agents with an unexpired mandate are ranked by what waits for
\* them and by the time of their last tick: the order may be any.
DiscoverTickCandidates(found) ==
    LET eligible == found \ cooling
        n == Min({Cardinality(eligible), MaxCandidates})
    IN  {q \in [1..n -> eligible] : IsInjective(q)}

Discover ==
    /\ job = NoJob
    /\ TotalSpent < GlobalCap
    /\ \E found \in SignalledAgents :
          \E q \in DiscoverTickCandidates(found) \ {<<>>} :
             job' = [phase |-> "dispatching", queue |-> q]
    /\ UNCHANGED <<cooling, arrivals, spent, window, slots, tick>>

\* The next candidate: skipped if its user has spent enough today, and the
\* round is over if the limiter has seen enough dispatches in this minute.
\* The limiter counts the dispatch before it waits for the semaphore.
Consider ==
    /\ job.phase = "dispatching"
    /\ job.queue # <<>>
    /\ IF spent[Head(job.queue)] >= UserCap
       THEN job' = [job EXCEPT !.queue = Tail(@)] /\ UNCHANGED window
       ELSE IF window >= MaxPerMinute THEN job' = NoJob /\ UNCHANGED window
       ELSE job' = [job EXCEPT !.phase = "waiting"] /\ window' = window + 1
    /\ UNCHANGED <<cooling, arrivals, spent, slots, tick>>

Spawned(u) == [phase |-> "spawned", user |-> u, inbox |-> {}, cost |-> 0, turns |-> 0]

Dispatch(t) ==
    /\ job.phase = "waiting"
    /\ slots > 0
    /\ tick[t] = NoTick
    /\ slots' = slots - 1
    /\ tick' = [tick EXCEPT ![t] = Spawned(Head(job.queue))]
    /\ job' = [phase |-> "dispatching", queue |-> Tail(job.queue)]
    /\ UNCHANGED <<cooling, arrivals, spent, window>>

\* The round ends, or a query of it raises.
JobEnds ==
    /\ job.phase = "dispatching"
    /\ job' = NoJob
    /\ UNCHANGED <<cooling, arrivals, spent, window, slots, tick>>

MinutePasses ==
    /\ window > 0
    /\ window' = window - 1
    /\ UNCHANGED <<cooling, arrivals, spent, job, slots, tick>>

-----------------------------------------------------------------------------
(* One tick.                                                               *)

EventsOf(u, state) == {e \in Events : Recipient[e] = u /\ event[e] = state}

\* The events of the user that are later than the cursor.
Inbox(u) == EventsOf(u, "committed") \ passed

\* get_full_state: the agent, its mandate and its inbox.  The tick goes on
\* when the agent is active and a mandate not revoked, lapsed or not; the
\* tools will refuse a mandate that has lapsed.
ReadState(t, mandated) ==
    /\ tick[t].phase = "spawned"
    /\ LET u == tick[t].user
       IN  /\ tick' = [tick EXCEPT ![t].phase = IF mandated THEN "read" ELSE "refused",
                                   ![t].inbox = Inbox(u)]
           /\ quiet' = quiet \ EventsOf(u, "stamped")
    /\ UNCHANGED <<cooling, event, passed, fresh, handled, spent, job, window, slots>>

\* Mutant: an exception of the tick keeps its slot.
Released_OnReturn(t) == IF tick[t].phase \in {"spawned", "read"} THEN slots ELSE slots + 1

\* _run_tick_safely releases the slot whatever happened.
Released(t) == slots + 1

Ends(t) ==
    /\ slots' = Released(t)
    /\ tick' = [tick EXCEPT ![t] = NoTick]

\* Mutant: the tick trusts the caps its discovery has checked.
UserMaySpend_Discovered(u) == TRUE

UserMaySpend(u) == spent[u] < UserCap

\* The caps are read again, the global one and then the user's.
CheckGlobalCap(t) ==
    /\ tick[t].phase = "read"
    /\ tick' = [tick EXCEPT ![t].phase = IF TotalSpent < GlobalCap THEN "checked" ELSE "refused"]
    /\ UNCHANGED <<cooling, arrivals, spent, job, window, slots>>

CheckUserCap(t) ==
    /\ tick[t].phase = "checked"
    /\ tick' = [tick EXCEPT ![t].phase = IF UserMaySpend(tick[t].user) THEN "looping" ELSE "refused"]
    /\ UNCHANGED <<cooling, arrivals, spent, job, window, slots>>

\* The skip is recorded in the audit log only.
RecordSkip(t) ==
    /\ tick[t].phase = "refused"
    /\ Ends(t)
    /\ UNCHANGED <<cooling, arrivals, spent, job, window>>

\* Mutant: the tick may use one turn too many.
Answered_OneMore(k, cost, finished) ==
    [k EXCEPT !.cost = @ + cost, !.turns = @ + 1,
              !.phase = IF TickCap # 0 /\ k.cost + cost >= TickCap THEN "failed"
                        ELSE IF finished THEN "done"
                        ELSE IF k.turns = MaxTurns THEN "failed"
                        ELSE "looping"]

\* One answer of the model: the tick's cap is checked first, then whether the
\* model has finished; tools are run otherwise.
Answered(k, cost, finished) ==
    [k EXCEPT !.cost = @ + cost, !.turns = @ + 1,
              !.phase = IF TickCap # 0 /\ k.cost + cost >= TickCap THEN "failed"
                        ELSE IF finished THEN "done"
                        ELSE IF k.turns + 1 = MaxTurns THEN "failed"
                        ELSE "looping"]

Turn(t, cost, finished) ==
    /\ tick[t].phase = "looping"
    /\ tick' = [tick EXCEPT ![t] = Answered(@, cost, finished)]
    /\ UNCHANGED <<cooling, arrivals, spent, job, window, slots>>

ClaudeFails(t) ==
    /\ tick[t].phase = "looping"
    /\ tick' = [tick EXCEPT ![t].phase = "failed"]
    /\ UNCHANGED <<cooling, arrivals, spent, job, window, slots>>

Charged(u, cost) == [spent EXCEPT ![u] = @ + cost]

\* The events stamped before now, committed or not.
StampedUntilNow(u) == {e \in Events : Recipient[e] = u /\ event[e] # "none"}

\* The cursor moves to the end of the tick, not to the state it has read.
RecordTickOutcome(t) ==
    /\ tick[t].phase = "done"
    /\ LET u == tick[t].user
       IN  /\ cooling' = cooling \cup {u}
           /\ passed' = passed \cup StampedUntilNow(u)
           /\ fresh' = fresh \cup {u}
           /\ spent' = Charged(u, tick[t].cost)
           /\ handled' = handled \cup tick[t].inbox
    /\ Ends(t)
    /\ UNCHANGED <<event, quiet, job, window>>

\* Mutant: a failed tick, too, moves the cursor.
CursorAfterFailure_Moved(u) == passed \cup StampedUntilNow(u)

\* A failed tick leaves the cursor where it was.
CursorAfterFailure(u) == passed

RecordTickFailure(t) ==
    /\ tick[t].phase = "failed"
    /\ spent' = Charged(tick[t].user, tick[t].cost)
    /\ passed' = CursorAfterFailure(tick[t].user)
    /\ Ends(t)
    /\ UNCHANGED <<cooling, event, fresh, quiet, handled, job, window>>

\* Anything raises; or the cost row cannot be written, which ends the
\* transaction of the outcome unnoticed.  What the tick has cost is not
\* recorded anywhere.
TickRaises(t) ==
    /\ tick[t] # NoTick
    /\ Ends(t)
    /\ UNCHANGED <<cooling, arrivals, spent, job, window>>

-----------------------------------------------------------------------------
JobStep == Discover \/ Consider \/ JobEnds \/ \E t \in Ticks : Dispatch(t)

TickStep(t) ==
    \/ \E mandated \in BOOLEAN : ReadState(t, mandated)
    \/ CheckGlobalCap(t) \/ CheckUserCap(t) \/ RecordSkip(t)
    \/ \E cost \in TurnCosts, finished \in BOOLEAN : Turn(t, cost, finished)
    \/ ClaudeFails(t) \/ RecordTickOutcome(t) \/ RecordTickFailure(t) \/ TickRaises(t)

Environment ==
    \/ \E u \in Users : CooldownEnds(u)
    \/ \E e \in Events : Stamp(e) \/ EventOccurs(e)
    \/ SecondPasses \/ Midnight \/ MinutePasses \/ Restart

Next ==
    \/ JobStep
    \/ \E t \in Ticks : TickStep(t)
    \/ Environment

Spec == Init /\ [][Next]_vars

-----------------------------------------------------------------------------
(* Properties.                                                             *)

Charging(phases) == {t \in Ticks : tick[t].phase \in phases \cup {"looping", "done", "failed"}}

\* The most a tick can cost: it stops at the turn that reaches its cap, if
\* there is one, and at its last turn.
MaxTickCost ==
    IF TickCap = 0 THEN MaxTurns * Max(TurnCosts) ELSE TickCap - 1 + Max(TurnCosts)

Overrun(set) == Cardinality(set) * MaxTickCost

TicksAreCapped == \A t \in Charging({}) : tick[t].cost <= MaxTickCost

\* What is recorded of a user, and may yet be for ticks under way.
ChargingOf(u) == {t \in Charging({}) : tick[t].user = u}

UserCostIsBounded ==
    \A u \in Users :
       spent[u] + Overrun(ChargingOf(u)) <= UserCap - 1 + MaxConcurrent * MaxTickCost

GlobalCostIsBounded ==
    TotalSpent + Overrun(Charging({"checked"})) <= GlobalCap - 1 + MaxConcurrent * MaxTickCost

\* The caps are read before a tick and its cost is recorded after it, so what
\* daily_cost_tracking records of a day can overrun them - by no more than
\* MaxConcurrent ticks cost, all of them counted that were let in below a cap
\* and have not been recorded yet, and by one tick no more than its own cap
\* and one turn.  (This is the recorded cost.  A tick that raises or dies with
\* the process has cost something that TickRaises and Restart drop: what the
\* caps let a day really cost has no bound.)
CostIsBounded == TicksAreCapped /\ UserCostIsBounded /\ GlobalCostIsBounded

\* A quiet event is passed by the cursor of the inbox only when a tick that
\* succeeded has known of it, however many ticks failed, were refused or died
\* with the process before.  (Other events may be passed and never be seen:
\* those of a time when a tick of their user was under way or began before
\* they were committed, and offers in the second in which one ended.)
QuietEventsAreHandled ==
    \A e \in quiet : event[e] = "committed" /\ e \in passed => e \in handled

\* The semaphore and the ticks agree: a tick that was skipped, failed or
\* raised gives its slot back once, so that no discovery waits for slots that
\* nobody holds and no more than MaxConcurrent ticks run.
SlotsAreBalanced == slots + Cardinality({t \in Ticks : tick[t] # NoTick}) = MaxConcurrent

=============================================================================
