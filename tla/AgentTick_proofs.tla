-------------------------- MODULE AgentTick_proofs --------------------------
(***************************************************************************)
(* The scheduler's bookkeeping holds for every number of users, events,    *)
(* tasks and turns.  The slots and the tasks are balanced because a task   *)
(* leaves the table in the step that gives its slot back.  A quiet event   *)
(* is not lost because every tick that reads its inbox after the event     *)
(* finds it there (QuietEventsAreKnown), so the tick that moves the cursor *)
(* past it has known of it; it is not passed before it can be read,        *)
(* because no tick is under way until then.  The recorded costs overrun    *)
(* the caps by what the concurrent ticks can cost and no more, because a   *)
(* tick is admitted only below them; all users together are counted by a   *)
(* sum whose value the invariant carries along.                            *)
(***************************************************************************)
EXTENDS AgentTick, FiniteSetTheorems, TLAPS

Task == [phase : Phase, user : Users, inbox : SUBSET Events, cost : Nat, turns : 0..MaxTurns]

Busy == {t \in Ticks : tick[t] # NoTick}

\* A tick that may still ask the model has a turn left.
TurnsAreLeft ==
    \A t \in Ticks : tick[t].phase \in {"spawned", "read", "checked", "looping"} =>
                        tick[t].turns < MaxTurns

\* Until it is committed a quiet event finds no tick of its user under way;
\* then, while it is ahead of the cursor, it is in the inbox of each of them.
QuietEventsAreKnown ==
    \A e \in quiet :
       /\ event[e] # "none"
       /\ event[e] = "stamped" => e \notin passed /\ UnderWay(Recipient[e]) = {}
       /\ event[e] = "committed" /\ e \notin passed =>
             \A t \in UnderWay(Recipient[e]) : e \in tick[t].inbox

\* What has no stamp cannot have been passed.
UnstampedAreNotPassed == \A e \in passed : event[e] # "none"

EventsInv == QuietEventsAreKnown /\ UnstampedAreNotPassed /\ QuietEventsAreHandled

\* What a tick has cost when it may still ask the model: no more than the turns
\* it used and, where there is a cap, less than that.
BelowItsCap(k) == k.cost <= k.turns * Max(TurnCosts) /\ (TickCap # 0 => k.cost < TickCap)

CapIsNotReached ==
    \A t \in Ticks : tick[t].phase \in {"spawned", "read", "checked", "looping"} =>
                        BelowItsCap(tick[t])

USE DEF arrivals, scheduler

-----------------------------------------------------------------------------
(***************************************************************************)
(* Facts about tasks and candidates.                                       *)
(***************************************************************************)

LEMMA NoTickIsNoTask == NoTick \notin Task /\ NoTick.phase \notin Phase
  BY DEF NoTick, Task, Phase

\* A task that is in some phase of a tick is a task.
LEMMA PhaseMeansTask ==
  ASSUME TypeOK, NEW t \in Ticks, tick[t].phase \in Phase
  PROVE  tick[t] \in Task
  BY NoTickIsNoTask DEF TypeOK, Task

\* A round of discovery is a finite list of users.
LEMMA CandidatesAreUsers ==
  ASSUME NEW found \in SUBSET Users, NEW q \in DiscoverTickCandidates(found)
  PROVE  q \in Seq(Users)
<1> DEFINE eligible == found \ cooling
           n == Min({Cardinality(eligible), MaxCandidates})
<1>1. Cardinality(eligible) \in Nat
  <2>1. IsFiniteSet(eligible)
    BY SetsAssumption, FS_Subset
  <2> QED
    BY <2>1, FS_CardinalityType
<1>2. MaxCandidates \in Nat
  BY BoundsAssumption
<1>3. n \in Nat
  <2> DEFINE c == Cardinality(eligible)
  <2>1. \E x \in {c, MaxCandidates} : \A y \in {c, MaxCandidates} : x <= y
    BY <1>1, <1>2
  <2>2. n \in {c, MaxCandidates}
    BY <2>1 DEF Min
  <2> QED
    BY <1>1, <1>2, <2>2
<1>4. q \in [1..n -> eligible]
  BY DEF DiscoverTickCandidates
<1>5. q \in [1..n -> Users]
  BY <1>4
<1> HIDE DEF n
<1> QED
  BY <1>3, <1>5

-----------------------------------------------------------------------------
(***************************************************************************)
(* Types.                                                                  *)
(***************************************************************************)

TypeInv == TypeOK /\ TurnsAreLeft /\ SlotsAreBalanced

\* A step that stores one task, or none, and nothing else that has a type.
LEMMA TaskIsStored ==
  ASSUME TypeInv, NEW t \in Ticks, NEW k \in Task \cup {NoTick},
         tick' = [tick EXCEPT ![t] = k],
         k.phase \in {"spawned", "read", "checked", "looping"} => k.turns < MaxTurns
  PROVE  /\ tick' \in [Ticks -> {NoTick} \cup Task]
         /\ TurnsAreLeft'
  BY DEF TypeInv, TypeOK, Task, TurnsAreLeft

\* The slots held and free when the tasks of the table stay as they are.
LEMMA BusyIsFinite ==
  /\ IsFiniteSet(Busy) /\ Cardinality(Busy) \in Nat
  /\ SlotsAreBalanced <=> slots + Cardinality(Busy) = MaxConcurrent
<1>1. IsFiniteSet(Busy)
  BY SetsAssumption, FS_Subset DEF Busy
<1> QED
  BY <1>1, FS_CardinalityType DEF SlotsAreBalanced, Busy

LEMMA SameTasksSameSlots ==
  ASSUME TypeInv, Busy' = Busy, slots' = slots
  PROVE  SlotsAreBalanced'
  BY DEF TypeInv, SlotsAreBalanced, Busy

\* A task that changes stays a task.
LEMMA InPlaceKeepsSlots ==
  ASSUME TypeInv, NEW t \in Ticks, NEW k \in Task, tick[t] \in Task,
         tick' = [tick EXCEPT ![t] = k], slots' = slots
  PROVE  SlotsAreBalanced'
<1>1. k # NoTick /\ tick[t] # NoTick /\ t \in DOMAIN tick
  BY NoTickIsNoTask DEF TypeInv, TypeOK
<1>2. \A r \in Ticks : tick'[r] # NoTick <=> tick[r] # NoTick
  BY <1>1 DEF TypeInv, TypeOK
<1>3. Busy' = Busy
  BY <1>2 DEF Busy
<1> QED
  BY <1>3, SameTasksSameSlots

\* A task that ends gives its slot back, and it held one.
LEMMA EndingFreesASlot ==
  ASSUME TypeInv, NEW t \in Ticks, tick[t] # NoTick, Ends(t)
  PROVE  /\ tick' \in [Ticks -> {NoTick} \cup Task]
         /\ TurnsAreLeft'
         /\ SlotsAreBalanced'
         /\ slots' \in 0..MaxConcurrent
<1>1. tick' = [tick EXCEPT ![t] = NoTick] /\ slots' = slots + 1
  BY DEF Ends, Released
<1>2. tick' \in [Ticks -> {NoTick} \cup Task] /\ TurnsAreLeft'
  BY <1>1, TaskIsStored DEF NoTick
<1>3. Busy' = Busy \ {t} /\ t \in Busy
  BY <1>1 DEF Busy, TypeInv, TypeOK
<1>4. /\ Cardinality(Busy') = Cardinality(Busy) - 1
      /\ Cardinality(Busy') \in Nat
  <2>1. IsFiniteSet(Busy)
    BY BusyIsFinite
  <2>2. IsFiniteSet(Busy \ {t}) /\ Cardinality(Busy \ {t}) = Cardinality(Busy) - 1
    BY <1>3, <2>1, FS_RemoveElement
  <2> QED
    BY <1>3, <2>2, FS_CardinalityType
<1>5. slots \in Nat /\ MaxConcurrent \in Nat /\ slots + Cardinality(Busy) = MaxConcurrent
  BY BusyIsFinite, BoundsAssumption DEF TypeInv, TypeOK
<1>6. slots' + Cardinality(Busy') = MaxConcurrent /\ slots' \in 0..MaxConcurrent
  BY <1>1, <1>4, <1>5, BusyIsFinite
<1>7. SlotsAreBalanced'
  BY <1>6 DEF SlotsAreBalanced, Busy
<1> QED
  BY <1>2, <1>6, <1>7

LEMMA TypeInit == Init => TypeInv
<1> SUFFICES ASSUME Init PROVE TypeInv
  OBVIOUS
<1>1. {MaxConcurrent, MaxPerMinute} \subseteq Nat
  BY BoundsAssumption
<1>2. /\ job.phase = "idle"
      /\ job \in [phase : {"idle", "dispatching", "waiting"}, queue : Seq(Users)]
  BY DEF Init, NoJob
<1>3. TypeOK
  BY <1>1, <1>2 DEF Init, TypeOK
<1>4. TurnsAreLeft
  BY DEF Init, TurnsAreLeft, NoTick
<1>5. Busy = {} /\ slots = MaxConcurrent
  BY DEF Init, Busy
<1>6. SlotsAreBalanced
  BY <1>1, <1>5, FS_EmptySet DEF SlotsAreBalanced, Busy
<1> QED
  BY <1>3, <1>4, <1>6 DEF TypeInv

LEMMA JobKeepsTypes ==
  ASSUME TypeInv, JobStep PROVE TypeInv'
<1> USE DEF TypeInv
<1>1. CASE Discover
  <2>1. PICK found \in SUBSET Users :
           \E q \in DiscoverTickCandidates(found) \ {<<>>} :
              job' = [phase |-> "dispatching", queue |-> q]
    BY <1>1 DEF Discover, SignalledAgents
  <2>2. PICK q \in DiscoverTickCandidates(found) :
           job' = [phase |-> "dispatching", queue |-> q]
    BY <2>1
  <2>3. q \in Seq(Users)
    BY CandidatesAreUsers
  <2>4. job'.phase = "dispatching" /\ job'.queue \in Seq(Users)
    BY <2>2, <2>3
  <2> QED
    BY <1>1, <2>4 DEF Discover, TypeOK, TurnsAreLeft, SlotsAreBalanced
<1>2. CASE Consider
  <2>1. Tail(job.queue) \in Seq(Users)
    BY <1>2 DEF Consider, TypeOK
  <2>2. CASE spent[Head(job.queue)] >= UserCap
    BY <1>2, <2>1, <2>2 DEF Consider, TypeOK, TurnsAreLeft, SlotsAreBalanced
  <2>3. CASE ~(spent[Head(job.queue)] >= UserCap) /\ window >= MaxPerMinute
    <3>1. job' = NoJob /\ window' = window
      BY <1>2, <2>3 DEF Consider
    <3> QED
      BY <1>2, <3>1 DEF Consider, TypeOK, TurnsAreLeft, SlotsAreBalanced, NoJob
  <2>4. CASE ~(spent[Head(job.queue)] >= UserCap) /\ ~(window >= MaxPerMinute)
    <3>1. job' = [job EXCEPT !.phase = "waiting"] /\ window' = window + 1 /\ job.queue # <<>>
      BY <1>2, <2>4 DEF Consider
    <3>2. window + 1 \in 0..MaxPerMinute
      BY <2>4, BoundsAssumption DEF TypeOK
    <3>3. job'.phase = "waiting" /\ job'.queue = job.queue
      BY <1>2, <3>1 DEF Consider, TypeOK
    <3> QED
      BY <1>2, <3>1, <3>2, <3>3 DEF Consider, TypeOK, TurnsAreLeft, SlotsAreBalanced
  <2> QED
    BY <2>2, <2>3, <2>4
<1>3. CASE JobEnds
  BY <1>3 DEF JobEnds, TypeOK, TurnsAreLeft, SlotsAreBalanced, NoJob
<1>4. ASSUME NEW t \in Ticks, Dispatch(t) PROVE TypeInv'
  <2>1. Head(job.queue) \in Users /\ Tail(job.queue) \in Seq(Users)
    BY <1>4 DEF Dispatch, TypeOK
  <2>2. /\ Spawned(Head(job.queue)) \in Task
        /\ Spawned(Head(job.queue)).turns < MaxTurns
    BY <2>1, BoundsAssumption DEF Spawned, Task, Phase
  <2>3. tick' \in [Ticks -> {NoTick} \cup Task] /\ TurnsAreLeft'
    BY <1>4, <2>2, TaskIsStored DEF Dispatch
  <2>4. slots' \in 0..MaxConcurrent
    BY <1>4, BoundsAssumption DEF Dispatch, TypeOK
  <2>5. job'.phase = "dispatching" /\ job'.queue = Tail(job.queue)
    BY <1>4 DEF Dispatch
  <2>6. TypeOK'
    BY <1>4, <2>1, <2>3, <2>4, <2>5 DEF Dispatch, TypeOK, Task
  <2>7. Busy' = Busy \cup {t} /\ t \notin Busy
    <3>1. tick' = [tick EXCEPT ![t] = Spawned(Head(job.queue))] /\ tick[t] = NoTick
      BY <1>4 DEF Dispatch
    <3>2. Spawned(Head(job.queue)) # NoTick
      BY <2>2, NoTickIsNoTask
    <3> HIDE DEF TypeInv
    <3>3. tick \in [Ticks -> {NoTick} \cup Task]
      BY DEF TypeInv, TypeOK, Task
    <3> QED
      BY <3>1, <3>2, <3>3 DEF Busy
  <2>8. Cardinality(Busy') = Cardinality(Busy) + 1
    BY <2>7, BusyIsFinite, FS_AddElement
  <2>9. SlotsAreBalanced'
    <3>1. slots' = slots - 1 /\ slots \in Nat
      BY <1>4, BoundsAssumption DEF Dispatch, TypeOK
    <3>2. slots' + Cardinality(Busy') = MaxConcurrent
      BY <2>8, <3>1, BusyIsFinite
    <3> QED
      BY <3>2 DEF SlotsAreBalanced, Busy
  <2> QED
    BY <2>3, <2>6, <2>9
<1> QED
  BY <1>1, <1>2, <1>3, <1>4 DEF JobStep


LEMMA TickKeepsTypes ==
  ASSUME TypeInv, NEW t \in Ticks, TickStep(t) PROVE TypeInv'
<1> USE DEF TypeInv
<1>0. tick[t].phase \in Phase => tick[t] \in Task
  BY PhaseMeansTask
<1>1. ASSUME NEW mandated \in BOOLEAN, ReadState(t, mandated) PROVE TypeInv'
  <2>1. tick[t] \in Task /\ tick[t].turns < MaxTurns
    BY <1>1, <1>0 DEF ReadState, Phase, TurnsAreLeft
  <2>2. /\ tick'[t] \in Task
        /\ tick'[t].turns < MaxTurns
        /\ tick' = [tick EXCEPT ![t] = tick'[t]]
    BY <1>1, <2>1 DEF ReadState, TypeOK, Task, Phase, Inbox, EventsOf
  <2>3. tick' \in [Ticks -> {NoTick} \cup Task] /\ TurnsAreLeft'
    BY <2>2, TaskIsStored
  <2>4. SlotsAreBalanced'
    BY <1>1, <2>1, <2>2, InPlaceKeepsSlots DEF ReadState
  <2> QED
    BY <1>1, <2>3, <2>4 DEF ReadState, TypeOK, Task
<1>2. CASE CheckGlobalCap(t) \/ CheckUserCap(t) \/ ClaudeFails(t)
  <2>1. tick[t] \in Task /\ tick[t].turns < MaxTurns
    BY <1>2, <1>0 DEF CheckGlobalCap, CheckUserCap, ClaudeFails, Phase, TurnsAreLeft
  <2>2. PICK p \in Phase : tick' = [tick EXCEPT ![t].phase = p]
    BY <1>2 DEF CheckGlobalCap, CheckUserCap, ClaudeFails, Phase
  <2>3. tick' = [tick EXCEPT ![t] = [tick[t] EXCEPT !.phase = p]]
    BY <2>2
  <2>4. [tick[t] EXCEPT !.phase = p] \in Task /\ [tick[t] EXCEPT !.phase = p].turns < MaxTurns
    BY <2>1 DEF Task
  <2>5. tick' \in [Ticks -> {NoTick} \cup Task] /\ TurnsAreLeft'
    BY <2>3, <2>4, TaskIsStored
  <2>6. SlotsAreBalanced'
    BY <1>2, <2>1, <2>3, <2>4, InPlaceKeepsSlots DEF CheckGlobalCap, CheckUserCap, ClaudeFails
  <2> QED
    BY <1>2, <2>5, <2>6 DEF CheckGlobalCap, CheckUserCap, ClaudeFails, TypeOK, Task
<1>3. ASSUME NEW cost \in TurnCosts, NEW finished \in BOOLEAN, Turn(t, cost, finished)
      PROVE  TypeInv'
  <2> DEFINE k == Answered(tick[t], cost, finished)
  <2>1. tick[t] \in Task /\ tick[t].turns < MaxTurns /\ cost \in Nat
    BY <1>3, <1>0, BoundsAssumption DEF Turn, Phase, TurnsAreLeft
  <2>2. k \in Task /\ (k.phase \in {"spawned", "read", "checked", "looping"} => k.turns < MaxTurns)
    <3>1. /\ k.cost = tick[t].cost + cost /\ k.turns = tick[t].turns + 1
          /\ k = [tick[t] EXCEPT !.cost = k.cost, !.turns = k.turns, !.phase = k.phase]
          /\ k.phase \in {"failed", "done", "looping"}
          /\ k.phase = "looping" => tick[t].turns + 1 # MaxTurns
      BY <2>1 DEF Answered, Task
    <3>2. k.turns \in 0..MaxTurns /\ k.cost \in Nat /\ k.phase \in Phase
      BY <2>1, <3>1, BoundsAssumption DEF Task, Phase
    <3>3. k \in Task
      BY <2>1, <3>1, <3>2 DEF Task
    <3>4. k.phase = "looping" => k.turns < MaxTurns
      BY <2>1, <3>1, BoundsAssumption DEF Task
    <3> QED
      BY <3>1, <3>3, <3>4
  <2>3. tick' = [tick EXCEPT ![t] = k]
    BY <1>3 DEF Turn
  <2>4. tick' \in [Ticks -> {NoTick} \cup Task] /\ TurnsAreLeft'
    <3> HIDE DEF k
    <3> QED
      BY <2>2, <2>3, TaskIsStored
  <2>5. SlotsAreBalanced'
    <3>1. slots' = slots
      BY <1>3 DEF Turn
    <3> HIDE DEF k
    <3> QED
      BY <2>1, <2>2, <2>3, <3>1, InPlaceKeepsSlots
  <2> QED
    BY <1>3, <2>4, <2>5 DEF Turn, TypeOK, Task
<1>4. CASE RecordSkip(t) \/ TickRaises(t) \/ RecordTickOutcome(t) \/ RecordTickFailure(t)
  <2>1. Ends(t) /\ tick[t] # NoTick
    BY <1>4 DEF RecordSkip, TickRaises, RecordTickOutcome, RecordTickFailure, NoTick
  <2>2. /\ tick' \in [Ticks -> {NoTick} \cup Task] /\ slots' \in 0..MaxConcurrent
        /\ TurnsAreLeft' /\ SlotsAreBalanced'
    BY <2>1, EndingFreesASlot
  <2>3. CASE RecordSkip(t) \/ TickRaises(t)
    BY <2>2, <2>3 DEF RecordSkip, TickRaises, TypeOK, Task
  <2>4. CASE RecordTickOutcome(t) \/ RecordTickFailure(t)
    <3>1. tick[t] \in Task
      BY <2>4, <1>0 DEF RecordTickOutcome, RecordTickFailure, Phase
    <3>2. spent' = Charged(tick[t].user, tick[t].cost)
      BY <2>4 DEF RecordTickOutcome, RecordTickFailure
    <3>3. spent' \in [Users -> Nat]
      BY <3>1, <3>2 DEF Charged, TypeOK, Task
    <3>4. passed' \subseteq Events /\ fresh' \subseteq Users
      BY <2>4, <3>1 DEF RecordTickOutcome, RecordTickFailure, CursorAfterFailure,
                        StampedUntilNow, TypeOK, Task
    <3>5. cooling' \subseteq Users /\ handled' \subseteq Events
      BY <2>4, <3>1 DEF RecordTickOutcome, RecordTickFailure, TypeOK, Task
    <3>6. UNCHANGED <<event, quiet, job, window>>
      BY <2>4 DEF RecordTickOutcome, RecordTickFailure
    <3> QED
      BY <2>2, <3>3, <3>4, <3>5, <3>6 DEF TypeOK, Task
  <2> QED
    BY <1>4, <2>3, <2>4
<1> QED
  BY <1>1, <1>2, <1>3, <1>4 DEF TickStep

LEMMA EnvironmentKeepsTypes ==
  ASSUME TypeInv, Environment PROVE TypeInv'
<1> USE DEF TypeInv
<1>1. CASE Restart
  <2>1. /\ tick' = [t \in Ticks |-> NoTick] /\ slots' = MaxConcurrent
        /\ window' = 0 /\ job' = NoJob
        /\ UNCHANGED <<cooling, arrivals, spent>>
    BY <1>1 DEF Restart
  <2>2. TurnsAreLeft'
    BY <2>1 DEF TurnsAreLeft, NoTick
  <2>3. Busy' = {}
    BY <2>1 DEF Busy
  <2>4. SlotsAreBalanced'
    BY <2>1, <2>3, BoundsAssumption, FS_EmptySet DEF SlotsAreBalanced, Busy
  <2>5. MaxConcurrent \in 0..MaxConcurrent /\ 0 \in 0..MaxPerMinute
    BY BoundsAssumption
  <2>6. /\ NoJob \in [phase : {"idle", "dispatching", "waiting"}, queue : Seq(Users)]
        /\ NoJob.phase = "idle"
    BY DEF NoJob
  <2>7. TypeOK'
    BY <2>1, <2>5, <2>6 DEF TypeOK
  <2> QED
    BY <2>2, <2>4, <2>7
<1>2. ASSUME NEW u \in Users, CooldownEnds(u) PROVE TypeInv'
  BY <1>2 DEF CooldownEnds, scheduler, TypeOK, TurnsAreLeft, SlotsAreBalanced
<1>3. ASSUME NEW e \in Events, Stamp(e) \/ EventOccurs(e) PROVE TypeInv'
  BY <1>3 DEF Stamp, EventOccurs, TypeOK, TurnsAreLeft, SlotsAreBalanced
<1>6. CASE SecondPasses
  BY <1>6 DEF SecondPasses, TypeOK, TurnsAreLeft, SlotsAreBalanced
<1>4. CASE Midnight
  BY <1>4 DEF Midnight, TypeOK, TurnsAreLeft, SlotsAreBalanced
<1>5. CASE MinutePasses
  <2>1. window' \in 0..MaxPerMinute
    BY <1>5, BoundsAssumption DEF MinutePasses, TypeOK
  <2> QED
    BY <1>5, <2>1 DEF MinutePasses, TypeOK, TurnsAreLeft, SlotsAreBalanced
<1> QED
  BY <1>1, <1>2, <1>3, <1>4, <1>5, <1>6 DEF Environment

LEMMA TypeIsInvariant == Spec => []TypeInv
<1>1. TypeInv /\ [Next]_vars => TypeInv'
  <2>1. TypeInv /\ Next => TypeInv'
    BY JobKeepsTypes, TickKeepsTypes, EnvironmentKeepsTypes DEF Next
  <2>2. TypeInv /\ UNCHANGED vars => TypeInv'
    BY DEF vars, TypeInv, TypeOK, TurnsAreLeft, SlotsAreBalanced
  <2> QED
    BY <2>1, <2>2
<1> QED
  BY <1>1, TypeInit, PTL DEF Spec

\* The rows, the queue and the tasks keep their types; a task never uses more
\* than MAX_TURNS_PER_TICK turns.
THEOREM TickTypeCorrect == Spec => []TypeOK
<1>1. TypeInv => TypeOK
  BY DEF TypeInv
<1> QED
  BY <1>1, TypeIsInvariant, PTL

\* The semaphore and the tasks agree, whatever fails, is skipped or raises.
THEOREM SlotsBalanced == Spec => []SlotsAreBalanced
<1>1. TypeInv => SlotsAreBalanced
  BY DEF TypeInv
<1> QED
  BY <1>1, TypeIsInvariant, PTL

-----------------------------------------------------------------------------
(***************************************************************************)
(* The inbox.  Only three steps matter: an event occurs, a tick reads its  *)
(* inbox, a tick that succeeded moves the cursor.                          *)
(***************************************************************************)

\* No tick comes to be under way, and the inboxes of those that are stay.
NoTickReads ==
    \A t \in Ticks :
       tick'[t].phase \in Phase \ {"spawned", "refused"} =>
          /\ tick[t].phase \in Phase \ {"spawned", "refused"}
          /\ tick'[t].user = tick[t].user
          /\ tick'[t].inbox = tick[t].inbox

LEMMA QuietStepsKeepEvents ==
  ASSUME EventsInv, NoTickReads, UNCHANGED <<event, passed, quiet, handled>>
  PROVE  EventsInv'
  BY DEF EventsInv, QuietEventsAreKnown, UnstampedAreNotPassed, QuietEventsAreHandled,
         NoTickReads, UnderWay

LEMMA JobIsQuiet ==
  ASSUME TypeInv, JobStep
  PROVE  NoTickReads /\ UNCHANGED <<event, passed, quiet, handled>>
<1>1. CASE Discover \/ Consider \/ JobEnds
  BY <1>1 DEF Discover, Consider, JobEnds, NoTickReads
<1>2. ASSUME NEW t \in Ticks, Dispatch(t)
      PROVE  NoTickReads /\ UNCHANGED <<event, passed, quiet, handled>>
  BY <1>2 DEF Dispatch, Spawned, NoTickReads, TypeInv, TypeOK
<1> QED
  BY <1>1, <1>2 DEF JobStep

\* A task that ends reads nothing.
LEMMA EndingIsQuiet ==
  ASSUME TypeInv, NEW t \in Ticks, Ends(t)
  PROVE  NoTickReads
  BY NoTickIsNoTask DEF Ends, NoTickReads, TypeInv, TypeOK

LEMMA TickKeepsEvents ==
  ASSUME TypeInv, EventsInv, NEW t \in Ticks, TickStep(t) PROVE EventsInv'
<1>0. /\ tick \in [Ticks -> {NoTick} \cup Task]
      /\ tick[t].phase \in Phase => tick[t] \in Task
  BY PhaseMeansTask DEF TypeInv, TypeOK, Task
<1>1. ASSUME NEW mandated \in BOOLEAN, ReadState(t, mandated) PROVE EventsInv'
  <2> DEFINE u == tick[t].user
  <2>1. tick[t] \in Task
    BY <1>1, <1>0 DEF ReadState, Phase
  <2>2. /\ tick'[t].user = u /\ tick'[t].inbox = Inbox(u)
        /\ \A r \in Ticks \ {t} : tick'[r] = tick[r]
        /\ quiet' = quiet \ EventsOf(u, "stamped")
        /\ UNCHANGED <<event, passed, handled>>
    BY <1>0, <1>1, <2>1 DEF ReadState, Task
  <2>3. ASSUME NEW e \in quiet' PROVE e \in quiet /\ (event[e] = "stamped" => Recipient[e] # u)
    <3>1. e \in quiet /\ e \in Events
      BY <2>2, <2>3 DEF TypeInv, TypeOK
    <3> QED
      BY <2>2, <2>3, <3>1 DEF EventsOf
  <2>4. \A e \in quiet' : event[e] = "stamped" => UnderWay(Recipient[e])' = {}
    BY <2>2, <2>3 DEF UnderWay, EventsInv, QuietEventsAreKnown
  <2>5. \A e \in quiet' : event[e] = "committed" /\ e \notin passed =>
           \A r \in UnderWay(Recipient[e])' : e \in tick'[r].inbox
    <3> SUFFICES ASSUME NEW e \in quiet', event[e] = "committed", e \notin passed,
                        NEW r \in UnderWay(Recipient[e])'
                 PROVE  e \in tick'[r].inbox
      OBVIOUS
    <3>1. CASE r = t
      <4>1. e \in Events /\ Recipient[e] = u
        BY <2>2, <2>3, <3>1 DEF UnderWay, TypeInv, TypeOK
      <4> QED
        BY <2>2, <3>1, <4>1 DEF Inbox, EventsOf
    <3>2. CASE r # t
      BY <2>2, <2>3, <3>2 DEF UnderWay, EventsInv, QuietEventsAreKnown
    <3> QED
      BY <3>1, <3>2
  <2>6. QuietEventsAreKnown'
    BY <2>2, <2>3, <2>4, <2>5 DEF EventsInv, QuietEventsAreKnown
  <2>7. UnstampedAreNotPassed' /\ QuietEventsAreHandled'
    BY <2>2, <2>3 DEF EventsInv, UnstampedAreNotPassed, QuietEventsAreHandled
  <2> QED
    BY <2>6, <2>7 DEF EventsInv
<1>2. CASE CheckGlobalCap(t) \/ CheckUserCap(t) \/ ClaudeFails(t)
  <2>1. tick[t] \in Task /\ tick[t].phase \in Phase \ {"spawned", "refused"}
    BY <1>2, <1>0 DEF CheckGlobalCap, CheckUserCap, ClaudeFails, Phase
  <2>2. PICK p \in Phase : tick' = [tick EXCEPT ![t].phase = p]
    BY <1>2 DEF CheckGlobalCap, CheckUserCap, ClaudeFails, Phase
  <2>3. NoTickReads
    BY <1>0, <2>1, <2>2 DEF NoTickReads, Task
  <2> QED
    BY <1>2, <2>3, QuietStepsKeepEvents DEF CheckGlobalCap, CheckUserCap, ClaudeFails
<1>3. ASSUME NEW cost \in TurnCosts, NEW finished \in BOOLEAN, Turn(t, cost, finished)
      PROVE  EventsInv'
  <2>1. tick[t] \in Task /\ tick[t].phase \in Phase \ {"spawned", "refused"}
    BY <1>3, <1>0 DEF Turn, Phase
  <2>2. tick' = [tick EXCEPT ![t] = Answered(tick[t], cost, finished)]
    BY <1>3 DEF Turn
  <2>3. /\ Answered(tick[t], cost, finished).user = tick[t].user
        /\ Answered(tick[t], cost, finished).inbox = tick[t].inbox
    BY <2>1 DEF Answered, Task
  <2>4. NoTickReads
    BY <1>0, <2>1, <2>2, <2>3 DEF NoTickReads
  <2> QED
    BY <1>3, <2>4, QuietStepsKeepEvents DEF Turn
<1>4. CASE RecordSkip(t) \/ TickRaises(t) \/ RecordTickFailure(t)
  <2>1. Ends(t) /\ UNCHANGED <<event, passed, quiet, handled>>
    BY <1>4 DEF RecordSkip, TickRaises, RecordTickFailure, CursorAfterFailure
  <2> QED
    BY <2>1, EndingIsQuiet, QuietStepsKeepEvents
<1>5. CASE RecordTickOutcome(t)
  <2> DEFINE u == tick[t].user
  <2>1. /\ tick[t] \in Task /\ tick[t].phase = "done"
        /\ passed' = passed \cup StampedUntilNow(u)
        /\ handled' = handled \cup tick[t].inbox
        /\ event' = event /\ quiet' = quiet /\ quiet \subseteq Events
        /\ Ends(t)
    BY <1>5, <1>0 DEF RecordTickOutcome, Phase, TypeInv, TypeOK
  <2>2. NoTickReads
    BY <2>1, EndingIsQuiet
  <2>3. t \in UnderWay(u)
    BY <2>1 DEF UnderWay, Phase
  <2>4. \A e \in quiet : Recipient[e] = u => event[e] # "stamped"
    BY <2>3 DEF EventsInv, QuietEventsAreKnown
  <2>5. QuietEventsAreKnown'
    BY <2>1, <2>2, <2>4 DEF NoTickReads, UnderWay, EventsInv, QuietEventsAreKnown, StampedUntilNow
  <2>6. UnstampedAreNotPassed'
    BY <2>1 DEF EventsInv, UnstampedAreNotPassed, StampedUntilNow
  <2>7. ASSUME NEW e \in quiet, event[e] = "committed", e \in passed' PROVE e \in handled'
    <3>1. CASE e \in passed
      BY <2>1, <2>7, <3>1 DEF EventsInv, QuietEventsAreHandled
    <3>2. CASE e \notin passed
      <4>1. Recipient[e] = u
        BY <2>1, <2>7, <3>2 DEF StampedUntilNow
      <4>2. e \in tick[t].inbox
        BY <2>3, <2>7, <3>2, <4>1 DEF EventsInv, QuietEventsAreKnown
      <4> QED
        BY <2>1, <4>2
    <3> QED
      BY <3>1, <3>2
  <2>8. QuietEventsAreHandled'
    BY <2>1, <2>7 DEF QuietEventsAreHandled
  <2> QED
    BY <2>5, <2>6, <2>8 DEF EventsInv
<1> QED
  BY <1>1, <1>2, <1>3, <1>4, <1>5 DEF TickStep

LEMMA EnvironmentKeepsEvents ==
  ASSUME TypeInv, EventsInv, Environment PROVE EventsInv'
<1>0. /\ event \in [Events -> {"none", "stamped", "committed"}]
      /\ quiet \subseteq Events /\ passed \subseteq Events
  BY DEF TypeInv, TypeOK
<1>1. ASSUME NEW e \in Events, Stamp(e) PROVE EventsInv'
  <2>1. /\ event' = [event EXCEPT ![e] = "stamped"] /\ event[e] = "none"
        /\ passed' = IF StampedTooLate(e) THEN passed \cup {e} ELSE passed
        /\ quiet' = IF UnderWay(Recipient[e]) = {} /\ ~StampedTooLate(e)
                    THEN quiet \cup {e} ELSE quiet
        /\ handled' = handled /\ tick' = tick
    BY <1>1 DEF Stamp
  <2>2. e \notin quiet /\ e \notin passed
    BY <2>1 DEF EventsInv, QuietEventsAreKnown, UnstampedAreNotPassed
  <2>3. \A f \in Events \ {e} : /\ event'[f] = event[f]
                                /\ f \in passed' <=> f \in passed
                                /\ f \in quiet' <=> f \in quiet
    BY <1>0, <2>1
  <2>4. /\ event'[e] = "stamped"
        /\ e \in quiet' => e \notin passed' /\ UnderWay(Recipient[e]) = {}
    BY <1>0, <2>1, <2>2
  <2>5. \A f \in Events : UnderWay(Recipient[f])' = UnderWay(Recipient[f])
    BY <2>1 DEF UnderWay
  <2>6. quiet' \subseteq Events /\ passed' \subseteq Events
    BY <1>0, <2>1
  <2>7. QuietEventsAreKnown'
    BY <2>1, <2>3, <2>4, <2>5, <2>6 DEF EventsInv, QuietEventsAreKnown
  <2>8. UnstampedAreNotPassed' /\ QuietEventsAreHandled'
    BY <2>1, <2>3, <2>4, <2>6 DEF EventsInv, UnstampedAreNotPassed, QuietEventsAreHandled
  <2> QED
    BY <2>7, <2>8 DEF EventsInv
<1>2. ASSUME NEW e \in Events, EventOccurs(e) PROVE EventsInv'
  <2>1. /\ event' = [event EXCEPT ![e] = "committed"] /\ event[e] = "stamped"
        /\ UNCHANGED <<passed, quiet, handled, tick>>
    BY <1>2 DEF EventOccurs
  <2>2. \A f \in Events : UnderWay(Recipient[f])' = UnderWay(Recipient[f])
    BY <2>1 DEF UnderWay
  <2>3. \A f \in Events \ {e} : event'[f] = event[f]
    BY <1>0, <2>1
  <2>4. event'[e] = "committed" /\ (e \in quiet => e \notin passed /\ UnderWay(Recipient[e]) = {})
    BY <1>0, <2>1 DEF EventsInv, QuietEventsAreKnown
  <2>5. QuietEventsAreKnown'
    BY <1>0, <2>1, <2>2, <2>3, <2>4 DEF EventsInv, QuietEventsAreKnown
  <2>6. UnstampedAreNotPassed' /\ QuietEventsAreHandled'
    BY <1>0, <2>1, <2>3, <2>4 DEF EventsInv, UnstampedAreNotPassed, QuietEventsAreHandled
  <2> QED
    BY <2>5, <2>6 DEF EventsInv
<1>3. CASE Restart
  <2>1. \A t \in Ticks : tick'[t].phase \notin Phase
    BY <1>3, NoTickIsNoTask DEF Restart
  <2> QED
    BY <1>3, <2>1, QuietStepsKeepEvents DEF Restart, NoTickReads
<1>4. CASE SecondPasses \/ Midnight \/ MinutePasses \/ \E u \in Users : CooldownEnds(u)
  <2>1. tick' = tick /\ UNCHANGED <<event, passed, quiet, handled>>
    BY <1>4 DEF SecondPasses, Midnight, MinutePasses, CooldownEnds
  <2> QED
    BY <2>1, QuietStepsKeepEvents DEF NoTickReads
<1> QED
  BY <1>1, <1>2, <1>3, <1>4 DEF Environment

\* An event that is stamped and committed while no tick of its user is under
\* way - and, if an offer, not in the second in which one has ended - is
\* passed by the cursor only once a tick that succeeded has known of it.
THEOREM QuietEventsHandled == Spec => []QuietEventsAreHandled
<1>1. Init => EventsInv
  BY DEF Init, EventsInv, QuietEventsAreKnown, UnstampedAreNotPassed, QuietEventsAreHandled
<1>2. TypeInv /\ EventsInv /\ [Next]_vars => EventsInv'
  <2>1. ASSUME TypeInv, EventsInv, JobStep PROVE EventsInv'
    BY <2>1, JobIsQuiet, QuietStepsKeepEvents
  <2>2. ASSUME TypeInv, EventsInv, UNCHANGED vars PROVE EventsInv'
    BY <2>2 DEF vars, EventsInv, QuietEventsAreKnown, UnstampedAreNotPassed,
                QuietEventsAreHandled, UnderWay
  <2> QED
    BY <2>1, <2>2, TickKeepsEvents, EnvironmentKeepsEvents DEF Next
<1>3. EventsInv => QuietEventsAreHandled
  BY DEF EventsInv
<1> QED
  BY <1>1, <1>2, <1>3, TypeIsInvariant, PTL DEF Spec

-----------------------------------------------------------------------------
(***************************************************************************)
(* The cost of a user.  A tick is let into the loop only while its user is *)
(* below the cap, and at most MaxConcurrent ticks can be in it; from then  *)
(* on what it adds to the row is what it takes from the allowance.         *)
(***************************************************************************)

CostInv == CapIsNotReached /\ TicksAreCapped /\ UserCostIsBounded

\* More of what is not negative is not less.
LEMMA ProductIsMonotone ==
  ASSUME NEW a \in Nat, NEW b \in Nat, NEW m \in Nat, a <= b
  PROVE  a * m <= b * m /\ (a + 1) * m = a * m + m /\ a * m \in Nat
<1>1. PICK d \in Nat : b = a + d
  <2>1. b - a \in Nat /\ b = a + (b - a)
    OBVIOUS
  <2> QED
    BY <2>1
<1>2. b * m = a * m + d * m
  BY <1>1
<1>3. d * m \in Nat /\ a * m \in Nat
  OBVIOUS
<1> QED
  BY <1>2, <1>3

LEMMA DearestTurn ==
  Max(TurnCosts) \in Nat /\ \A c \in TurnCosts : c \in Nat /\ c <= Max(TurnCosts)
<1>1. PICK dearest \in TurnCosts : \A c \in TurnCosts : dearest >= c
  BY BoundsAssumption
<1>2. Max(TurnCosts) \in TurnCosts /\ \A c \in TurnCosts : Max(TurnCosts) >= c
  BY <1>1 DEF Max
<1> QED
  BY <1>2, BoundsAssumption

LEMMA MaxTickCostIsNat == MaxTickCost \in Nat
<1> DEFINE top == Max(TurnCosts)
<1>1. top \in Nat /\ TickCap \in Nat /\ MaxTurns \in Nat
  BY DearestTurn, BoundsAssumption
<1>2. MaxTickCost = IF TickCap = 0 THEN MaxTurns * top ELSE TickCap - 1 + top
  BY DEF MaxTickCost
<1> HIDE DEF top
<1>3. MaxTurns * top \in Nat
  BY <1>1, ProductIsMonotone
<1> QED
  BY <1>1, <1>2, <1>3

\* A tick that has not reached its cap and has a turn left can afford the turn.
LEMMA OneTurnMore ==
  ASSUME NEW k \in Nat, NEW n \in Nat, n < MaxTurns, k <= n * Max(TurnCosts),
         TickCap # 0 => k < TickCap, NEW c \in TurnCosts
  PROVE  /\ k <= MaxTickCost
         /\ k + c \in Nat /\ k + c <= MaxTickCost
         /\ k + c <= (n + 1) * Max(TurnCosts)
<1> DEFINE top == Max(TurnCosts)
<1>1. top \in Nat /\ c \in Nat /\ c <= top /\ TickCap \in Nat /\ MaxTurns \in Nat
  BY DearestTurn, BoundsAssumption
<1>2. k <= n * top
  OBVIOUS
<1>3. MaxTickCost = IF TickCap = 0 THEN MaxTurns * top ELSE TickCap - 1 + top
  BY DEF MaxTickCost
<1> HIDE DEF top
<1>4. (n + 1) * top = n * top + top /\ n * top \in Nat
  BY <1>1, ProductIsMonotone
<1>5. (n + 1) * top <= MaxTurns * top /\ MaxTurns * top \in Nat
  BY <1>1, ProductIsMonotone
<1>6. k + c <= (n + 1) * top
  BY <1>1, <1>2, <1>4
<1>7. k + c <= MaxTickCost
  BY <1>1, <1>3, <1>4, <1>5, <1>6
<1> QED
  BY <1>1, <1>3, <1>6, <1>7, MaxTickCostIsNat DEF top

\* No set of tasks is larger than the semaphore.
LEMMA TasksAreBounded ==
  ASSUME TypeInv, NEW S \in SUBSET Busy
  PROVE  IsFiniteSet(S) /\ Cardinality(S) \in Nat /\ Cardinality(S) <= MaxConcurrent
<1>1. IsFiniteSet(Busy) /\ Cardinality(Busy) \in Nat /\ slots + Cardinality(Busy) = MaxConcurrent
  BY BusyIsFinite DEF TypeInv
<1>2. IsFiniteSet(S) /\ Cardinality(S) <= Cardinality(Busy)
  BY <1>1, FS_Subset
<1>3. Cardinality(S) \in Nat
  BY <1>2, FS_CardinalityType
<1>4. slots \in Nat /\ MaxConcurrent \in Nat
  BY BoundsAssumption DEF TypeInv, TypeOK
<1> QED
  BY <1>1, <1>2, <1>3, <1>4

LEMMA ChargingIsBusy ==
  ASSUME NEW u PROVE ChargingOf(u) \in SUBSET Busy
  BY NoTickIsNoTask DEF ChargingOf, Charging, Busy, Phase

\* Spending below a cap leaves room for every tick there can be.
LEMMA BelowTheCapThereIsRoom ==
  ASSUME NEW n \in Nat, n <= MaxConcurrent, NEW s \in Nat, NEW cap \in {UserCap, GlobalCap}, s < cap
  PROVE  s + n * MaxTickCost <= cap - 1 + MaxConcurrent * MaxTickCost
<1>1. MaxConcurrent \in Nat /\ cap \in Nat
  BY BoundsAssumption
<1>2. n * MaxTickCost <= MaxConcurrent * MaxTickCost /\ n * MaxTickCost \in Nat
  BY <1>1, MaxTickCostIsNat, ProductIsMonotone
<1>3. MaxConcurrent * MaxTickCost \in Nat
  BY <1>1, MaxTickCostIsNat, ProductIsMonotone
<1> QED
  BY <1>1, <1>2, <1>3

\* A charge of at most MaxTickCost that leaves one tick less to be charged for
\* keeps to the same allowance, and so does no charge and no tick more.
LEMMA ChargeTakesATick ==
  ASSUME NEW B, IsFiniteSet(B), NEW S \in SUBSET B, NEW s \in Nat, NEW room \in Int,
         s + Overrun(B) <= room,
         NEW c \in Nat, c <= MaxTickCost, c > 0 => S # B
  PROVE  s + c + Overrun(S) <= room
<1> DEFINE n == Cardinality(B)
           m == Cardinality(S)
<1>1. n \in Nat
  BY FS_CardinalityType
<1>2. m \in Nat /\ m <= n /\ (c > 0 => m < n)
  <2>1. IsFiniteSet(S) /\ m <= n /\ (m = n => S = B)
    BY FS_Subset
  <2>2. m \in Nat
    BY <2>1, FS_CardinalityType
  <2> QED
    BY <1>1, <2>1, <2>2
<1>3. s + n * MaxTickCost <= room
  BY DEF Overrun
<1> HIDE DEF n, m
<1>4. m * MaxTickCost <= n * MaxTickCost /\ m * MaxTickCost \in Nat /\ n * MaxTickCost \in Nat
  BY <1>1, <1>2, MaxTickCostIsNat, ProductIsMonotone
<1>5. c > 0 => m * MaxTickCost + MaxTickCost <= n * MaxTickCost
  BY <1>1, <1>2, MaxTickCostIsNat, ProductIsMonotone
<1>6. s + c + m * MaxTickCost <= room
  BY <1>3, <1>4, <1>5, MaxTickCostIsNat
<1> QED
  BY <1>6 DEF m, Overrun

LEMMA AllowanceIsInt ==
  ASSUME NEW cap \in {UserCap, GlobalCap}
  PROVE  cap - 1 + MaxConcurrent * MaxTickCost \in Int
<1>1. cap \in Nat /\ MaxConcurrent \in Nat
  BY BoundsAssumption
<1>2. MaxConcurrent * MaxTickCost \in Nat
  BY <1>1, MaxTickCostIsNat, ProductIsMonotone
<1> QED
  BY <1>1, <1>2

LEMMA AllowanceIsKept ==
  ASSUME TypeInv, UserCostIsBounded, NEW u \in Users, NEW S \in SUBSET ChargingOf(u),
         NEW c \in Nat, c <= MaxTickCost, c > 0 => S # ChargingOf(u)
  PROVE  spent[u] + c + Overrun(S) <= UserCap - 1 + MaxConcurrent * MaxTickCost
<1>1. IsFiniteSet(ChargingOf(u))
  BY TasksAreBounded, ChargingIsBusy
<1>2. spent[u] \in Nat
  BY DEF TypeInv, TypeOK
<1>3. spent[u] + Overrun(ChargingOf(u)) <= UserCap - 1 + MaxConcurrent * MaxTickCost
  BY DEF UserCostIsBounded
<1> QED
  BY <1>1, <1>2, <1>3, AllowanceIsInt, ChargeTakesATick

\* A step that charges nobody and lets no tick into the loop.
LEMMA NobodyIsCharged ==
  ASSUME TypeInv, UserCostIsBounded, spent' = spent,
         \A u \in Users : ChargingOf(u)' \subseteq ChargingOf(u)
  PROVE  UserCostIsBounded'
<1> SUFFICES ASSUME NEW u \in Users
             PROVE  spent[u] + Overrun(ChargingOf(u)') <= UserCap - 1 + MaxConcurrent * MaxTickCost
  BY DEF UserCostIsBounded, Overrun
<1>1. spent[u] + 0 + Overrun(ChargingOf(u)') <= UserCap - 1 + MaxConcurrent * MaxTickCost
  BY MaxTickCostIsNat, AllowanceIsKept
<1> QED
  BY <1>1 DEF TypeInv, TypeOK

LEMMA CostInit == Init => CostInv
<1> SUFFICES ASSUME Init PROVE CostInv
  OBVIOUS
<1>1. \A t \in Ticks : tick[t] = NoTick
  BY DEF Init
<1>2. CapIsNotReached /\ TicksAreCapped
  BY <1>1 DEF CapIsNotReached, TicksAreCapped, Charging, NoTick
<1>3. \A u \in Users : spent[u] = 0 /\ ChargingOf(u) = {}
  BY <1>1 DEF Init, ChargingOf, Charging, NoTick
<1>4. 0 + Overrun({}) <= UserCap - 1 + MaxConcurrent * MaxTickCost
  BY BoundsAssumption, FS_EmptySet, BelowTheCapThereIsRoom DEF Overrun
<1>5. UserCostIsBounded
  BY <1>3, <1>4 DEF UserCostIsBounded
<1> QED
  BY <1>2, <1>5 DEF CostInv

LEMMA JobKeepsCost ==
  ASSUME TypeInv, CostInv, JobStep PROVE CostInv'
<1>1. CASE Discover \/ Consider \/ JobEnds
  BY <1>1 DEF Discover, Consider, JobEnds, CostInv, CapIsNotReached, TicksAreCapped,
              UserCostIsBounded, ChargingOf, Charging
<1>2. ASSUME NEW t \in Ticks, Dispatch(t) PROVE CostInv'
  <2>1. /\ tick' = [tick EXCEPT ![t] = Spawned(Head(job.queue))]
        /\ spent' = spent /\ t \in DOMAIN tick
    BY <1>2 DEF Dispatch, TypeInv, TypeOK
  <2>2. CapIsNotReached'
    <3>1. BelowItsCap(Spawned(Head(job.queue)))
      BY BoundsAssumption, DearestTurn DEF Spawned, BelowItsCap
    <3> QED
      BY <2>1, <3>1 DEF CostInv, CapIsNotReached
  <2>3. TicksAreCapped'
    BY <2>1 DEF Spawned, CostInv, TicksAreCapped, Charging
  <2>4. \A u \in Users : ChargingOf(u)' \subseteq ChargingOf(u)
    BY <2>1 DEF Spawned, ChargingOf, Charging
  <2> QED
    BY <2>1, <2>2, <2>3, <2>4, NobodyIsCharged DEF CostInv
<1> QED
  BY <1>1, <1>2 DEF JobStep

LEMMA TickKeepsCost ==
  ASSUME TypeInv, CostInv, NEW t \in Ticks, TickStep(t) PROVE CostInv'
<1>0. /\ tick \in [Ticks -> {NoTick} \cup Task] /\ t \in DOMAIN tick
      /\ spent \in [Users -> Nat]
      /\ tick[t].phase \in Phase => tick[t] \in Task
  BY PhaseMeansTask DEF TypeInv, TypeOK, Task
<1>1. ASSUME NEW mandated \in BOOLEAN, ReadState(t, mandated) PROVE CostInv'
  <2>1. tick[t] \in Task /\ BelowItsCap(tick[t]) /\ spent' = spent
    BY <1>0, <1>1 DEF ReadState, Phase, CostInv, CapIsNotReached
  <2>2. /\ tick'[t].phase \in {"read", "refused"}
        /\ tick'[t].cost = tick[t].cost /\ tick'[t].turns = tick[t].turns
        /\ \A r \in Ticks \ {t} : tick'[r] = tick[r]
    BY <1>0, <1>1, <2>1 DEF ReadState, Task
  <2>3. CapIsNotReached' /\ TicksAreCapped'
    BY <2>1, <2>2 DEF CostInv, CapIsNotReached, BelowItsCap, TicksAreCapped, Charging
  <2>4. \A u \in Users : ChargingOf(u)' \subseteq ChargingOf(u)
    BY <2>2 DEF ChargingOf, Charging
  <2> QED
    BY <2>1, <2>3, <2>4, NobodyIsCharged DEF CostInv
<1>2. CASE CheckGlobalCap(t) \/ ClaudeFails(t)
  <2>1. tick[t] \in Task /\ BelowItsCap(tick[t]) /\ spent' = spent
    BY <1>0, <1>2 DEF CheckGlobalCap, ClaudeFails, Phase, CostInv, CapIsNotReached
  <2>2. /\ tick'[t].phase \in {"checked", "refused"} \/
              (tick[t].phase = "looping" /\ tick'[t].phase = "failed")
        /\ tick'[t].cost = tick[t].cost /\ tick'[t].user = tick[t].user
        /\ tick'[t].turns = tick[t].turns
        /\ \A r \in Ticks \ {t} : tick'[r] = tick[r]
    BY <1>0, <1>2, <2>1 DEF CheckGlobalCap, ClaudeFails, Task
  <2>3. CapIsNotReached' /\ TicksAreCapped'
    BY <2>1, <2>2 DEF CostInv, CapIsNotReached, BelowItsCap, TicksAreCapped, Charging
  <2>4. \A u \in Users : ChargingOf(u)' \subseteq ChargingOf(u)
    BY <2>2 DEF ChargingOf, Charging
  <2> QED
    BY <2>1, <2>3, <2>4, NobodyIsCharged DEF CostInv
<1>3. CASE CheckUserCap(t)
  <2>0. PICK u \in Users : u = tick[t].user
    BY <1>0, <1>3 DEF CheckUserCap, Phase, Task
  <2>1. /\ tick[t] \in Task /\ BelowItsCap(tick[t]) /\ tick[t].turns < MaxTurns
        /\ spent' = spent
    BY <1>0, <1>3 DEF CheckUserCap, Phase, CostInv, CapIsNotReached, TypeInv, TurnsAreLeft
  <2>2. /\ tick'[t].phase = "refused" \/ (tick'[t].phase = "looping" /\ spent[u] < UserCap)
        /\ tick'[t].cost = tick[t].cost /\ tick'[t].user = u /\ tick'[t].turns = tick[t].turns
        /\ \A r \in Ticks \ {t} : tick'[r] = tick[r]
    BY <1>0, <1>3, <2>0, <2>1 DEF CheckUserCap, UserMaySpend, Task
  <2>3. CapIsNotReached' /\ TicksAreCapped'
    <3>1. tick[t].cost \in Nat /\ tick[t].cost <= MaxTickCost
      <4>1. PICK c \in TurnCosts : TRUE
        BY BoundsAssumption
      <4>2. tick[t].cost \in Nat /\ tick[t].turns \in Nat
        BY <2>1, BoundsAssumption DEF Task
      <4> QED
        BY <2>1, <4>1, <4>2, OneTurnMore DEF BelowItsCap
    <3> QED
      BY <2>1, <2>2, <3>1 DEF CostInv, CapIsNotReached, BelowItsCap, TicksAreCapped, Charging
  <2>4. \A v \in Users \ {u} : ChargingOf(v)' \subseteq ChargingOf(v)
    BY <2>2 DEF ChargingOf, Charging
  <2>5. CASE tick'[t].phase = "refused"
    <3>1. ChargingOf(u)' \subseteq ChargingOf(u)
      BY <2>2, <2>5 DEF ChargingOf, Charging
    <3>2. UserCostIsBounded'
      BY <2>1, <2>4, <3>1, NobodyIsCharged DEF CostInv
    <3> QED
      BY <2>3, <3>2 DEF CostInv
  <2>6. CASE tick'[t].phase = "looping" /\ spent[u] < UserCap
    <3>1. ChargingOf(u)' \subseteq Busy
      <4>1. ChargingOf(u)' \subseteq ChargingOf(u) \cup {t}
        BY <2>2 DEF ChargingOf, Charging
      <4>2. t \in Busy
        BY <1>3 DEF CheckUserCap, Busy, NoTick
      <4> QED
        BY <4>1, <4>2, ChargingIsBusy
    <3>2. spent[u] + Overrun(ChargingOf(u)') <= UserCap - 1 + MaxConcurrent * MaxTickCost
      BY <1>0, <2>6, <3>1, TasksAreBounded, BelowTheCapThereIsRoom DEF Overrun
    <3>3. \A v \in Users \ {u} : spent[v] + Overrun(ChargingOf(v)')
                                    <= UserCap - 1 + MaxConcurrent * MaxTickCost
      <4> SUFFICES ASSUME NEW v \in Users \ {u}
                   PROVE  spent[v] + Overrun(ChargingOf(v)')
                             <= UserCap - 1 + MaxConcurrent * MaxTickCost
        OBVIOUS
      <4>1. spent[v] + 0 + Overrun(ChargingOf(v)') <= UserCap - 1 + MaxConcurrent * MaxTickCost
        BY <2>4, MaxTickCostIsNat, AllowanceIsKept DEF CostInv
      <4>2. spent[v] + 0 = spent[v]
        BY <1>0
      <4> QED
        BY <4>1, <4>2
    <3>4. UserCostIsBounded'
      BY <2>1, <3>2, <3>3 DEF UserCostIsBounded, Overrun
    <3> QED
      BY <2>3, <3>4 DEF CostInv
  <2> QED
    BY <2>2, <2>5, <2>6
<1>4. ASSUME NEW cost \in TurnCosts, NEW finished \in BOOLEAN, Turn(t, cost, finished)
      PROVE  CostInv'
  <2> DEFINE k == Answered(tick[t], cost, finished)
  <2>1. /\ tick[t] \in Task /\ tick[t].phase = "looping" /\ spent' = spent
        /\ BelowItsCap(tick[t]) /\ tick[t].cost \in Nat
        /\ tick[t].turns \in Nat /\ tick[t].turns < MaxTurns
    BY <1>0, <1>4, BoundsAssumption DEF Turn, Phase, CostInv, CapIsNotReached, Task, TypeInv,
                                        TurnsAreLeft
  <2>2. /\ tick' = [tick EXCEPT ![t] = k]
        /\ k.cost = tick[t].cost + cost /\ k.turns = tick[t].turns + 1
        /\ k.user = tick[t].user
        /\ k.phase \in {"failed", "done", "looping"}
        /\ k.phase = "looping" => ~(TickCap # 0 /\ k.cost >= TickCap)
    BY <1>4, <2>1 DEF Turn, Answered, Task
  <2> HIDE DEF k
  <2>3. /\ k.cost \in Nat /\ k.cost <= MaxTickCost /\ TickCap \in Nat
        /\ k.cost <= k.turns * Max(TurnCosts)
    BY <2>1, <2>2, OneTurnMore, BoundsAssumption DEF BelowItsCap
  <2>4. CapIsNotReached' /\ TicksAreCapped'
    <3>1. k.phase = "looping" => BelowItsCap(k)
      BY <2>2, <2>3 DEF BelowItsCap
    <3>2. CapIsNotReached'
      BY <1>0, <2>2, <3>1 DEF CostInv, CapIsNotReached
    <3> QED
      BY <1>0, <2>2, <2>3, <3>2 DEF CostInv, TicksAreCapped, Charging
  <2>5. \A u \in Users : ChargingOf(u)' \subseteq ChargingOf(u)
    BY <1>0, <2>1, <2>2 DEF ChargingOf, Charging
  <2> QED
    BY <2>1, <2>4, <2>5, NobodyIsCharged DEF CostInv
<1>5. CASE RecordSkip(t) \/ TickRaises(t) \/ RecordTickOutcome(t) \/ RecordTickFailure(t)
  <2>1. tick' = [tick EXCEPT ![t] = NoTick]
    BY <1>5 DEF RecordSkip, TickRaises, RecordTickOutcome, RecordTickFailure, Ends
  <2>2. CapIsNotReached' /\ TicksAreCapped'
    BY <1>0, <2>1 DEF NoTick, CostInv, CapIsNotReached, TicksAreCapped, Charging
  <2>3. \A u \in Users : ChargingOf(u)' = ChargingOf(u) \ {t}
    BY <1>0, <2>1 DEF NoTick, ChargingOf, Charging
  <2>4. CASE spent' = spent
    BY <2>2, <2>3, <2>4, NobodyIsCharged DEF CostInv
  <2>5. CASE RecordTickOutcome(t) \/ RecordTickFailure(t)
    <3> DEFINE u == tick[t].user
    <3>1. /\ tick[t] \in Task /\ t \in ChargingOf(u) /\ u \in Users
          /\ tick[t].cost \in Nat
          /\ spent' = [spent EXCEPT ![u] = @ + tick[t].cost]
      BY <1>0, <2>5 DEF RecordTickOutcome, RecordTickFailure, Phase, Task, ChargingOf,
                        Charging, Charged
    <3>2. tick[t].cost <= MaxTickCost
      BY <3>1 DEF CostInv, TicksAreCapped, ChargingOf
    <3>3. ASSUME NEW v \in Users
          PROVE  spent'[v] + Overrun(ChargingOf(v)') <= UserCap - 1 + MaxConcurrent * MaxTickCost
      <4>1. CASE v = u
        <5>1. ChargingOf(v)' \subseteq ChargingOf(v) /\ ChargingOf(v)' # ChargingOf(v)
          BY <2>3, <3>1, <4>1
        <5>2. spent[v] + tick[t].cost + Overrun(ChargingOf(v)')
                 <= UserCap - 1 + MaxConcurrent * MaxTickCost
          BY <3>1, <3>2, <5>1, AllowanceIsKept DEF CostInv
        <5> QED
          BY <1>0, <3>1, <4>1, <5>2
      <4>2. CASE v # u
        <5>1. spent[v] + 0 + Overrun(ChargingOf(v)')
                 <= UserCap - 1 + MaxConcurrent * MaxTickCost
          BY <2>3, MaxTickCostIsNat, AllowanceIsKept DEF CostInv
        <5>2. spent'[v] = spent[v] + 0
          BY <1>0, <3>1, <4>2
        <5> QED
          BY <5>1, <5>2
      <4> QED
        BY <4>1, <4>2
    <3>4. UserCostIsBounded'
      BY <3>3 DEF UserCostIsBounded, Overrun
    <3> QED
      BY <2>2, <3>4 DEF CostInv
  <2> QED
    BY <1>5, <2>4, <2>5 DEF RecordSkip, TickRaises
<1> QED
  BY <1>1, <1>2, <1>3, <1>4, <1>5 DEF TickStep

LEMMA EnvironmentKeepsCost ==
  ASSUME TypeInv, CostInv, Environment PROVE CostInv'
<1>1. CASE Restart
  <2>1. \A t \in Ticks : tick'[t] = NoTick
    BY <1>1 DEF Restart
  <2>2. CapIsNotReached' /\ TicksAreCapped'
    BY <2>1 DEF NoTick, CapIsNotReached, TicksAreCapped, Charging
  <2>3. \A u \in Users : ChargingOf(u)' \subseteq ChargingOf(u)
    BY <2>1 DEF NoTick, ChargingOf, Charging
  <2> QED
    BY <1>1, <2>2, <2>3, NobodyIsCharged DEF Restart, CostInv
<1>2. CASE Midnight
  <2>1. tick' = tick /\ spent' = [u \in Users |-> 0]
    BY <1>2 DEF Midnight
  <2>2. ASSUME NEW u \in Users
        PROVE  spent'[u] + Overrun(ChargingOf(u)') <= UserCap - 1 + MaxConcurrent * MaxTickCost
    <3>1. ChargingOf(u)' = ChargingOf(u) /\ spent'[u] = 0
      BY <2>1 DEF ChargingOf, Charging
    <3>2. /\ Cardinality(ChargingOf(u)) \in Nat
          /\ Cardinality(ChargingOf(u)) <= MaxConcurrent
      BY TasksAreBounded, ChargingIsBusy
    <3> QED
      BY <3>1, <3>2, BoundsAssumption, BelowTheCapThereIsRoom DEF Overrun
  <2>3. UserCostIsBounded'
    BY <2>2 DEF UserCostIsBounded, Overrun
  <2> QED
    BY <2>1, <2>3 DEF CostInv, CapIsNotReached, TicksAreCapped, Charging
<1>3. CASE \/ SecondPasses \/ MinutePasses \/ \E u \in Users : CooldownEnds(u)
           \/ \E e \in Events : Stamp(e) \/ EventOccurs(e)
  <2>1. tick' = tick /\ spent' = spent
    BY <1>3 DEF SecondPasses, MinutePasses, CooldownEnds, Stamp, EventOccurs
  <2> QED
    BY <2>1 DEF CostInv, CapIsNotReached, TicksAreCapped, UserCostIsBounded, ChargingOf, Charging
<1> QED
  BY <1>1, <1>2, <1>3 DEF Environment

-----------------------------------------------------------------------------
(* What the fold of TotalSpent computes.  A charge changes it by the cost,  *)
(* because a recursion has one solution and adding the cost to every set    *)
(* with the user solves the new one.                                        *)

AddsUp(g, f) ==
    g = [s \in SUBSET Users |->
            IF s = {} THEN 0
            ELSE f[CHOOSE x \in s : TRUE] + g[s \ {CHOOSE x \in s : TRUE}]]

\* A function on the users has a sum, as every function on a finite set does.
HasSum(f) == \E g \in [SUBSET Users -> Nat] : AddsUp(g, f)

SumOf(f) == LET g == CHOOSE g : AddsUp(g, f) IN g[Users]

LEMMA TotalIsSum ==
  ASSUME TypeInv PROVE TotalSpent = SumOf(spent)
<1>1. DOMAIN spent = Users
  BY DEF TypeInv, TypeOK
<1> QED
  BY <1>1 DEF TotalSpent, FoldFunction, FoldFunctionOnSet, MapThenFoldSet, SumOf, AddsUp

LEMMA SumIsUnique ==
  ASSUME NEW f, NEW g, NEW h, AddsUp(g, f), AddsUp(h, f)
  PROVE  g = h
<1> DEFINE Apart == {s \in SUBSET Users : g[s] # h[s]}
<1>1. SUFFICES Apart = {}
  BY <1>1 DEF AddsUp
<1>2. SUFFICES ASSUME Apart # {} PROVE FALSE
  BY <1>2
<1>3. IsWellFoundedOn(StrictSubsetOrdering(Users), SUBSET Users)
  BY SetsAssumption, FS_StrictSubsetOrderingWellFounded, FS_FiniteSubsetsOfFinite
<1>4. PICK s \in Apart : \A r \in Apart : <<r, s>> \notin StrictSubsetOrdering(Users)
  <2>1. Apart \subseteq SUBSET Users
    OBVIOUS
  <2> HIDE DEF Apart
  <2> QED
    BY <1>2, <1>3, <2>1, WFMin
<1>5. s # {}
  BY DEF AddsUp
<1> DEFINE x == CHOOSE x \in s : TRUE
<1>6. x \in s
  BY <1>5
<1>7. g[s] = f[x] + g[s \ {x}] /\ h[s] = f[x] + h[s \ {x}]
  BY <1>5 DEF AddsUp
<1> HIDE DEF x
<1>8. s \ {x} \in SUBSET Users /\ <<s \ {x}, s>> \in StrictSubsetOrdering(Users)
  BY <1>6 DEF StrictSubsetOrdering
<1>9. s \ {x} \notin Apart
  BY <1>4, <1>8
<1> QED
  BY <1>7, <1>8, <1>9

LEMMA TheSum ==
  ASSUME NEW f, NEW g, AddsUp(g, f)
  PROVE  SumOf(f) = g[Users]
<1> DEFINE h == CHOOSE h : AddsUp(h, f)
<1>1. SumOf(f) = h[Users]
  BY DEF SumOf
<1>2. AddsUp(h, f)
  OBVIOUS
<1> HIDE DEF h
<1> QED
  BY <1>1, <1>2, SumIsUnique

LEMMA SumOfNone ==
  LET none == [u \in Users |-> 0]
  IN  HasSum(none) /\ SumOf(none) = 0
<1> DEFINE none == [u \in Users |-> 0]
           g == [s \in SUBSET Users |-> 0]
<1>1. AddsUp(g, none)
  <2> SUFFICES ASSUME NEW s \in SUBSET Users, s # {}
               PROVE  0 = none[CHOOSE x \in s : TRUE] + g[s \ {CHOOSE x \in s : TRUE}]
    BY DEF AddsUp
  <2> DEFINE x == CHOOSE x \in s : TRUE
  <2>1. x \in s
    OBVIOUS
  <2> HIDE DEF x
  <2>2. none[x] = 0 /\ g[s \ {x}] = 0
    BY <2>1
  <2> QED
    BY <2>2 DEF x
<1>2. g \in [SUBSET Users -> Nat] /\ g[Users] = 0
  OBVIOUS
<1> HIDE DEF g, none
<1>3. SumOf(none) = g[Users]
  BY <1>1, TheSum
<1>4. HasSum(none) /\ SumOf(none) = 0
  BY <1>1, <1>2, <1>3 DEF HasSum
<1> QED
  BY <1>4 DEF none

\* A charge adds its cost to the sum of every set with the user.
LEMMA ChargeSolves ==
  ASSUME TypeInv, NEW g \in [SUBSET Users -> Nat], AddsUp(g, spent),
         NEW u \in Users, NEW c \in Nat
  PROVE  AddsUp([s \in SUBSET Users |-> g[s] + IF u \in s THEN c ELSE 0], Charged(u, c))
<1> DEFINE h == [s \in SUBSET Users |-> g[s] + IF u \in s THEN c ELSE 0]
<1> SUFFICES ASSUME NEW s \in SUBSET Users
             PROVE  h[s] = IF s = {} THEN 0
                           ELSE Charged(u, c)[CHOOSE x \in s : TRUE]
                                + h[s \ {CHOOSE x \in s : TRUE}]
  BY DEF AddsUp
<1>1. spent \in [Users -> Nat]
  BY DEF TypeInv, TypeOK
<1>2. CASE s = {}
  BY <1>2 DEF AddsUp
<1>3. CASE s # {}
  <2> DEFINE x == CHOOSE x \in s : TRUE
  <2>1. x \in s
    BY <1>3
  <2>2. g[s] = spent[x] + g[s \ {x}]
    BY <1>3 DEF AddsUp
  <2> HIDE DEF x
  <2>3. Charged(u, c)[x] = spent[x] + IF x = u THEN c ELSE 0
    BY <1>1, <2>1 DEF Charged
  <2>4. s \ {x} \in SUBSET Users /\ spent[x] \in Nat /\ g[s \ {x}] \in Nat
    BY <1>1, <2>1
  <2>5. h[s \ {x}] = g[s \ {x}] + IF u \in s /\ u # x THEN c ELSE 0
    BY <2>4
  <2>6. h[s] = spent[x] + g[s \ {x}] + IF u \in s THEN c ELSE 0
    BY <2>2
  <2>7. h[s] = Charged(u, c)[x] + h[s \ {x}]
    BY <2>1, <2>3, <2>4, <2>5, <2>6
  <2> QED
    BY <1>3, <2>7 DEF x
<1> QED
  BY <1>2, <1>3

LEMMA SumIsCharged ==
  ASSUME TypeInv, HasSum(spent), NEW u \in Users, NEW c \in Nat
  PROVE  HasSum(Charged(u, c)) /\ SumOf(Charged(u, c)) = SumOf(spent) + c
<1>1. PICK g \in [SUBSET Users -> Nat] : AddsUp(g, spent)
  BY DEF HasSum
<1> DEFINE h == [s \in SUBSET Users |-> g[s] + IF u \in s THEN c ELSE 0]
<1>2. AddsUp(h, Charged(u, c))
  BY <1>1, ChargeSolves
<1>3. h \in [SUBSET Users -> Nat] /\ h[Users] = g[Users] + c
  OBVIOUS
<1> HIDE DEF h
<1>4. SumOf(spent) = g[Users] /\ SumOf(Charged(u, c)) = h[Users]
  BY <1>1, <1>2, TheSum
<1> QED
  BY <1>2, <1>3, <1>4 DEF HasSum

-----------------------------------------------------------------------------
(* The global cap.                                                          *)

GlobalInv ==
    /\ HasSum(spent)
    /\ SumOf(spent) + Overrun(Charging({"checked"})) <= GlobalCap - 1 + MaxConcurrent * MaxTickCost

\* The ticks that have passed the global cap and may still be charged.
Passed == Charging({"checked"})

PassedPhases == {"checked", "looping", "done", "failed"}

LEMMA PassedIsBusy == Passed \in SUBSET Busy
  BY NoTickIsNoTask DEF Passed, Charging, Busy, Phase

LEMMA TotalIsNat ==
  ASSUME TypeInv, HasSum(spent) PROVE SumOf(spent) \in Nat
<1>1. PICK g \in [SUBSET Users -> Nat] : AddsUp(g, spent)
  BY DEF HasSum
<1>2. SumOf(spent) = g[Users]
  BY <1>1, TheSum
<1> QED
  BY <1>2

LEMMA GlobalAllowanceIsKept ==
  ASSUME TypeInv, GlobalInv, NEW S \in SUBSET Passed,
         NEW c \in Nat, c <= MaxTickCost, c > 0 => S # Passed
  PROVE  SumOf(spent) + c + Overrun(S) <= GlobalCap - 1 + MaxConcurrent * MaxTickCost
<1>1. IsFiniteSet(Passed)
  BY TasksAreBounded, PassedIsBusy
<1>2. SumOf(spent) \in Nat
  BY TotalIsNat DEF GlobalInv
<1>3. SumOf(spent) + Overrun(Passed) <= GlobalCap - 1 + MaxConcurrent * MaxTickCost
  BY DEF GlobalInv, Passed
<1> QED
  BY <1>1, <1>2, <1>3, AllowanceIsInt, ChargeTakesATick

\* A step that charges nobody and lets no tick past the global cap.
LEMMA NobodyPasses ==
  ASSUME TypeInv, GlobalInv, spent' = spent, Passed' \subseteq Passed
  PROVE  GlobalInv'
<1>1. SumOf(spent) + 0 + Overrun(Passed') <= GlobalCap - 1 + MaxConcurrent * MaxTickCost
  BY MaxTickCostIsNat, GlobalAllowanceIsKept
<1>2. SumOf(spent) + 0 = SumOf(spent)
  BY TotalIsNat DEF GlobalInv
<1> QED
  BY <1>1, <1>2 DEF GlobalInv, Passed, Overrun

\* Spending below the global cap, whatever ticks have passed it.
LEMMA RoomForAllThatPass ==
  ASSUME TypeInv, NEW s \in Nat, s < GlobalCap, NEW S \in SUBSET Busy
  PROVE  s + Overrun(S) <= GlobalCap - 1 + MaxConcurrent * MaxTickCost
  BY TasksAreBounded, BelowTheCapThereIsRoom DEF Overrun

LEMMA TickKeepsGlobal ==
  ASSUME TypeInv, CostInv, GlobalInv, NEW t \in Ticks, TickStep(t) PROVE GlobalInv'
<1>0. /\ tick \in [Ticks -> {NoTick} \cup Task] /\ t \in DOMAIN tick
      /\ tick[t].phase \in Phase => tick[t] \in Task
  BY PhaseMeansTask DEF TypeInv, TypeOK, Task
<1>1. CASE CheckGlobalCap(t)
  <2>1. /\ spent' = spent /\ t \in Busy
        /\ tick'[t].phase = "refused" \/ (tick'[t].phase = "checked" /\ SumOf(spent) < GlobalCap)
        /\ \A r \in Ticks \ {t} : tick'[r] = tick[r]
    <3>1. TotalSpent = SumOf(spent)
      BY TotalIsSum
    <3> QED
      BY <1>0, <1>1, <3>1 DEF CheckGlobalCap, Busy, NoTick, Phase, Task
  <2>2. CASE tick'[t].phase = "refused"
    <3>1. Passed' \subseteq Passed
      BY <2>1, <2>2 DEF Passed, Charging
    <3> QED
      BY <2>1, <3>1, NobodyPasses
  <2>3. CASE SumOf(spent) < GlobalCap
    <3> DEFINE S == Passed'
    <3>1. S \in SUBSET Busy
      BY <2>1, PassedIsBusy DEF Passed, Charging
    <3> HIDE DEF S
    <3>2. SumOf(spent) + Overrun(S) <= GlobalCap - 1 + MaxConcurrent * MaxTickCost
      BY <2>3, <3>1, TotalIsNat, RoomForAllThatPass DEF GlobalInv
    <3> QED
      BY <2>1, <3>2 DEF S, GlobalInv, Passed, Overrun
  <2> QED
    BY <2>1, <2>2, <2>3
<1>2. ASSUME NEW p \in PassedPhases \cup {"read", "refused"}, spent' = spent,
             p \in PassedPhases => tick[t].phase \in PassedPhases,
             tick'[t].phase = p, \A r \in Ticks \ {t} : tick'[r] = tick[r]
      PROVE  GlobalInv'
  <2>1. Passed' \subseteq Passed
    BY <1>2 DEF Passed, Charging, PassedPhases
  <2> QED
    BY <1>2, <2>1, NobodyPasses
<1>3. CASE CheckUserCap(t) \/ ClaudeFails(t)
  <2>1. /\ spent' = spent /\ tick[t] \in Task /\ tick[t].phase \in PassedPhases
        /\ tick'[t].phase \in {"looping", "refused", "failed"}
        /\ \A r \in Ticks \ {t} : tick'[r] = tick[r]
    BY <1>0, <1>3 DEF CheckUserCap, ClaudeFails, Phase, Task, PassedPhases
  <2> QED
    BY <1>2, <2>1 DEF PassedPhases
<1>4. ASSUME NEW mandated \in BOOLEAN, ReadState(t, mandated) PROVE GlobalInv'
  <2>1. tick[t] \in Task /\ spent' = spent
    BY <1>0, <1>4 DEF ReadState, Phase
  <2>2. /\ tick'[t].phase \in {"read", "refused"}
        /\ \A r \in Ticks \ {t} : tick'[r] = tick[r]
    BY <1>0, <1>4, <2>1 DEF ReadState, Task
  <2> QED
    BY <1>2, <2>1, <2>2 DEF PassedPhases
<1>5. ASSUME NEW cost \in TurnCosts, NEW finished \in BOOLEAN, Turn(t, cost, finished)
      PROVE  GlobalInv'
  <2>1. spent' = spent /\ t \in Passed /\ \A r \in Ticks \ {t} : tick'[r] = tick[r]
    BY <1>0, <1>5 DEF Turn, Passed, Charging
  <2>2. Passed' \subseteq Passed
    BY <2>1 DEF Passed, Charging
  <2> QED
    BY <2>1, <2>2, NobodyPasses
<1>6. CASE RecordSkip(t) \/ TickRaises(t) \/ RecordTickOutcome(t) \/ RecordTickFailure(t)
  <2>1. tick' = [tick EXCEPT ![t] = NoTick]
    BY <1>6 DEF RecordSkip, TickRaises, RecordTickOutcome, RecordTickFailure, Ends
  <2>2. Passed' = Passed \ {t}
    BY <1>0, <2>1 DEF NoTick, Passed, Charging
  <2>3. CASE spent' = spent
    BY <2>2, <2>3, NobodyPasses
  <2>4. CASE RecordTickOutcome(t) \/ RecordTickFailure(t)
    <3> DEFINE u == tick[t].user
               c == tick[t].cost
    <3>1. /\ u \in Users /\ c \in Nat /\ t \in Passed /\ t \in Charging({})
          /\ spent' = Charged(u, c)
      BY <1>0, <2>4 DEF RecordTickOutcome, RecordTickFailure, Phase, Task, Passed, Charging
    <3>2. c <= MaxTickCost
      BY <3>1 DEF CostInv, TicksAreCapped
    <3> HIDE DEF u, c
    <3>3. HasSum(spent') /\ SumOf(spent') = SumOf(spent) + c
      BY <3>1, SumIsCharged DEF GlobalInv
    <3>4. SumOf(spent) + c + Overrun(Passed') <= GlobalCap - 1 + MaxConcurrent * MaxTickCost
      <4>1. Passed' \in SUBSET Passed /\ Passed' # Passed
        BY <2>2, <3>1
      <4> QED
        BY <3>1, <3>2, <4>1, GlobalAllowanceIsKept
    <3>5. SumOf(spent') + Overrun(Passed') <= GlobalCap - 1 + MaxConcurrent * MaxTickCost
      BY <3>3, <3>4
    <3> QED
      BY <3>3, <3>5 DEF GlobalInv, Passed, Overrun
  <2> QED
    BY <1>6, <2>3, <2>4 DEF RecordSkip, TickRaises
<1> QED
  BY <1>1, <1>3, <1>4, <1>5, <1>6 DEF TickStep

LEMMA OthersKeepGlobal ==
  ASSUME TypeInv, GlobalInv, JobStep \/ Environment \/ UNCHANGED vars PROVE GlobalInv'
<1>1. CASE Midnight
  <2>1. HasSum(spent') /\ SumOf(spent') = 0 /\ Passed' = Passed
    <3>1. spent' = [u \in Users |-> 0] /\ tick' = tick
      BY <1>1 DEF Midnight
    <3>2. HasSum(spent') /\ SumOf(spent') = 0
      BY <3>1, SumOfNone
    <3> QED
      BY <3>1, <3>2 DEF Passed, Charging
  <2>2. 0 + Overrun(Passed) <= GlobalCap - 1 + MaxConcurrent * MaxTickCost
    BY BoundsAssumption, PassedIsBusy, RoomForAllThatPass
  <2>3. SumOf(spent') + Overrun(Passed') <= GlobalCap - 1 + MaxConcurrent * MaxTickCost
    BY <2>1, <2>2
  <2> QED
    BY <2>1, <2>3 DEF GlobalInv, Passed, Overrun
<1>2. ASSUME spent' = spent, \A t \in Ticks : \/ tick'[t] = tick[t]
                                              \/ tick'[t].phase \in {"none", "spawned"}
      PROVE  GlobalInv'
  <2>1. Passed' \subseteq Passed
    BY <1>2 DEF Passed, Charging
  <2> QED
    BY <1>2, <2>1, NobodyPasses
<1>3. CASE Restart
  BY <1>2, <1>3 DEF Restart, NoTick
<1>4. CASE \/ Discover \/ Consider \/ JobEnds \/ SecondPasses \/ MinutePasses
           \/ UNCHANGED vars \/ (\E u \in Users : CooldownEnds(u))
           \/ \E e \in Events : Stamp(e) \/ EventOccurs(e)
  BY <1>2, <1>4 DEF Discover, Consider, JobEnds, SecondPasses, MinutePasses, CooldownEnds,
                    Stamp, EventOccurs, vars
<1>5. ASSUME NEW t \in Ticks, Dispatch(t) PROVE GlobalInv'
  BY <1>2, <1>5 DEF Dispatch, Spawned, TypeInv, TypeOK
<1> QED
  BY <1>1, <1>3, <1>4, <1>5 DEF JobStep, Environment

\* What is recorded of a day, for a user and for all of them, stays below the
\* cap and what MaxConcurrent ticks can cost, with or without a cap on the
\* single tick.  What ticks that raised have cost is not recorded (see
\* CostIsBounded).
THEOREM CostBounded == Spec => []CostIsBounded
<1>1. TypeInv /\ CostInv /\ [Next]_vars => CostInv'
  <2>1. ASSUME CostInv, UNCHANGED vars PROVE CostInv'
    BY <2>1 DEF vars, CostInv, CapIsNotReached, TicksAreCapped, UserCostIsBounded, ChargingOf,
                Charging
  <2> QED
    BY <2>1, JobKeepsCost, TickKeepsCost, EnvironmentKeepsCost DEF Next
<1>2. TypeInv /\ CostInv /\ GlobalInv /\ [Next]_vars => GlobalInv'
  BY TickKeepsGlobal, OthersKeepGlobal DEF Next
<1>3. TypeInv /\ Init => GlobalInv
  <2> SUFFICES ASSUME TypeInv, Init PROVE GlobalInv
    OBVIOUS
  <2>1. HasSum(spent) /\ SumOf(spent) = 0
    BY SumOfNone DEF Init
  <2>2. 0 + Overrun(Passed) <= GlobalCap - 1 + MaxConcurrent * MaxTickCost
    BY BoundsAssumption, PassedIsBusy, RoomForAllThatPass
  <2> QED
    BY <2>1, <2>2 DEF GlobalInv, Passed
<1>4. TypeInv /\ CostInv /\ GlobalInv => CostIsBounded
  BY TotalIsSum DEF CostInv, GlobalInv, CostIsBounded, GlobalCostIsBounded
<1> QED
  BY <1>1, <1>2, <1>3, <1>4, CostInit, TypeInit, TypeIsInvariant, PTL DEF Spec

=============================================================================
