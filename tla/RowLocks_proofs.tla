--------------------------- MODULE RowLocks_proofs ---------------------------
(***************************************************************************)
(* The row locks for every number of requests, intents and matches, and    *)
(* every mixture of handlers, the tools that read rows before they lock    *)
(* them and late discoveries included.  The argument: what a transaction   *)
(* has written and not committed, it has locked, and its writes are whole: *)
(* an agreed negotiation comes with its match and both intents, and        *)
(* nothing else is written over a row that is agreed or matched.  Nobody   *)
(* can change such a row until the transaction ends, so the commit keeps   *)
(* the tables whole, however stale the session was.                        *)
(*                                                                         *)
(* That nothing is sold twice needs more: an accept must not be misled by  *)
(* what it has read.  A user's accept is not, because it reads the intents *)
(* with their match locked, and a match that a cascade has missed was      *)
(* stored after its commit: the foreign keys make the insert wait.  The    *)
(* very last section is about the order of the locks: accepts never wait   *)
(* for each other's intents in a circle.                                   *)
(***************************************************************************)
EXTENDS RowLocks, FiniteSetTheorems, SequenceTheorems, TLAPS

IsTable(f) == f = [t \in Txns |-> f[t]]

Tables ==
    /\ row \in [Rows -> Status]
    /\ holder \in [Rows -> Txns \cup {NoTxn}]
    /\ pc \in [Txns -> Step]
    /\ want \in [Txns -> Seq(Rows)]
    /\ IsTable(seen)
    /\ IsTable(dirty)

ColumnsAreTyped ==
    \A i \in Intents : /\ row[Price(i)] \in {"as_posted", "edited"}
                       /\ row[Intent(i)] \in {"active", "matched", "cancelled"}

Final == {"agreed", "matched"}

\* Uncommitted writes are on locked rows, fit their column, and none is on a
\* price.
WritesAreLocked(t) ==
    \A r \in DOMAIN dirty[t] :
        /\ r \in Rows
        /\ dirty[t][r] \in Status
        /\ holder[r] = t
        /\ \A i \in Intents : r # Price(i)
        /\ \A i \in Intents : r = Intent(i) => dirty[t][r] \in {"matched", "cancelled"}
        /\ \A m \in Matches : r = Match(m) => dirty[t][r] # "matched"

\* An agreement is written as a whole, and nothing else over a final row.
WritesAreWhole(t) ==
    /\ \A m \in Matches :
          Nego(m) \in DOMAIN dirty[t] /\ dirty[t][Nego(m)] = "agreed" =>
             /\ Match(m) \in DOMAIN dirty[t] /\ dirty[t][Match(m)] = "agreed"
             /\ \A i \in IntentsOf(m) :
                   Intent(i) \in DOMAIN dirty[t] /\ dirty[t][Intent(i)] = "matched"
    /\ \A r \in DOMAIN dirty[t] : dirty[t][r] \notin Final => row[r] \notin Final

\* Only the cascades run with uncommitted writes.
CleanBeforeCascade(t) == pc[t] \notin {"cancel_negos", "expire_matches"} => dirty[t] = Empty

\* The row is locked, or the statement still has to lock it.
Claims(t, r) == holder[r] = t \/ \E n \in 1..Len(want[t]) : want[t][n] = r

AcceptClaims(t) ==
    IsAccept(t) =>
        /\ pc[t] \in {"lock_nego", "lock_match", "read_sell", "lock_intents"} =>
              Claims(t, Nego(Subject[t]))
        /\ pc[t] \in {"lock_match", "read_sell", "lock_intents"} =>
              Claims(t, Match(Subject[t]))
        /\ pc[t] = "lock_intents" =>
              \A i \in IntentsOf(Subject[t]) : Claims(t, Intent(i))

\* A cancellation or an edit sees its intent as it is, because it reads it
\* with the lock.
SeesItsIntent(t) ==
    IsIntentRequest(Handler[t]) /\ pc[t] = "lock_intents" =>
        LET r == Intent(Subject[t])
        IN  \/ want[t] = << r >> /\ seen[t] = Empty
            \/ /\ want[t] = << >>
               /\ holder[r] = t
               /\ r \in DOMAIN seen[t] /\ seen[t][r] = row[r]

Own(t) ==
    /\ DOMAIN seen[t] \subseteq Rows
    /\ WritesAreLocked(t)
    /\ WritesAreWhole(t)
    /\ CleanBeforeCascade(t)
    /\ AcceptClaims(t)
    /\ SeesItsIntent(t)

LocksInv ==
    /\ Tables
    /\ ColumnsAreTyped
    /\ AgreedTakesBoth
    /\ \A t \in Txns : Own(t)

-----------------------------------------------------------------------------
(***************************************************************************)
(* Rows and the functions of sessions.                                     *)
(***************************************************************************)

LEMMA RowKinds ==
  /\ \A m \in Matches : Nego(m) \in Rows /\ Match(m) \in Rows
  /\ \A i \in Intents : Intent(i) \in Rows /\ Price(i) \in Rows
  /\ \A m, k : Nego(m) # Match(k) /\ Nego(m) # Intent(k) /\ Nego(m) # Price(k)
  /\ \A m, k : Match(m) # Intent(k) /\ Match(m) # Price(k) /\ Intent(m) # Price(k)
  /\ \A m, k : (Nego(m) = Nego(k) => m = k) /\ (Match(m) = Match(k) => m = k)
  /\ \A i, k : (Intent(i) = Intent(k) => i = k) /\ (Price(i) = Price(k) => i = k)
  BY DEF Rows, Nego, Match, Intent, Price

LEMMA SubjectsAreTyped ==
  ASSUME NEW t \in Txns
  PROVE  /\ IsIntentRequest(Handler[t]) => Subject[t] \in Intents
         /\ ~IsIntentRequest(Handler[t]) => Subject[t] \in Matches
         /\ \A m \in Matches : BuyIntent[m] \in Intents /\ SellIntent[m] \in Intents
  BY RequestAssumption

LEMMA NothingIsEmpty == DOMAIN Empty = {}
  BY DEF Empty

-----------------------------------------------------------------------------
(***************************************************************************)
(* What one transaction does to the others.                                *)
(***************************************************************************)

\* Only transaction t moves.
Moves(t) ==
    \A u \in Txns \ {t} : /\ pc'[u] = pc[u] /\ want'[u] = want[u]
                           /\ seen'[u] = seen[u] /\ dirty'[u] = dirty[u]

\* The locks of the others stay, and so do the rows they have locked, except
\* for writes that concern neither intents nor final rows.
RespectsLocks(t) ==
    \A u \in Txns \ {t}, r \in Rows : holder[r] = u =>
        /\ holder'[r] = u
        /\ row'[r] = row[r] \/ (row'[r] \notin Final /\ \A i \in Intents : r # Intent(i))

LEMMA OthersStay ==
  ASSUME LocksInv, NEW t \in Txns, Moves(t), RespectsLocks(t),
         NEW u \in Txns, u # t
  PROVE  Own(u)'
<1>1. /\ Own(u)
      /\ pc'[u] = pc[u] /\ want'[u] = want[u] /\ seen'[u] = seen[u] /\ dirty'[u] = dirty[u]
  BY DEF LocksInv, Moves
<1>2. \A r \in Rows : holder[r] = u => holder'[r] = u
  BY DEF RespectsLocks
<1>3. WritesAreLocked(u)'
  BY <1>1, <1>2 DEF Own, WritesAreLocked
<1>4. \A r \in DOMAIN dirty[u] : r \in Rows /\ holder[r] = u
  BY <1>1 DEF Own, WritesAreLocked
<1>5. WritesAreWhole(u)'
  <2>1. \A r \in DOMAIN dirty[u] : row[r] \notin Final => row'[r] \notin Final
    BY <1>4 DEF RespectsLocks
  <2> QED
    BY <1>1, <2>1 DEF Own, WritesAreWhole
<1>6. CleanBeforeCascade(u)' /\ (DOMAIN seen[u] \subseteq Rows)'
  BY <1>1 DEF Own, CleanBeforeCascade
<1>7. \A r \in Rows : Claims(u, r) => Claims(u, r)'
  BY <1>1, <1>2 DEF Claims
<1>8. AcceptClaims(u)'
  <2> SUFFICES ASSUME IsAccept(u) PROVE AcceptClaims(u)'
    BY DEF AcceptClaims
  <2>1. Subject[u] \in Matches
    BY RequestAssumption DEF IsAccept, IsIntentRequest
  <2>2. IntentsOf(Subject[u]) \subseteq Intents
    BY <2>1, SubjectsAreTyped DEF IntentsOf
  <2>3. /\ Nego(Subject[u]) \in Rows /\ Match(Subject[u]) \in Rows
        /\ \A i \in IntentsOf(Subject[u]) : Intent(i) \in Rows
    BY <2>1, <2>2, RowKinds
  <2> QED
    BY <1>1, <1>7, <2>3 DEF Own, AcceptClaims
<1>9. SeesItsIntent(u)'
  <2> SUFFICES ASSUME IsIntentRequest(Handler[u]), pc[u] = "lock_intents" PROVE SeesItsIntent(u)'
    BY <1>1 DEF SeesItsIntent
  <2>1. Subject[u] \in Intents /\ Intent(Subject[u]) \in Rows
    BY SubjectsAreTyped, RowKinds
  <2>2. holder[Intent(Subject[u])] = u =>
           holder'[Intent(Subject[u])] = u /\ row'[Intent(Subject[u])] = row[Intent(Subject[u])]
    BY <2>1 DEF RespectsLocks
  <2> QED
    BY <1>1, <2>2 DEF Own, SeesItsIntent
<1> QED
  BY <1>3, <1>5, <1>6, <1>8, <1>9 DEF Own

LEMMA StepKeepsInv ==
  ASSUME LocksInv, NEW t \in Txns, Moves(t), RespectsLocks(t), Own(t)',
         Tables', ColumnsAreTyped', AgreedTakesBoth'
  PROVE  LocksInv'
  BY OthersStay DEF LocksInv

\* A step that writes and locks nothing.
LEMMA ReadKeepsInv ==
  ASSUME LocksInv, NEW t \in Txns, Moves(t), UNCHANGED <<row, holder, dirty>>, Tables',
         DOMAIN seen'[t] \subseteq Rows,
         CleanBeforeCascade(t)', AcceptClaims(t)', SeesItsIntent(t)'
  PROVE  LocksInv'
<1>1. RespectsLocks(t)
  BY DEF RespectsLocks
<1>2. WritesAreLocked(t)' /\ WritesAreWhole(t)'
  BY DEF LocksInv, Own, WritesAreLocked, WritesAreWhole
<1>3. ColumnsAreTyped' /\ AgreedTakesBoth'
  BY DEF LocksInv, ColumnsAreTyped, AgreedTakesBoth
<1> QED
  BY <1>1, <1>2, <1>3, StepKeepsInv DEF Own

\* The end of a transaction: its locks are gone and its session is empty.
LEMMA ReleaseClears ==
  ASSUME LocksInv, NEW t \in Txns, Release(t), NEW s \in Step, Goto(t, s),
         s \notin {"cancel_negos", "expire_matches", "lock_nego", "lock_match", "read_sell",
                   "lock_intents"},
         row' \in [Rows -> Status]
  PROVE  /\ Moves(t)
         /\ Tables'
         /\ Own(t)'
         /\ \A r \in Rows : holder[r] # t => holder'[r] = holder[r]
<1>1. /\ pc' = [pc EXCEPT ![t] = s]
      /\ want' = [want EXCEPT ![t] = << >>]
      /\ seen' = [seen EXCEPT ![t] = Empty]
      /\ dirty' = [dirty EXCEPT ![t] = Empty]
      /\ holder' = [r \in Rows |-> IF holder[r] = t THEN NoTxn ELSE holder[r]]
  BY DEF Release, Goto
<1>2. Tables
  BY DEF LocksInv
<1>3. Moves(t)
  BY <1>1, <1>2 DEF Moves, Tables, IsTable
<1>4. /\ pc'[t] = s /\ want'[t] = << >> /\ seen'[t] = Empty /\ dirty'[t] = Empty
  BY <1>1, <1>2 DEF Tables, IsTable
<1>5. Tables'
  <2>1. pc' \in [Txns -> Step] /\ want' \in [Txns -> Seq(Rows)]
    BY <1>1, <1>2 DEF Tables
  <2>2. holder' \in [Rows -> Txns \cup {NoTxn}]
    BY <1>1, <1>2 DEF Tables
  <2>3. IsTable(seen)' /\ IsTable(dirty)'
    BY <1>1, <1>2 DEF Tables, IsTable
  <2> QED
    BY <2>1, <2>2, <2>3 DEF Tables
<1>6. Own(t)'
  BY <1>4, NothingIsEmpty
     DEF Own, WritesAreLocked, WritesAreWhole, CleanBeforeCascade, AcceptClaims, SeesItsIntent
<1> QED
  BY <1>1, <1>3, <1>5, <1>6

Quiet == Step \ {"cancel_negos", "expire_matches", "lock_nego", "lock_match", "read_sell",
                 "lock_intents"}

LEMMA RollbackKeepsInv ==
  ASSUME LocksInv, NEW t \in Txns, NEW why \in Quiet, Rollback(t, why)
  PROVE  LocksInv'
<1>1. /\ row' = row /\ row' \in [Rows -> Status]
  BY DEF LocksInv, Tables, Rollback
<1>2. /\ Moves(t) /\ Tables' /\ Own(t)'
      /\ \A r \in Rows : holder[r] # t => holder'[r] = holder[r]
  BY <1>1, ReleaseClears DEF Rollback, Quiet
<1>3. RespectsLocks(t)
  BY <1>1, <1>2 DEF RespectsLocks
<1>4. ColumnsAreTyped' /\ AgreedTakesBoth'
  BY <1>1 DEF LocksInv, ColumnsAreTyped, AgreedTakesBoth
<1> QED
  BY <1>2, <1>3, <1>4, StepKeepsInv

-----------------------------------------------------------------------------
(***************************************************************************)
(* The initial states.                                                     *)
(***************************************************************************)

LEMMA FirstIsTyped ==
  ASSUME NEW t \in Txns
  PROVE  /\ First(t)[1] \in Step \ {"cancel_negos", "expire_matches", "read_sell", "done"}
         /\ First(t)[2] \in Seq(Rows)
         /\ IsAccept(t) => /\ First(t)[1] \notin {"lock_match", "lock_intents"}
                           /\ First(t)[1] = "lock_nego" => First(t)[2] = << Nego(Subject[t]) >>
         /\ IsIntentRequest(Handler[t]) => First(t)[2] = << Intent(Subject[t]) >>
<1>1. Handler[t] \in HandlerName
  BY RequestAssumption
<1>2. /\ IsIntentRequest(Handler[t]) => Intent(Subject[t]) \in Rows
      /\ ~IsIntentRequest(Handler[t]) => Nego(Subject[t]) \in Rows /\ Match(Subject[t]) \in Rows
  BY SubjectsAreTyped, RowKinds
<1>3. \A r \in Rows : << r >> \in Seq(Rows)
  OBVIOUS
<1>4. << >> \in Seq(Rows)
  OBVIOUS
<1>5. CASE Handler[t] = "accept_offer"
  BY <1>2, <1>3, <1>5 DEF First, IsIntentRequest, IsAccept, Step, Ended
<1>6. CASE Handler[t] = "tool_accept_offer"
  BY <1>2, <1>4, <1>6 DEF First, IsIntentRequest, IsAccept, Step, Ended
<1>7. CASE Handler[t] = "start_or_continue"
  BY <1>2, <1>3, <1>7 DEF First, IsIntentRequest, IsAccept, Step, Ended
<1>8. CASE Handler[t] \in {"cancel_intent", "update_intent"}
  BY <1>2, <1>3, <1>8 DEF First, IsIntentRequest, IsAccept, Step, Ended
<1>9. CASE Handler[t] = "discover"
  BY <1>2, <1>4, <1>9 DEF First, IsIntentRequest, IsAccept, Step, Ended
<1> QED
  BY <1>1, <1>5, <1>6, <1>7, <1>8, <1>9 DEF HandlerName

LEMMA LocksInit == Init => LocksInv
<1> SUFFICES ASSUME Init PROVE LocksInv
  OBVIOUS
<1>1. PICK stage \in [Matches -> {"none", "discovered", "negotiating"}] :
         row = [r \in Rows |->
                   CASE r[1] = "intent" -> "active"
                     [] r[1] = "match"  -> stage[r[2]]
                     [] r[1] = "nego"   ->
                           IF stage[r[2]] = "negotiating" THEN "active" ELSE "none"
                     [] r[1] = "price"  -> "as_posted"]
  BY DEF Init
<1>2. /\ \A m \in Matches : row[Match(m)] = stage[m] /\ row[Nego(m)] \in {"active", "none"}
      /\ \A i \in Intents : row[Intent(i)] = "active" /\ row[Price(i)] = "as_posted"
  <2>1. \A m : /\ Match(m)[1] = "match" /\ Match(m)[2] = m
               /\ Nego(m)[1] = "nego" /\ Nego(m)[2] = m
               /\ Intent(m)[1] = "intent" /\ Price(m)[1] = "price"
    BY DEF Match, Nego, Intent, Price
  <2> QED
    BY <1>1, <2>1, RowKinds
<1>3. row \in [Rows -> Status]
  <2>1. \A r \in Rows : row[r] \in Status
    BY <1>2 DEF Rows, Status
  <2> QED
    BY <1>1, <2>1
<1>4. \A t \in Txns : /\ pc[t] = First(t)[1] /\ want[t] = First(t)[2]
                      /\ seen[t] = Empty /\ dirty[t] = Empty
  BY DEF Init
<1>5. Tables
  <2>1. pc \in [Txns -> Step] /\ want \in [Txns -> Seq(Rows)]
    BY FirstIsTyped DEF Init
  <2>2. IsTable(seen) /\ IsTable(dirty)
    BY DEF Init, IsTable
  <2> QED
    BY <1>3, <2>1, <2>2 DEF Init, Tables
<1>6. ColumnsAreTyped /\ AgreedTakesBoth
  BY <1>2 DEF ColumnsAreTyped, AgreedTakesBoth
<1>7. ASSUME NEW t \in Txns PROVE Own(t)
  <2>1. WritesAreLocked(t) /\ WritesAreWhole(t) /\ CleanBeforeCascade(t) /\ DOMAIN seen[t] \subseteq Rows
    BY <1>4, NothingIsEmpty DEF WritesAreLocked, WritesAreWhole, CleanBeforeCascade
  <2>2. AcceptClaims(t)
    <3> SUFFICES ASSUME IsAccept(t) PROVE AcceptClaims(t)
      BY DEF AcceptClaims
    <3>1. /\ pc[t] \notin {"lock_match", "read_sell", "lock_intents"}
          /\ pc[t] = "lock_nego" => want[t] = << Nego(Subject[t]) >>
      BY <1>4, FirstIsTyped
    <3>2. pc[t] = "lock_nego" => Len(want[t]) = 1 /\ want[t][1] = Nego(Subject[t])
      BY <3>1
    <3> QED
      BY <3>1, <3>2 DEF AcceptClaims, Claims
  <2>3. SeesItsIntent(t)
    BY <1>4, FirstIsTyped DEF SeesItsIntent
  <2> QED
    BY <2>1, <2>2, <2>3 DEF Own
<1> QED
  BY <1>5, <1>6, <1>7 DEF LocksInv

-----------------------------------------------------------------------------
(***************************************************************************)
(* The statements that lock rows, and the cascades they run.               *)
(***************************************************************************)

\* A cascade changes a row only out of a status that is not final.
LEMMA CascadeFacts ==
  ASSUME NEW t, NEW r, Cascade(t, r) # Visible(t, r)
  PROVE  \/ /\ pc[t] = "cancel_negos"
            /\ Visible(t, r) = "active" /\ Cascade(t, r) = "cancelled"
         \/ /\ pc[t] = "expire_matches"
            /\ Visible(t, r) \in {"discovered", "negotiating"} /\ Cascade(t, r) = "expired"
  BY DEF Cascade

LEMMA ClaimsProgress ==
  ASSUME LocksInv, NEW t \in Txns, Acquire(t), NEW x \in Rows, Claims(t, x)
  PROVE  Claims(t, x)'
<1>1. /\ want[t] \in Seq(Rows) /\ want[t] # << >>
      /\ want'[t] = Tail(want[t])
      /\ holder' = [holder EXCEPT ![Head(want[t])] = t]
      /\ holder \in [Rows -> Txns \cup {NoTxn}]
  BY DEF LocksInv, Tables, Acquire
<1>2. CASE holder[x] = t
  BY <1>1, <1>2 DEF Claims
<1>3. CASE \E n \in 1..Len(want[t]) : want[t][n] = x
  <2>1. PICK n \in 1..Len(want[t]) : want[t][n] = x
    BY <1>3
  <2>2. CASE n = 1
    <3>1. Head(want[t]) = x
      BY <1>1, <2>1, <2>2
    <3> QED
      BY <1>1, <3>1 DEF Claims
  <2>3. CASE n # 1
    <3>1. n - 1 \in 1..Len(Tail(want[t])) /\ Tail(want[t])[n - 1] = x
      BY <1>1, <2>1, <2>3, HeadTailProperties
    <3> QED
      BY <1>1, <3>1 DEF Claims
  <2> QED
    BY <2>2, <2>3
<1> QED
  BY <1>2, <1>3 DEF Claims

LEMMA AcquireKeepsInv ==
  ASSUME LocksInv, NEW t \in Txns, Acquire(t)
  PROVE  LocksInv'
<1> DEFINE r == Head(want[t])
<1> DEFINE c == Cascade(t, r)
<1>1. Tables /\ Own(t) /\ ColumnsAreTyped
  BY DEF LocksInv
<1>2. want[t] \in Seq(Rows) /\ want[t] # << >> /\ r \in Rows /\ Tail(want[t]) \in Seq(Rows)
  BY <1>1 DEF Tables, Acquire
<1>3. /\ holder[r] \in {NoTxn, t}
      /\ holder' = [holder EXCEPT ![r] = t]
      /\ seen' = [seen EXCEPT ![t] = Load(@, [x \in {r} |-> row[r]])]
      /\ dirty' = IF c = Visible(t, r) THEN dirty
                  ELSE [dirty EXCEPT ![t] = Override(@, [x \in {r} |-> c])]
      /\ want' = [want EXCEPT ![t] = Tail(@)]
      /\ row' = row /\ pc' = pc
  BY DEF Acquire
<1>4. /\ want'[t] = Tail(want[t])
      /\ seen'[t] = Load(seen[t], [x \in {r} |-> row[r]])
      /\ holder'[r] = t
      /\ \A x \in Rows : x # r => holder'[x] = holder[x]
  BY <1>1, <1>2, <1>3 DEF Tables, IsTable
<1>5. \/ dirty' = dirty
      \/ /\ dirty'[t] = Override(dirty[t], [x \in {r} |-> c])
         /\ c # Visible(t, r)
  BY <1>1, <1>3 DEF Tables, IsTable
<1>6. Moves(t)
  BY <1>1, <1>3 DEF Moves, Tables, IsTable
<1>7. RespectsLocks(t)
  <2>1. NoTxn \notin Txns
    BY RequestAssumption
  <2> QED
    BY <1>3, <1>4, <2>1 DEF RespectsLocks
<1>8. Tables'
  <2>1. want' \in [Txns -> Seq(Rows)] /\ holder' \in [Rows -> Txns \cup {NoTxn}]
    BY <1>1, <1>2, <1>3 DEF Tables
  <2>2. IsTable(seen)' /\ IsTable(dirty)'
    BY <1>1, <1>3 DEF Tables, IsTable
  <2> QED
    BY <1>1, <1>3, <2>1, <2>2 DEF Tables
<1>9. ColumnsAreTyped' /\ AgreedTakesBoth'
  BY <1>3 DEF LocksInv, ColumnsAreTyped, AgreedTakesBoth
<1>10. WritesAreLocked(t) /\ WritesAreWhole(t) /\ CleanBeforeCascade(t) /\ AcceptClaims(t)
       /\ SeesItsIntent(t) /\ DOMAIN seen[t] \subseteq Rows
  BY <1>1 DEF Own
<1>11. DOMAIN seen'[t] \subseteq Rows
  BY <1>2, <1>4, <1>10 DEF Load
<1>12. /\ WritesAreLocked(t)' /\ WritesAreWhole(t)' /\ CleanBeforeCascade(t)'
  <2>1. \A x \in DOMAIN dirty[t] : holder'[x] = t
    BY <1>4, <1>10 DEF WritesAreLocked
  <2>2. CASE dirty' = dirty
    BY <1>3, <1>10, <2>1, <2>2 DEF WritesAreLocked, WritesAreWhole, CleanBeforeCascade
  <2>3. CASE /\ dirty'[t] = Override(dirty[t], [x \in {r} |-> c])
             /\ c # Visible(t, r)
    <3> DEFINE v == Visible(t, r)
    <3>1. /\ DOMAIN dirty'[t] = DOMAIN dirty[t] \cup {r}
          /\ dirty'[t][r] = c
          /\ \A x \in DOMAIN dirty[t] : x # r => dirty'[t][x] = dirty[t][x]
      BY <2>3 DEF Override, Load
    <3>2. \/ pc[t] = "cancel_negos" /\ v = "active" /\ c = "cancelled"
          \/ pc[t] = "expire_matches" /\ v \in {"discovered", "negotiating"} /\ c = "expired"
      BY <2>3, CascadeFacts
    <3>3. v = IF r \in DOMAIN dirty[t] THEN dirty[t][r] ELSE row[r]
      BY DEF Visible
    <3>4. \A i \in Intents : r # Price(i)
      <4> SUFFICES ASSUME NEW i \in Intents, r = Price(i) PROVE FALSE
        OBVIOUS
      <4>1. r \notin DOMAIN dirty[t]
        BY <1>10 DEF WritesAreLocked
      <4> QED
        BY <1>1, <3>2, <3>3, <4>1 DEF ColumnsAreTyped
    <3>5. \A i \in Intents : r = Intent(i) => c = "cancelled"
      <4> SUFFICES ASSUME NEW i \in Intents, r = Intent(i) PROVE c = "cancelled"
        OBVIOUS
      <4>1. v \in {"active", "matched", "cancelled"}
        BY <1>1, <1>10, <3>3 DEF ColumnsAreTyped, WritesAreLocked
      <4> QED
        BY <3>2, <4>1
    <3>6. WritesAreLocked(t)'
      <4> SUFFICES ASSUME NEW x \in DOMAIN dirty'[t]
                   PROVE  /\ x \in Rows
                          /\ dirty'[t][x] \in Status
                          /\ holder'[x] = t
                          /\ \A i \in Intents : x # Price(i)
                          /\ \A i \in Intents :
                                x = Intent(i) => dirty'[t][x] \in {"matched", "cancelled"}
                          /\ \A m \in Matches : x = Match(m) => dirty'[t][x] # "matched"
        BY DEF WritesAreLocked
      <4>1. CASE x = r
        BY <1>2, <1>4, <3>1, <3>2, <3>4, <3>5, <4>1 DEF Status
      <4>2. CASE x # r
        BY <1>10, <2>1, <3>1, <4>2 DEF WritesAreLocked
      <4> QED
        BY <4>1, <4>2
    <3>7. v \notin Final /\ c \notin Final
      BY <3>2 DEF Final
    <3>8. \A x \in DOMAIN dirty'[t] : dirty'[t][x] \notin Final => row'[x] \notin Final
      BY <1>3, <1>10, <3>1, <3>3, <3>7 DEF WritesAreWhole
    <3>9. \A x \in DOMAIN dirty'[t] : dirty'[t][x] \in Final =>
             x \in DOMAIN dirty[t] /\ dirty'[t][x] = dirty[t][x]
      BY <3>1, <3>7
    <3>10. \A x \in DOMAIN dirty[t] : dirty[t][x] \in Final =>
              x \in DOMAIN dirty'[t] /\ dirty'[t][x] = dirty[t][x]
      BY <3>1, <3>3, <3>7
    <3>11. WritesAreWhole(t)'
      <4> SUFFICES ASSUME NEW m \in Matches,
                          Nego(m) \in DOMAIN dirty'[t], dirty'[t][Nego(m)] = "agreed"
                   PROVE  /\ Match(m) \in DOMAIN dirty'[t] /\ dirty'[t][Match(m)] = "agreed"
                          /\ \A i \in IntentsOf(m) : /\ Intent(i) \in DOMAIN dirty'[t]
                                                     /\ dirty'[t][Intent(i)] = "matched"
        BY <3>8 DEF WritesAreWhole
      <4>1. Nego(m) \in DOMAIN dirty[t] /\ dirty[t][Nego(m)] = "agreed"
        BY <3>9 DEF Final
      <4>2. /\ Match(m) \in DOMAIN dirty[t] /\ dirty[t][Match(m)] = "agreed"
            /\ \A i \in IntentsOf(m) : Intent(i) \in DOMAIN dirty[t] /\ dirty[t][Intent(i)] = "matched"
        BY <1>10, <4>1 DEF WritesAreWhole
      <4> QED
        BY <3>10, <4>2 DEF Final
    <3>12. CleanBeforeCascade(t)'
      BY <1>3, <3>2 DEF CleanBeforeCascade
    <3> QED
      BY <3>6, <3>11, <3>12
  <2> QED
    BY <1>5, <2>2, <2>3
<1>13. AcceptClaims(t)'
  <2> SUFFICES ASSUME IsAccept(t) PROVE AcceptClaims(t)'
    BY DEF AcceptClaims
  <2>1. Subject[t] \in Matches
    BY RequestAssumption DEF IsAccept, IsIntentRequest
  <2>2. /\ Nego(Subject[t]) \in Rows /\ Match(Subject[t]) \in Rows
        /\ \A i \in IntentsOf(Subject[t]) : Intent(i) \in Rows
    BY <2>1, SubjectsAreTyped, RowKinds DEF IntentsOf
  <2>3. \A x \in Rows : Claims(t, x) => Claims(t, x)'
    BY ClaimsProgress
  <2> QED
    BY <1>3, <1>10, <2>2, <2>3 DEF AcceptClaims
<1>14. SeesItsIntent(t)'
  <2> SUFFICES ASSUME IsIntentRequest(Handler[t]), pc[t] = "lock_intents" PROVE SeesItsIntent(t)'
    BY <1>3 DEF SeesItsIntent
  <2>1. want[t] = << Intent(Subject[t]) >> /\ seen[t] = Empty
    BY <1>2, <1>10 DEF SeesItsIntent
  <2>2. r = Intent(Subject[t]) /\ want'[t] = << >>
    BY <1>4, <2>1
  <2>3. r \in DOMAIN seen'[t] /\ seen'[t][r] = row[r]
    BY <1>4, <2>1, <2>2, NothingIsEmpty DEF Load
  <2> QED
    BY <1>3, <1>4, <2>2, <2>3 DEF SeesItsIntent
<1> QED
  BY <1>6, <1>7, <1>8, <1>9, <1>11, <1>12, <1>13, <1>14, StepKeepsInv DEF Own

-----------------------------------------------------------------------------
(***************************************************************************)
(* The steps that only read.                                               *)
(***************************************************************************)

\* A cascade selects finitely many rows, and locks them one after the other.
LEMMA SelectedIsSeq ==
  ASSUME NEW t \in Txns, NEW rows, NEW wanted, NEW q \in Selected(t, rows, wanted),
         IsFiniteSet(rows), rows \subseteq Rows
  PROVE  q \in Seq(Rows)
<1> DEFINE S == {r \in rows : Visible(t, r) \in wanted}
<1>1. IsFiniteSet(S) /\ S \subseteq Rows
  BY FS_Subset
<1>2. Cardinality(S) \in Nat
  BY <1>1, FS_CardinalityType
<1>3. q \in [1..Cardinality(S) -> S]
  BY DEF Selected, SetToSeqs
<1>4. q \in [1..Cardinality(S) -> Rows]
  BY <1>1, <1>3
<1>5. \A n \in Nat : [1..n -> Rows] \subseteq Seq(Rows)
  OBVIOUS
<1> HIDE DEF S
<1> QED
  BY <1>2, <1>4, <1>5

LEMMA CompetingRows ==
  ASSUME NEW t \in Txns
  PROVE  /\ IsFiniteSet({Nego(k) : k \in Competing(t)})
         /\ {Nego(k) : k \in Competing(t)} \subseteq Rows
         /\ IsFiniteSet({Match(k) : k \in Competing(t)})
         /\ {Match(k) : k \in Competing(t)} \subseteq Rows
<1>1. Competing(t) \subseteq Matches /\ IsFiniteSet(Competing(t))
  BY MatchesAssumption, FS_Subset DEF Competing
<1>2. [k \in Competing(t) |-> Nego(k)] \in Surjection(Competing(t), {Nego(k) : k \in Competing(t)})
  BY DEF Surjection
<1>3. [k \in Competing(t) |-> Match(k)] \in Surjection(Competing(t), {Match(k) : k \in Competing(t)})
  BY DEF Surjection
<1>4. IsFiniteSet({Nego(k) : k \in Competing(t)})
  BY <1>1, <1>2, FS_Surjection
<1>5. IsFiniteSet({Match(k) : k \in Competing(t)})
  BY <1>1, <1>3, FS_Surjection
<1> QED
  BY <1>1, <1>4, <1>5, RowKinds

LEMMA RefuseKeepsInv ==
  ASSUME LocksInv, NEW t \in Txns, Refuse(t), dirty[t] = Empty
  PROVE  LocksInv'
<1>1. CASE Handler[t] = "tool_accept_offer"
  <2>1. pc' = [pc EXCEPT ![t] = "lingering"] /\ UNCHANGED << row, holder, want, seen, dirty >>
    BY <1>1 DEF Refuse, Goto
  <2>2. Tables /\ Own(t)
    BY DEF LocksInv
  <2>3. pc'[t] = "lingering"
    BY <2>1, <2>2 DEF Tables
  <2>4. Moves(t)
    BY <2>1, <2>2 DEF Moves, Tables
  <2>5. Tables'
    <3>1. "lingering" \in Step
      BY DEF Step
    <3> QED
      BY <2>1, <2>2, <3>1 DEF Tables, IsTable
  <2>6. CleanBeforeCascade(t)' /\ AcceptClaims(t)' /\ SeesItsIntent(t)'
    BY <2>1, <2>3 DEF CleanBeforeCascade, AcceptClaims, SeesItsIntent
  <2>7. DOMAIN seen'[t] \subseteq Rows
    BY <2>1, <2>2 DEF Own
  <2> QED
    BY <2>1, <2>4, <2>5, <2>6, <2>7, ReadKeepsInv
<1>2. CASE Handler[t] # "tool_accept_offer"
  <2>1. Rollback(t, "refused") /\ "refused" \in Quiet
    BY <1>2 DEF Refuse, Quiet, Step, Ended
  <2> QED
    BY <2>1, RollbackKeepsInv
<1> QED
  BY <1>1, <1>2

\* What a statement may read and ask for next.
LEMMA ReadsOn ==
  ASSUME LocksInv, NEW t \in Txns, UNCHANGED <<row, holder, dirty>>,
         NEW s \in Step, NEW q \in Seq(Rows), Goto(t, s), LockNext(t, q),
         \/ UNCHANGED seen
         \/ \E r \in Rows : Get(t, r)
  PROVE  /\ Moves(t) /\ Tables'
         /\ pc'[t] = s /\ want'[t] = q
         /\ DOMAIN seen'[t] \subseteq Rows
<1>1. /\ pc' = [pc EXCEPT ![t] = s] /\ want' = [want EXCEPT ![t] = q]
      /\ UNCHANGED <<row, holder, dirty>>
      /\ Tables
  BY DEF Goto, LockNext, LocksInv
<1>2. DOMAIN seen[t] \subseteq Rows
  BY DEF LocksInv, Own
<1>3. /\ pc'[t] = s /\ want'[t] = q
      /\ \A u \in Txns \ {t} : pc'[u] = pc[u] /\ want'[u] = want[u]
      /\ pc' \in [Txns -> Step] /\ want' \in [Txns -> Seq(Rows)]
  BY <1>1 DEF Tables
<1>4. /\ IsTable(seen)'
      /\ \A u \in Txns \ {t} : seen'[u] = seen[u]
      /\ DOMAIN seen'[t] \subseteq Rows
  <2>1. CASE UNCHANGED seen
    BY <1>1, <1>2, <2>1 DEF Tables, IsTable
  <2>2. CASE \E r \in Rows : Get(t, r)
    <3>1. PICK r \in Rows : seen' = [seen EXCEPT ![t] = Load(@, [x \in {r} |-> row[r]])]
      BY <2>2 DEF Get
    <3>2. seen'[t] = Load(seen[t], [x \in {r} |-> row[r]])
      BY <1>1, <3>1 DEF Tables, IsTable
    <3>3. DOMAIN seen'[t] = DOMAIN seen[t] \cup {r}
      BY <3>2 DEF Load
    <3> QED
      BY <1>1, <1>2, <3>1, <3>3 DEF Tables, IsTable
  <2> QED
    BY <2>1, <2>2
<1> QED
  BY <1>1, <1>3, <1>4 DEF Moves, Tables, IsTable

\* At a statement that has all its locks, what was claimed is held.
LEMMA ClaimsAreHeld ==
  ASSUME NEW t, want[t] = << >>, NEW r, Claims(t, r)
  PROVE  holder[r] = t
  BY DEF Claims

LEMMA AcceptTarget ==
  ASSUME NEW t \in Txns, IsAccept(t)
  PROVE  /\ ~IsIntentRequest(Handler[t])
         /\ Subject[t] \in Matches
         /\ Nego(Subject[t]) \in Rows /\ Match(Subject[t]) \in Rows
         /\ IntentsOf(Subject[t]) \subseteq Intents
         /\ \A i \in IntentsOf(Subject[t]) : Intent(i) \in Rows
<1>1. ~IsIntentRequest(Handler[t]) /\ Subject[t] \in Matches
  BY RequestAssumption DEF IsAccept, IsIntentRequest
<1>2. IntentsOf(Subject[t]) \subseteq Intents
  BY <1>1, SubjectsAreTyped DEF IntentsOf
<1> QED
  BY <1>1, <1>2, RowKinds

LEMMA PreloadKeepsInv ==
  ASSUME LocksInv, NEW t \in Txns, Preload(t)
  PROVE  LocksInv'
<1> DEFINE m == Subject[t]
<1> DEFINE q == IF pc[t] = "get_sell" THEN << Nego(m) >> ELSE << >>
<1>1. IsAccept(t) /\ UNCHANGED << row, holder, dirty >> /\ LockNext(t, q)
      /\ pc[t] \in {"get_nego", "get_match", "get_buy", "get_sell"}
  BY DEF Preload, IsAccept
<1>2. /\ m \in Matches /\ Nego(m) \in Rows /\ Match(m) \in Rows
      /\ Intent(BuyIntent[m]) \in Rows /\ Intent(SellIntent[m]) \in Rows
  BY <1>1, AcceptTarget DEF IntentsOf
<1>3. \E r \in Rows : Get(t, r)
  BY <1>1, <1>2 DEF Preload
<1>4. \E s \in {"get_match", "get_buy", "get_sell", "lock_nego"} :
         Goto(t, s) /\ (s = "lock_nego" => pc[t] = "get_sell")
  BY <1>1 DEF Preload
<1>5. PICK s \in {"get_match", "get_buy", "get_sell", "lock_nego"} :
         Goto(t, s) /\ (s = "lock_nego" => pc[t] = "get_sell")
  BY <1>4
<1>6. s \in Step /\ q \in Seq(Rows)
  <2>1. << Nego(m) >> \in Seq(Rows) /\ << >> \in Seq(Rows)
    BY <1>2
  <2> QED
    BY <1>5, <2>1 DEF Step
<1>7. /\ Moves(t) /\ Tables' /\ pc'[t] = s /\ want'[t] = q
      /\ DOMAIN seen'[t] \subseteq Rows
  <2> HIDE DEF q
  <2> QED
    BY <1>1, <1>3, <1>5, <1>6, ReadsOn
<1>8. CleanBeforeCascade(t)'
  BY <1>1, <1>5, <1>7 DEF LocksInv, Own, CleanBeforeCascade
<1>9. AcceptClaims(t)'
  <2>1. s = "lock_nego" => Len(want'[t]) = 1 /\ want'[t][1] = Nego(m)
    BY <1>5, <1>7
  <2> QED
    BY <1>5, <1>7, <2>1 DEF AcceptClaims, Claims
<1>10. SeesItsIntent(t)'
  BY <1>1, AcceptTarget DEF SeesItsIntent
<1> QED
  BY <1>1, <1>7, <1>8, <1>9, <1>10, ReadKeepsInv

LEMMA CheckNegotiationKeepsInv ==
  ASSUME LocksInv, NEW t \in Txns, CheckNegotiation(t)
  PROVE  LocksInv'
<1> DEFINE m == Subject[t]
<1>1. /\ IsAccept(t) /\ pc[t] = "lock_nego" /\ want[t] = << >>
      /\ Own(t)
  BY DEF CheckNegotiation, At, LocksInv
<1>2. dirty[t] = Empty
  BY <1>1 DEF Own, CleanBeforeCascade
<1>3. CASE Refuse(t)
  BY <1>2, <1>3, RefuseKeepsInv
<1>4. CASE /\ LockNext(t, << Match(m) >>)
           /\ Goto(t, "lock_match")
           /\ UNCHANGED << row, holder, seen, dirty >>
  <2>1. << Match(m) >> \in Seq(Rows) /\ "lock_match" \in Step
    BY <1>1, AcceptTarget DEF Step
  <2>2. /\ Moves(t) /\ Tables' /\ pc'[t] = "lock_match" /\ want'[t] = << Match(m) >>
        /\ DOMAIN seen'[t] \subseteq Rows
    BY <1>4, <2>1, ReadsOn
  <2>3. CleanBeforeCascade(t)'
    BY <1>2, <1>4 DEF CleanBeforeCascade
  <2>4. AcceptClaims(t)'
    <3>1. holder[Nego(m)] = t
      BY <1>1, ClaimsAreHeld DEF Own, AcceptClaims
    <3>2. Len(want'[t]) = 1 /\ want'[t][1] = Match(m)
      BY <2>2
    <3> QED
      BY <1>4, <2>2, <3>1, <3>2 DEF AcceptClaims, Claims
  <2>5. SeesItsIntent(t)'
    BY <1>1, AcceptTarget DEF SeesItsIntent
  <2> QED
    BY <1>4, <2>2, <2>3, <2>4, <2>5, ReadKeepsInv
<1> QED
  BY <1>3, <1>4 DEF CheckNegotiation

LEMMA ReadPartiesKeepsInv ==
  ASSUME LocksInv, NEW t \in Txns, ReadParties(t)
  PROVE  LocksInv'
<1> DEFINE m == Subject[t]
<1>1. /\ IsAccept(t) /\ want[t] = << >> /\ pc[t] \in {"lock_match", "read_sell"}
      /\ UNCHANGED << row, holder, dirty >>
      /\ Own(t) /\ Tables
  BY DEF ReadParties, At, LocksInv
<1>2. /\ m \in Matches /\ Nego(m) \in Rows /\ Match(m) \in Rows
      /\ Intent(BuyIntent[m]) \in Rows /\ Intent(SellIntent[m]) \in Rows
  BY <1>1, AcceptTarget DEF IntentsOf
<1>3. /\ dirty[t] = Empty
      /\ holder[Nego(m)] = t /\ holder[Match(m)] = t
  BY <1>1, ClaimsAreHeld DEF Own, CleanBeforeCascade, AcceptClaims
<1>4. SeesItsIntent(t)'
  BY <1>1, AcceptTarget DEF SeesItsIntent
<1>5. CleanBeforeCascade(t)'
  BY <1>1, <1>3 DEF CleanBeforeCascade
<1>6. CASE /\ Get(t, Intent(BuyIntent[m])) /\ Goto(t, "read_sell") /\ UNCHANGED want
  <2>1. LockNext(t, << >>) /\ << >> \in Seq(Rows) /\ "read_sell" \in Step
    BY <1>1, <1>6 DEF LockNext, Tables, Step
  <2>2. /\ Moves(t) /\ Tables' /\ pc'[t] = "read_sell" /\ DOMAIN seen'[t] \subseteq Rows
    BY <1>1, <1>2, <1>6, <2>1, ReadsOn
  <2>3. AcceptClaims(t)'
    BY <1>1, <1>3, <2>2 DEF AcceptClaims, Claims
  <2> QED
    BY <1>1, <1>4, <1>5, <2>2, <2>3, ReadKeepsInv
<1>7. CASE /\ Get(t, Intent(SellIntent[m])) /\ LockNext(t, SortedIntents(m))
           /\ Goto(t, "lock_intents")
  <2>1. SortedIntents(m) \in Seq(Rows) /\ "lock_intents" \in Step
    BY <1>2 DEF SortedIntents, Step
  <2>2. /\ Moves(t) /\ Tables' /\ pc'[t] = "lock_intents" /\ want'[t] = SortedIntents(m)
        /\ DOMAIN seen'[t] \subseteq Rows
    BY <1>1, <1>2, <1>7, <2>1, ReadsOn
  <2>3. \A i \in IntentsOf(m) : \E n \in 1..Len(want'[t]) : want'[t][n] = Intent(i)
    <3>1. /\ Len(want'[t]) = 2
          /\ \A i \in IntentsOf(m) : want'[t][1] = Intent(i) \/ want'[t][2] = Intent(i)
      BY <2>2 DEF SortedIntents, IntentsOf
    <3>2. 1 \in 1..Len(want'[t]) /\ 2 \in 1..Len(want'[t])
      BY <3>1
    <3> QED
      BY <3>1, <3>2
  <2>4. AcceptClaims(t)'
    BY <1>1, <1>3, <2>2, <2>3 DEF AcceptClaims, Claims
  <2> QED
    BY <1>1, <1>4, <1>5, <2>2, <2>4, ReadKeepsInv
<1> QED
  BY <1>6, <1>7 DEF ReadParties

LEMMA ExpireMatchesKeepsInv ==
  ASSUME LocksInv, NEW t \in Txns, ExpireMatches(t)
  PROVE  LocksInv'
<1>1. PICK q \in Selected(t, {Match(k) : k \in Competing(t)}, {"discovered", "negotiating"}) :
         LockNext(t, q)
  BY DEF ExpireMatches
<1>2. q \in Seq(Rows) /\ "expire_matches" \in Step
  BY CompetingRows, SelectedIsSeq DEF Step
<1>3. Goto(t, "expire_matches") /\ UNCHANGED << row, holder, seen, dirty >>
  BY DEF ExpireMatches
<1>4. /\ Moves(t) /\ Tables' /\ pc'[t] = "expire_matches" /\ DOMAIN seen'[t] \subseteq Rows
  BY <1>1, <1>2, <1>3, ReadsOn
<1>5. CleanBeforeCascade(t)' /\ AcceptClaims(t)' /\ SeesItsIntent(t)'
  BY <1>4 DEF CleanBeforeCascade, AcceptClaims, SeesItsIntent
<1> QED
  BY <1>3, <1>4, <1>5, ReadKeepsInv

LEMMA ShortlistKeepsInv ==
  ASSUME LocksInv, NEW t \in Txns, Shortlist(t)
  PROVE  LocksInv'
<1>1. PICK found \in SUBSET Matches :
         seen' = [seen EXCEPT ![t] = [r \in {Match(m) : m \in found} |-> row[r]]]
  BY DEF Shortlist
<1>2. /\ pc[t] = "shortlist" /\ pc' = [pc EXCEPT ![t] = "insert"]
      /\ UNCHANGED << row, holder, want, dirty >>
      /\ Tables /\ Own(t)
  BY DEF Shortlist, Goto, LocksInv
<1>3. pc'[t] = "insert" /\ DOMAIN seen'[t] \subseteq Rows
  <2>1. DOMAIN seen'[t] = {Match(m) : m \in found}
    BY <1>1, <1>2 DEF Tables, IsTable
  <2> QED
    BY <1>2, <2>1, RowKinds DEF Tables
<1>4. Moves(t) /\ Tables'
  <2>1. "insert" \in Step
    BY DEF Step
  <2> QED
    BY <1>1, <1>2, <2>1 DEF Moves, Tables, IsTable
<1>5. CleanBeforeCascade(t)' /\ AcceptClaims(t)' /\ SeesItsIntent(t)'
  BY <1>2, <1>3 DEF Own, CleanBeforeCascade, AcceptClaims, SeesItsIntent
<1> QED
  BY <1>2, <1>3, <1>4, <1>5, ReadKeepsInv

-----------------------------------------------------------------------------
(***************************************************************************)
(* The steps that write, and those that commit.                            *)
(***************************************************************************)

\* The writes of d, on a session that has none, may be kept until the commit.
LEMMA WriteKeepsInv ==
  ASSUME LocksInv, NEW t \in Txns, NEW d, NEW q \in Seq(Rows),
         dirty[t] = Empty, Write(t, d), LockNext(t, q), Goto(t, "cancel_negos"),
         UNCHANGED << row, holder, seen >>,
         \A r \in DOMAIN d :
            /\ r \in Rows /\ d[r] \in Status /\ holder[r] = t
            /\ \A i \in Intents : r # Price(i)
            /\ \A i \in Intents : r = Intent(i) => d[r] \in {"matched", "cancelled"}
            /\ \A m \in Matches : r = Match(m) => d[r] # "matched"
            /\ d[r] \notin Final => row[r] \notin Final,
         \A m \in Matches :
            Nego(m) \in DOMAIN d /\ d[Nego(m)] = "agreed" =>
               /\ Match(m) \in DOMAIN d /\ d[Match(m)] = "agreed"
               /\ \A i \in IntentsOf(m) : Intent(i) \in DOMAIN d /\ d[Intent(i)] = "matched"
  PROVE  LocksInv'
<1>1. /\ dirty' = [dirty EXCEPT ![t] = Override(@, d)]
      /\ want' = [want EXCEPT ![t] = q]
      /\ pc' = [pc EXCEPT ![t] = "cancel_negos"]
      /\ Tables /\ Own(t)
  BY DEF Write, LockNext, Goto, LocksInv
<1>2. dirty'[t] = Override(Empty, d) /\ pc'[t] = "cancel_negos"
  BY <1>1 DEF Tables, IsTable
<1>3. DOMAIN dirty'[t] = DOMAIN d /\ \A r \in DOMAIN d : dirty'[t][r] = d[r]
  BY <1>2, NothingIsEmpty DEF Override, Load
<1>4. Moves(t) /\ RespectsLocks(t)
  BY <1>1 DEF Moves, Tables, IsTable, RespectsLocks
<1>5. Tables'
  <2>1. "cancel_negos" \in Step
    BY DEF Step
  <2> QED
    BY <1>1, <2>1 DEF Tables, IsTable
<1>6. WritesAreLocked(t)'
  BY <1>3 DEF WritesAreLocked
<1>7. WritesAreWhole(t)'
  BY <1>3 DEF WritesAreWhole
<1>8. /\ CleanBeforeCascade(t)' /\ AcceptClaims(t)' /\ SeesItsIntent(t)'
      /\ DOMAIN seen'[t] \subseteq Rows
  BY <1>1, <1>2 DEF Own, CleanBeforeCascade, AcceptClaims, SeesItsIntent
<1>9. ColumnsAreTyped' /\ AgreedTakesBoth'
  BY DEF LocksInv, ColumnsAreTyped, AgreedTakesBoth
<1> QED
  BY <1>4, <1>5, <1>6, <1>7, <1>8, <1>9, StepKeepsInv DEF Own

\* The commit of e keeps the tables whole and the locked rows of others.
KeepsWhole(t, e) ==
    /\ \A r \in DOMAIN e :
          /\ r \in Rows /\ e[r] \in Status
          /\ holder[r] # t => e[r] \notin Final /\ \A i \in Intents : r # Intent(i)
          /\ \A i \in Intents : r = Intent(i) => e[r] \in {"matched", "cancelled"}
          /\ \A i \in Intents : r = Price(i) => e[r] = "edited"
    /\ \A m \in Matches : row[Nego(m)] = "agreed" =>
          /\ Match(m) \in DOMAIN e => e[Match(m)] = "agreed"
          /\ \A i \in IntentsOf(m) : Intent(i) \in DOMAIN e => e[Intent(i)] = "matched"
    /\ \A m \in Matches :
          Nego(m) \in DOMAIN e /\ e[Nego(m)] = "agreed" =>
             /\ Match(m) \in DOMAIN e /\ e[Match(m)] = "agreed"
             /\ \A i \in IntentsOf(m) : Intent(i) \in DOMAIN e /\ e[Intent(i)] = "matched"

LEMMA CommitKeepsInv ==
  ASSUME LocksInv, NEW t \in Txns, NEW d, NEW s \in Quiet, CommitAndGoto(t, d, s),
         KeepsWhole(t, Override(dirty[t], d))
  PROVE  LocksInv'
<1> DEFINE e == Override(dirty[t], d)
<1>1. Release(t) /\ Goto(t, s) /\ row' = Override(row, e)
  BY DEF CommitAndGoto
<1>2. Tables /\ ColumnsAreTyped /\ AgreedTakesBoth
  BY DEF LocksInv
<1>3. KeepsWhole(t, e)
  OBVIOUS
<1> HIDE DEF e
<1>4. /\ row' \in [Rows -> Status]
      /\ \A r \in DOMAIN e : row'[r] = e[r]
      /\ \A r \in Rows \ DOMAIN e : row'[r] = row[r]
  <2>1. DOMAIN e \subseteq Rows /\ \A r \in DOMAIN e : e[r] \in Status
    BY <1>3 DEF KeepsWhole
  <2> QED
    BY <1>1, <1>2, <2>1 DEF Tables, Override, Load
<1>5. /\ Moves(t) /\ Tables' /\ Own(t)'
      /\ \A r \in Rows : holder[r] # t => holder'[r] = holder[r]
  BY <1>1, <1>4, ReleaseClears DEF Quiet
<1>6. RespectsLocks(t)
  <2> SUFFICES ASSUME NEW u \in Txns \ {t}, NEW r \in Rows, holder[r] = u
               PROVE  /\ holder'[r] = u
                      /\ row'[r] = row[r]
                            \/ (row'[r] \notin Final /\ \A i \in Intents : r # Intent(i))
    BY DEF RespectsLocks
  <2> QED
    BY <1>3, <1>4, <1>5 DEF KeepsWhole
<1>7. ColumnsAreTyped'
  <2> SUFFICES ASSUME NEW i \in Intents
               PROVE  /\ row'[Price(i)] \in {"as_posted", "edited"}
                      /\ row'[Intent(i)] \in {"active", "matched", "cancelled"}
    BY DEF ColumnsAreTyped
  <2>1. Price(i) \in Rows /\ Intent(i) \in Rows
    BY RowKinds
  <2>2. row'[Price(i)] \in {"as_posted", "edited"}
    BY <1>2, <1>3, <1>4, <2>1 DEF ColumnsAreTyped, KeepsWhole
  <2>3. row'[Intent(i)] \in {"active", "matched", "cancelled"}
    BY <1>2, <1>3, <1>4, <2>1 DEF ColumnsAreTyped, KeepsWhole
  <2> QED
    BY <2>2, <2>3
<1>8. AgreedTakesBoth'
  <2> SUFFICES ASSUME NEW m \in Matches, row'[Nego(m)] = "agreed"
               PROVE  /\ row'[Match(m)] = "agreed"
                      /\ \A i \in IntentsOf(m) : row'[Intent(i)] = "matched"
    BY DEF AgreedTakesBoth
  <2>1. /\ Nego(m) \in Rows /\ Match(m) \in Rows
        /\ \A i \in IntentsOf(m) : i \in Intents /\ Intent(i) \in Rows
    BY RowKinds, SubjectsAreTyped DEF IntentsOf
  <2>2. CASE Nego(m) \in DOMAIN e
    BY <1>3, <1>4, <2>2 DEF KeepsWhole
  <2>3. CASE Nego(m) \notin DOMAIN e
    <3>1. row[Nego(m)] = "agreed"
      BY <1>4, <2>1, <2>3
    <3>2. row[Match(m)] = "agreed" /\ \A i \in IntentsOf(m) : row[Intent(i)] = "matched"
      BY <1>2, <3>1 DEF AgreedTakesBoth
    <3> QED
      BY <1>3, <1>4, <2>1, <3>1, <3>2 DEF KeepsWhole
  <2> QED
    BY <2>2, <2>3
<1> QED
  BY <1>5, <1>6, <1>7, <1>8, StepKeepsInv

\* Without earlier writes the commit is that of its own changes.
LEMMA CleanCommit ==
  ASSUME NEW t, NEW d, dirty[t] = Empty, KeepsWhole(t, d)
  PROVE  KeepsWhole(t, Override(dirty[t], d))
<1> DEFINE e == Override(dirty[t], d)
<1>1. DOMAIN e = DOMAIN d /\ \A r \in DOMAIN d : e[r] = d[r]
  BY NothingIsEmpty DEF Override, Load
<1> HIDE DEF e
<1>2. KeepsWhole(t, e)
  BY <1>1 DEF KeepsWhole
<1> QED
  BY <1>2 DEF e

LEMMA EmptyKeepsWhole ==
  ASSUME NEW t
  PROVE  KeepsWhole(t, Empty)
  BY NothingIsEmpty DEF KeepsWhole

LEMMA CheckIntentsKeepsInv ==
  ASSUME LocksInv, NEW t \in Txns, CheckIntents(t)
  PROVE  LocksInv'
<1> DEFINE m == Subject[t]
<1> DEFINE d == [r \in Taken(m) \cup {Nego(m), Match(m)} |->
                    IF r \in Taken(m) THEN "matched" ELSE "agreed"]
<1>1. /\ IsAccept(t) /\ pc[t] = "lock_intents" /\ want[t] = << >>
      /\ Own(t)
  BY DEF CheckIntents, At, LocksInv
<1>2. dirty[t] = Empty
  BY <1>1 DEF Own, CleanBeforeCascade
<1>3. CASE Refuse(t)
  BY <1>2, <1>3, RefuseKeepsInv
<1>4. CASE /\ Write(t, d)
           /\ \E q \in Selected(t, {Nego(k) : k \in Competing(t)}, {"active"}) : LockNext(t, q)
           /\ Goto(t, "cancel_negos")
           /\ UNCHANGED << row, holder, seen >>
  <2>1. PICK q \in Selected(t, {Nego(k) : k \in Competing(t)}, {"active"}) : LockNext(t, q)
    BY <1>4
  <2>2. q \in Seq(Rows)
    BY CompetingRows, SelectedIsSeq
  <2>3. /\ holder[Nego(m)] = t /\ holder[Match(m)] = t
        /\ \A i \in IntentsOf(m) : holder[Intent(i)] = t
    BY <1>1, ClaimsAreHeld DEF Own, AcceptClaims
  <2>4. /\ m \in Matches /\ Nego(m) \in Rows /\ Match(m) \in Rows
        /\ \A i \in IntentsOf(m) : i \in Intents /\ Intent(i) \in Rows
    BY <1>1, AcceptTarget
  <2>5. /\ DOMAIN d = Taken(m) \cup {Nego(m), Match(m)}
        /\ \A r \in Taken(m) : d[r] = "matched"
        /\ Nego(m) \notin Taken(m) /\ d[Nego(m)] = "agreed"
        /\ Match(m) \notin Taken(m) /\ d[Match(m)] = "agreed"
    BY <2>4, RowKinds DEF Taken
  <2> HIDE DEF d
  <2>6. \A r \in DOMAIN d :
            /\ r \in Rows /\ d[r] \in Status /\ holder[r] = t
            /\ \A i \in Intents : r # Price(i)
            /\ \A i \in Intents : r = Intent(i) => d[r] \in {"matched", "cancelled"}
            /\ \A k \in Matches : r = Match(k) => d[r] # "matched"
            /\ d[r] \notin Final => row[r] \notin Final
    <3>1. ASSUME NEW r \in Taken(m)
          PROVE  /\ r \in Rows /\ d[r] = "matched" /\ holder[r] = t
                 /\ \A i \in Intents : r # Price(i)
                 /\ \A k \in Matches : r # Match(k)
      <4>1. PICK i \in IntentsOf(m) : r = Intent(i)
        BY DEF Taken
      <4> QED
        BY <2>3, <2>4, <2>5, <4>1, RowKinds
    <3>2. ASSUME NEW r \in {Nego(m), Match(m)}
          PROVE  /\ r \in Rows /\ d[r] = "agreed" /\ holder[r] = t
                 /\ \A i \in Intents : r # Price(i) /\ r # Intent(i)
      BY <2>3, <2>4, <2>5, RowKinds
    <3> QED
      BY <2>5, <3>1, <3>2 DEF Status, Final
  <2>7. ASSUME NEW k \in Matches, Nego(k) \in DOMAIN d
        PROVE  /\ Match(k) \in DOMAIN d /\ d[Match(k)] = "agreed"
               /\ \A i \in IntentsOf(k) : Intent(i) \in DOMAIN d /\ d[Intent(i)] = "matched"
    <3>1. k = m
      BY <2>5, <2>7, RowKinds DEF Taken
    <3>2. \A i \in IntentsOf(m) : Intent(i) \in Taken(m)
      BY DEF Taken
    <3> QED
      BY <2>5, <3>1, <3>2
  <2> QED
    BY <1>2, <1>4, <2>1, <2>2, <2>6, <2>7, WriteKeepsInv
<1> QED
  BY <1>3, <1>4 DEF CheckIntents

LEMMA CancelIntentKeepsInv ==
  ASSUME LocksInv, NEW t \in Txns, CancelIntent(t)
  PROVE  LocksInv'
<1> DEFINE r == Intent(Subject[t])
<1> DEFINE d == [x \in {r} |-> "cancelled"]
<1>1. /\ Handler[t] = "cancel_intent" /\ pc[t] = "lock_intents" /\ want[t] = << >>
      /\ Own(t)
  BY DEF CancelIntent, At, LocksInv
<1>2. dirty[t] = Empty
  BY <1>1 DEF Own, CleanBeforeCascade
<1>3. CASE Refuse(t)
  BY <1>2, <1>3, RefuseKeepsInv
<1>4. CASE /\ OnOffer(t, {r})
           /\ Write(t, d)
           /\ \E q \in Selected(t, {Nego(k) : k \in Competing(t)}, {"active"}) : LockNext(t, q)
           /\ Goto(t, "cancel_negos")
           /\ UNCHANGED << row, holder, seen >>
  <2>1. PICK q \in Selected(t, {Nego(k) : k \in Competing(t)}, {"active"}) : LockNext(t, q)
    BY <1>4
  <2>2. q \in Seq(Rows)
    BY CompetingRows, SelectedIsSeq
  <2>3. holder[r] = t /\ row[r] = "active"
    BY <1>1, <1>4 DEF Own, SeesItsIntent, IsIntentRequest, OnOffer
  <2>4. Subject[t] \in Intents /\ r \in Rows
    BY <1>1, SubjectsAreTyped, RowKinds DEF IsIntentRequest
  <2>5. DOMAIN d = {r} /\ d[r] = "cancelled"
    OBVIOUS
  <2> HIDE DEF d
  <2>6. \A x \in DOMAIN d :
            /\ x \in Rows /\ d[x] \in Status /\ holder[x] = t
            /\ \A i \in Intents : x # Price(i)
            /\ \A i \in Intents : x = Intent(i) => d[x] \in {"matched", "cancelled"}
            /\ \A k \in Matches : x = Match(k) => d[x] # "matched"
            /\ d[x] \notin Final => row[x] \notin Final
    BY <2>3, <2>4, <2>5, RowKinds DEF Status, Final
  <2>7. \A k \in Matches : Nego(k) \notin DOMAIN d
    BY <2>5, RowKinds
  <2> QED
    BY <1>2, <1>4, <2>1, <2>2, <2>6, <2>7, WriteKeepsInv
<1> QED
  BY <1>3, <1>4 DEF CancelIntent

LEMMA CommitStepKeepsInv ==
  ASSUME LocksInv, NEW t \in Txns, Commit(t)
  PROVE  LocksInv'
<1> DEFINE e == Override(dirty[t], Empty)
<1>1. WritesAreLocked(t) /\ WritesAreWhole(t)
  BY DEF LocksInv, Own
<1>2. DOMAIN e = DOMAIN dirty[t] /\ \A r \in DOMAIN dirty[t] : e[r] = dirty[t][r]
  BY NothingIsEmpty DEF Override, Load
<1> HIDE DEF e
<1>3. ASSUME NEW m \in Matches, row[Nego(m)] = "agreed"
      PROVE  /\ Match(m) \in DOMAIN e => e[Match(m)] = "agreed"
             /\ \A i \in IntentsOf(m) : Intent(i) \in DOMAIN e => e[Intent(i)] = "matched"
  <2>1. row[Match(m)] = "agreed" /\ \A i \in IntentsOf(m) : row[Intent(i)] = "matched"
    BY <1>3 DEF LocksInv, AgreedTakesBoth
  <2>2. Match(m) \in DOMAIN e => e[Match(m)] \in Final /\ e[Match(m)] # "matched"
    BY <1>1, <1>2, <2>1 DEF WritesAreLocked, WritesAreWhole, Final
  <2>3. \A i \in IntentsOf(m) : i \in Intents
    BY SubjectsAreTyped DEF IntentsOf
  <2>4. \A i \in IntentsOf(m) : Intent(i) \in DOMAIN e =>
           e[Intent(i)] \in Final /\ e[Intent(i)] \in {"matched", "cancelled"}
    BY <1>1, <1>2, <2>1, <2>3 DEF WritesAreLocked, WritesAreWhole, Final
  <2> QED
    BY <2>2, <2>4 DEF Final
<1>5. KeepsWhole(t, e)
  BY <1>1, <1>2, <1>3 DEF WritesAreLocked, WritesAreWhole, KeepsWhole
<1>4. CommitAndGoto(t, Empty, "done") /\ "done" \in Quiet
  BY DEF Commit, CommitWith, Quiet, Step, Ended
<1> QED
  BY <1>4, <1>5, CommitKeepsInv DEF e

LEMMA OfferKeepsInv ==
  ASSUME LocksInv, NEW t \in Txns, Offer(t)
  PROVE  LocksInv'
<1> DEFINE m == Subject[t]
<1> DEFINE d == [r \in {Nego(m), Match(m)} |-> IF r = Nego(m) THEN "active" ELSE "negotiating"]
<1>1. /\ Handler[t] = "start_or_continue" /\ pc[t] = "lock_match" /\ want[t] = << >>
      /\ Own(t)
  BY DEF Offer, At, LocksInv
<1>2. /\ dirty[t] = Empty /\ ~IsAccept(t) /\ ~IsIntentRequest(Handler[t])
  BY <1>1 DEF Own, CleanBeforeCascade, IsAccept, IsIntentRequest
<1>3. m \in Matches /\ Nego(m) \in Rows /\ Match(m) \in Rows
  BY <1>2, SubjectsAreTyped, RowKinds
<1>4. CASE Refuse(t)
  BY <1>2, <1>4, RefuseKeepsInv
<1>5. CASE row[Nego(m)] = "none" /\ CommitAndGoto(t, d, "done")
  <2>1. /\ DOMAIN d = {Nego(m), Match(m)} /\ d[Nego(m)] = "active" /\ d[Match(m)] = "negotiating"
    BY RowKinds
  <2> HIDE DEF d
  <2>2. \A r \in DOMAIN d :
          /\ r \in Rows /\ d[r] \in Status /\ d[r] \notin Final
          /\ \A i \in Intents : r # Intent(i) /\ r # Price(i)
    BY <1>3, <2>1, RowKinds DEF Status, Final
  <2>3. \A k \in Matches : row[Nego(k)] = "agreed" =>
          /\ Match(k) \notin DOMAIN d
          /\ \A i \in IntentsOf(k) : Intent(i) \notin DOMAIN d
    BY <1>5, <2>1, RowKinds
  <2>4. KeepsWhole(t, d)
    BY <2>2, <2>3 DEF KeepsWhole, Final
  <2>5. "done" \in Quiet
    BY DEF Quiet, Step, Ended
  <2> QED
    BY <1>2, <1>5, <2>4, <2>5, CleanCommit, CommitKeepsInv
<1>6. CASE /\ LockNext(t, << Nego(m) >>)
           /\ Goto(t, "lock_nego")
           /\ UNCHANGED << row, holder, seen, dirty >>
  <2>1. << Nego(m) >> \in Seq(Rows) /\ "lock_nego" \in Step
    BY <1>3 DEF Step
  <2>2. /\ Moves(t) /\ Tables' /\ DOMAIN seen'[t] \subseteq Rows
    BY <1>6, <2>1, ReadsOn
  <2>3. CleanBeforeCascade(t)' /\ AcceptClaims(t)' /\ SeesItsIntent(t)'
    BY <1>2, <1>6 DEF CleanBeforeCascade, AcceptClaims, SeesItsIntent
  <2> QED
    BY <1>6, <2>2, <2>3, ReadKeepsInv
<1> QED
  BY <1>4, <1>5, <1>6 DEF Offer, CommitWith

LEMMA CounterOfferKeepsInv ==
  ASSUME LocksInv, NEW t \in Txns, CounterOffer(t)
  PROVE  LocksInv'
<1>1. Handler[t] = "start_or_continue" /\ pc[t] = "lock_nego" /\ Own(t)
  BY DEF CounterOffer, At, LocksInv
<1>2. dirty[t] = Empty
  BY <1>1 DEF Own, CleanBeforeCascade
<1>3. CASE Refuse(t)
  BY <1>2, <1>3, RefuseKeepsInv
<1>4. CASE CommitAndGoto(t, Empty, "done")
  <2>1. "done" \in Quiet
    BY DEF Quiet, Step, Ended
  <2> QED
    BY <1>2, <1>4, <2>1, EmptyKeepsWhole, CleanCommit, CommitKeepsInv
<1> QED
  BY <1>3, <1>4 DEF CounterOffer, CommitWith

\* What an edit commits, and that it saw the intent as it is.
LEMMA EditFacts ==
  ASSUME LocksInv, NEW t \in Txns, UpdateIntent(t), ~Refuse(t)
  PROVE  /\ dirty[t] = Empty
         /\ Subject[t] \in Intents
         /\ row[Intent(Subject[t])] = "active"
         /\ \/ CommitAndGoto(t, [r \in {Price(Subject[t])} |-> "edited"], "shortlist")
            \/ CommitAndGoto(t, Empty, "shortlist")
<1>1. /\ Handler[t] = "update_intent" /\ pc[t] = "lock_intents" /\ want[t] = << >>
      /\ Own(t)
  BY DEF UpdateIntent, At, LocksInv
<1>2. dirty[t] = Empty
  BY <1>1 DEF Own, CleanBeforeCascade
<1>3. /\ OnOffer(t, {Intent(Subject[t])})
      /\ \E priced \in BOOLEAN :
            CommitAndGoto(t, IF priced THEN [r \in {Price(Subject[t])} |-> "edited"]
                             ELSE Empty, "shortlist")
  BY DEF UpdateIntent
<1>4. Subject[t] \in Intents
  BY <1>1, SubjectsAreTyped DEF IsIntentRequest
<1>5. row[Intent(Subject[t])] = "active"
  BY <1>1, <1>3 DEF Own, SeesItsIntent, IsIntentRequest, OnOffer
<1> QED
  BY <1>2, <1>3, <1>4, <1>5

LEMMA PriceKeepsWhole ==
  ASSUME NEW t, NEW i \in Intents
  PROVE  KeepsWhole(t, [r \in {Price(i)} |-> "edited"])
<1> DEFINE d == [r \in {Price(i)} |-> "edited"]
<1>1. DOMAIN d = {Price(i)} /\ d[Price(i)] = "edited"
  OBVIOUS
<1> HIDE DEF d
<1>2. KeepsWhole(t, d)
  BY <1>1, RowKinds DEF KeepsWhole, Status, Final
<1> QED
  BY <1>2 DEF d

LEMMA UpdateIntentKeepsInv ==
  ASSUME LocksInv, NEW t \in Txns, UpdateIntent(t)
  PROVE  LocksInv'
<1>1. CASE Refuse(t)
  <2>1. dirty[t] = Empty
    BY DEF UpdateIntent, At, LocksInv, Own, CleanBeforeCascade
  <2> QED
    BY <1>1, <2>1, RefuseKeepsInv
<1>2. CASE ~Refuse(t)
  <2> DEFINE d == [r \in {Price(Subject[t])} |-> "edited"]
  <2>1. /\ dirty[t] = Empty
        /\ CommitAndGoto(t, d, "shortlist") \/ CommitAndGoto(t, Empty, "shortlist")
    BY <1>2, EditFacts
  <2>2. KeepsWhole(t, d) /\ KeepsWhole(t, Empty) /\ "shortlist" \in Quiet
    BY <1>2, EditFacts, PriceKeepsWhole, EmptyKeepsWhole DEF Quiet, Step
  <2> HIDE DEF d
  <2> QED
    BY <2>1, <2>2, CleanCommit, CommitKeepsInv
<1> QED
  BY <1>1, <1>2

LEMMA UpsertMatchKeepsInv ==
  ASSUME LocksInv, NEW t \in Txns, UpsertMatch(t)
  PROVE  LocksInv'
<1> DEFINE d == [r \in {Match(m) : m \in NewPairs(t)} |-> "discovered"]
<1>1. pc[t] = "insert" /\ Own(t) /\ ColumnsAreTyped /\ AgreedTakesBoth
  BY DEF UpsertMatch, At, LocksInv
<1>2. dirty[t] = Empty
  BY <1>1 DEF Own, CleanBeforeCascade
<1>4. CommitAndGoto(t, d, "done") /\ "done" \in Quiet
  BY DEF UpsertMatch, CommitWith, Quiet, Step, Ended
<1>5. \A r \in DOMAIN d : r \in Rows /\ row[r] = "none" /\ d[r] = "discovered"
  BY RowKinds DEF NewPairs
<1> HIDE DEF d
<1>6. \A r \in DOMAIN d, i \in Intents : r # Intent(i) /\ r # Price(i)
  BY <1>1, <1>5 DEF ColumnsAreTyped
<1>7. \A m \in Matches : row[Nego(m)] = "agreed" =>
        Match(m) \notin DOMAIN d /\ \A i \in IntentsOf(m) : Intent(i) \notin DOMAIN d
  BY <1>1, <1>5 DEF AgreedTakesBoth
<1>8. KeepsWhole(t, d)
  BY <1>5, <1>6, <1>7 DEF KeepsWhole, Status, Final
<1> QED
  BY <1>2, <1>4, <1>8, CleanCommit, CommitKeepsInv

-----------------------------------------------------------------------------
(***************************************************************************)
(* The theorems.                                                           *)
(***************************************************************************)

LEMMA StepPreservesInv == LocksInv /\ [Next]_vars => LocksInv'
<1> SUFFICES ASSUME LocksInv, [Next]_vars PROVE LocksInv'
  OBVIOUS
<1>1. CASE UNCHANGED vars
  BY <1>1 DEF vars, LocksInv, Tables, IsTable, ColumnsAreTyped, AgreedTakesBoth, Own,
              WritesAreLocked, WritesAreWhole, CleanBeforeCascade, AcceptClaims, Claims,
              SeesItsIntent
<1>2. ASSUME NEW t \in Txns, Serve(t) PROVE LocksInv'
  <2>1. CASE EndTick(t)
    <3>1. Rollback(t, "refused") /\ "refused" \in Quiet
      BY <2>1 DEF EndTick, Quiet, Step, Ended
    <3> QED
      BY <3>1, RollbackKeepsInv
  <2>2. CASE DeadlockVictim(t)
    <3>1. Rollback(t, "aborted") /\ "aborted" \in Quiet
      BY <2>2 DEF DeadlockVictim, Quiet, Step, Ended
    <3> QED
      BY <3>1, RollbackKeepsInv
  <2> QED
    BY <1>2, <2>1, <2>2, AcquireKeepsInv, PreloadKeepsInv, CheckNegotiationKeepsInv,
       ReadPartiesKeepsInv, CheckIntentsKeepsInv, OfferKeepsInv, CounterOfferKeepsInv,
       CancelIntentKeepsInv, UpdateIntentKeepsInv, ShortlistKeepsInv, UpsertMatchKeepsInv,
       ExpireMatchesKeepsInv, CommitStepKeepsInv DEF Serve
<1> QED
  BY <1>1, <1>2 DEF Next

LEMMA LocksInvariant == Spec => []LocksInv
  BY LocksInit, StepPreservesInv, PTL DEF Spec

\* The tables of every mixture of requests stay within the statuses of the
\* schema, and a transaction has locked every row it has written.
THEOREM LocksTypeCorrect == Spec => []TypeOK
<1>1. LocksInv => TypeOK
  BY DEF LocksInv, Tables, TypeOK, Own, WritesAreLocked
<1> QED
  BY <1>1, LocksInvariant, PTL

\* However many accepts, cancellations, edits, offers and discoveries run at
\* once: an agreed negotiation has its match and both intents, and keeps them.
THEOREM AgreementTakesBoth == Spec => []AgreedTakesBoth
<1>1. LocksInv => AgreedTakesBoth
  BY DEF LocksInv
<1> QED
  BY <1>1, LocksInvariant, PTL

PriceStep ==
    \A i \in Intents : row'[Price(i)] # row[Price(i)] =>
        row[Intent(i)] = "active" /\ row'[Intent(i)] = "active"

\* A commit that binds no price changes none.
LEMMA NoPriceBound ==
  ASSUME LocksInv, NEW t \in Txns, NEW d, NEW s, CommitAndGoto(t, d, s),
         \A i \in Intents : Price(i) \notin DOMAIN d
  PROVE  PriceStep
<1> DEFINE e == Override(dirty[t], d)
<1>1. row' = Override(row, e) /\ row \in [Rows -> Status]
  BY DEF CommitAndGoto, LocksInv, Tables
<1>2. DOMAIN e = DOMAIN dirty[t] \cup DOMAIN d
  BY DEF Override, Load
<1>3. \A i \in Intents : Price(i) \notin DOMAIN e
  BY <1>2 DEF LocksInv, Own, WritesAreLocked
<1> HIDE DEF e
<1>4. \A i \in Intents : row'[Price(i)] = row[Price(i)]
  BY <1>1, <1>3, RowKinds DEF Override, Load
<1> QED
  BY <1>4 DEF PriceStep

\* A price changes only in an edit that has its intent locked and active, so
\* neither an accept nor a cancellation is overwritten, and none comes between.
THEOREM PricesAreFinal == Spec => PriceIsFinal
<1>1. ASSUME LocksInv, [Next]_vars PROVE [PriceStep]_vars
  <2>1. CASE row' = row
    BY <2>1 DEF PriceStep
  <2>2. ASSUME NEW t \in Txns, Offer(t) \/ CounterOffer(t) \/ UpsertMatch(t) \/ Commit(t),
               row' # row
        PROVE  PriceStep
    <3>1. Refuse(t) => row' = row
      BY DEF Refuse, Rollback
    <3>2. CASE Offer(t)
      <4> DEFINE m == Subject[t]
      <4> DEFINE d == [r \in {Nego(m), Match(m)} |-> IF r = Nego(m) THEN "active" ELSE "negotiating"]
      <4>1. CommitAndGoto(t, d, "done")
        BY <2>2, <3>1, <3>2 DEF Offer, CommitWith
      <4>2. \A i \in Intents : Price(i) \notin DOMAIN d
        BY RowKinds
      <4> HIDE DEF d
      <4> QED
        BY <1>1, <4>1, <4>2, NoPriceBound
    <3>3. CASE CounterOffer(t) \/ Commit(t)
      <4>1. CommitAndGoto(t, Empty, "done")
        BY <2>2, <3>1, <3>3 DEF CounterOffer, Commit, CommitWith
      <4> QED
        BY <1>1, <4>1, NothingIsEmpty, NoPriceBound
    <3>4. CASE UpsertMatch(t)
      <4> DEFINE d == [r \in {Match(m) : m \in NewPairs(t)} |-> "discovered"]
      <4>1. CommitAndGoto(t, d, "done")
        BY <3>4 DEF UpsertMatch, CommitWith
      <4>2. \A i \in Intents : Price(i) \notin DOMAIN d
        BY RowKinds
      <4> HIDE DEF d
      <4> QED
        BY <1>1, <4>1, <4>2, NoPriceBound
    <3> QED
      BY <2>2, <3>2, <3>3, <3>4
  <2>3. ASSUME NEW t \in Txns, UpdateIntent(t), row' # row PROVE PriceStep
    <3> DEFINE j == Subject[t]
    <3> DEFINE d == [r \in {Price(j)} |-> "edited"]
    <3>1. ~Refuse(t)
      BY <2>3 DEF Refuse, Rollback
    <3>2. /\ dirty[t] = Empty /\ j \in Intents /\ row[Intent(j)] = "active"
          /\ CommitAndGoto(t, d, "shortlist") \/ CommitAndGoto(t, Empty, "shortlist")
      BY <1>1, <2>3, <3>1, EditFacts
    <3>3. CASE CommitAndGoto(t, Empty, "shortlist")
      BY <1>1, <3>3, NothingIsEmpty, NoPriceBound
    <3>4. CASE CommitAndGoto(t, d, "shortlist")
      <4>1. DOMAIN d = {Price(j)}
        OBVIOUS
      <4> HIDE DEF d
      <4>2. row' = Override(row, Override(Empty, d)) /\ row \in [Rows -> Status]
        BY <1>1, <3>2, <3>4 DEF CommitAndGoto, LocksInv, Tables
      <4>3. \A r \in Rows : r # Price(j) => row'[r] = row[r]
        BY <4>1, <4>2, NothingIsEmpty DEF Override, Load
      <4>4. ASSUME NEW i \in Intents, row'[Price(i)] # row[Price(i)]
            PROVE  row[Intent(i)] = "active" /\ row'[Intent(i)] = "active"
        <5>1. i = j
          BY <4>3, <4>4, RowKinds
        <5>2. row'[Intent(j)] = row[Intent(j)]
          BY <3>2, <4>3, RowKinds
        <5> QED
          BY <3>2, <5>1, <5>2
      <4> QED
        BY <4>4 DEF PriceStep
    <3> QED
      BY <3>2, <3>3, <3>4
  <2>4. ASSUME NEW t \in Txns, Serve(t), row' # row
        PROVE  Offer(t) \/ CounterOffer(t) \/ UpsertMatch(t) \/ Commit(t) \/ UpdateIntent(t)
    BY <2>4 DEF Serve, Acquire, Preload, CheckNegotiation, ReadParties, CheckIntents,
                CancelIntent, Shortlist, ExpireMatches, EndTick, DeadlockVictim, Refuse, Rollback
  <2> QED
    BY <1>1, <2>1, <2>2, <2>3, <2>4 DEF Next, vars
<1>2. LocksInv /\ [Next]_vars => [PriceStep]_vars
  BY <1>1
<1>3. PriceIsFinal <=> [][PriceStep]_vars
  BY PTL DEF PriceIsFinal, PriceStep
<1> QED
  BY <1>2, <1>3, LocksInvariant, PTL DEF Spec

-----------------------------------------------------------------------------
(***************************************************************************)
(* No double sale, unless by a tool.                                       *)
(***************************************************************************)

\* An agent's tool judges what it read before it locked.
ByTool(t) == Handler[t] = "tool_accept_offer"

ByApi(t) == Handler[t] = "accept_offer"

Absent(k) == row[Match(k)] = "none"

Shut(k) == row[Match(k)] \notin {"none", "discovered", "negotiating"}

Known == \A k \in Matches : row[Nego(k)] # "none" => ~Absent(k)

Closed(i) == row[Intent(i)] # "active"

ShutHasClosed == \A k \in Matches : Shut(k) => \E j \in IntentsOf(k) : Closed(j)

Cascading(t) == pc[t] \in {"cancel_negos", "expire_matches"}

Touches(t, k) == IntentsOf(k) \cap Closing(t) # {}

\* A cascade locks rows of competing matches only.
WantsCompeting(t) ==
    \A n \in 1..Len(want[t]) :
        /\ pc[t] = "cancel_negos" => \E k \in Competing(t) : want[t][n] = Nego(k)
        /\ pc[t] = "expire_matches" => \E k \in Competing(t) : want[t][n] = Match(k)

AgreesOn(e, k) == Nego(k) \in DOMAIN e /\ e[Nego(k)] = "agreed"

\* The writes of a cascade: it closes intents, active ones unless a tool was
\* misled, ends matches on them, and agrees on its own negotiation only.
WritesAClosing(t) ==
    /\ IsAccept(t) \/ Handler[t] = "cancel_intent"
    /\ \A i \in Closing(t) :
          /\ Intent(i) \in DOMAIN dirty[t]
          /\ dirty[t][Intent(i)] = IF IsAccept(t) THEN "matched" ELSE "cancelled"
          /\ ~Closed(i) \/ ByTool(t)
    /\ \A i \in Intents : Intent(i) \in DOMAIN dirty[t] => i \in Closing(t)
    /\ \A k \in Matches : Match(k) \in DOMAIN dirty[t] =>
          /\ dirty[t][Match(k)] \in {"agreed", "expired"} /\ Touches(t, k)
          /\ ~Absent(k) \/ (IsAccept(t) /\ k = Subject[t])
    /\ \A k \in Matches :
          /\ Nego(k) \in DOMAIN dirty[t] =>
                /\ dirty[t][Nego(k)] \in {"agreed", "cancelled"}
                /\ ~Absent(k) \/ (IsAccept(t) /\ k = Subject[t])
          /\ AgreesOn(dirty[t], k) <=> IsAccept(t) /\ k = Subject[t]

\* When an intent is closed, every match on it is shut or shut with it, or is
\* not stored yet, and will not be before the commit.
ShutsAll(t) ==
    \A k \in Matches : Touches(t, k) => Claims(t, Match(k)) \/ Shut(k) \/ Absent(k)

\* What a session has seen of an intent.
Offered(t, i) == Intent(i) \in DOMAIN seen[t] /\ seen[t][Intent(i)] = "active"

\* An accept reads the intents with its match locked.  Its view of them can be
\* old only if the match was shut already, and then it knows of a closed one.
ReadsFresh(t) ==
    LET m == Subject[t]
    IN  /\ holder[Match(m)] = t /\ ~Absent(m)
        /\ \A i \in IntentsOf(m) : Offered(t, i) => ~Closed(i) \/ Shut(m)
        /\ Shut(m) => \E j \in IntentsOf(m) : Closed(j) /\ ~Offered(t, j)
        /\ Intent(BuyIntent[m]) \in DOMAIN seen[t]
        /\ pc[t] = "lock_intents" => Intent(SellIntent[m]) \in DOMAIN seen[t]

\* Before, it has read none.
ReadsNone(t) ==
    \A i \in Intents : /\ Intent(i) \notin DOMAIN seen[t]
                       /\ \A n \in 1..Len(want[t]) : want[t][n] # Intent(i)

\* Only a stored match has a negotiation to accept.
HasItsMatch(t) ==
    LET m == Subject[t]
    IN  \/ ~Absent(m)
        \/ /\ pc[t] = "lock_nego"
           /\ \/ want[t] = << Nego(m) >> /\ seen[t] = Empty
              \/ Nego(m) \in DOMAIN seen[t] /\ seen[t][Nego(m)] = "none"

\* An offer sees its match as it is, because it reads it with the lock, or it
\* found none.
SeesItsMatch(t) ==
    LET r == Match(Subject[t])
    IN  \/ want[t] = << r >> /\ seen[t] = Empty
        \/ /\ want[t] = << >>
           /\ holder[r] = t
           /\ r \in DOMAIN seen[t] /\ seen[t][r] \in {row[r], "none"}

Fair(t) ==
    /\ Cascading(t) => WantsCompeting(t) /\ WritesAClosing(t)
    /\ pc[t] = "expire_matches" => ShutsAll(t)
    /\ ByApi(t) /\ pc[t] \in {"lock_nego", "lock_match"} => ReadsNone(t) /\ HasItsMatch(t)
    /\ ByApi(t) /\ pc[t] \in {"read_sell", "lock_intents"} => ReadsFresh(t)
    /\ pc[t] = "done" => want[t] = << >>
    /\ Handler[t] = "start_or_continue" /\ pc[t] = "lock_match" => SeesItsMatch(t)

SaleInv ==
    /\ Known
    /\ ShutHasClosed
    /\ NoDoubleSale
    /\ \A t \in Txns : Fair(t)

-----------------------------------------------------------------------------

KeepsLocks(t) == \A u \in Txns \ {t}, r \in Rows : holder[r] = u => holder'[r] = u

\* What a step may do to the rows: those that others have locked stay, a shut
\* match stays shut, a closed intent stays closed, an intent is closed only
\* with the lock on every match that is stored and still open on it, and a
\* match is stored only while nobody else has one of its intents.
Gentle(t) ==
    /\ \A k \in Matches : holder[Match(k)] \in Txns \ {t} =>
          Absent(k) \/ row'[Match(k)] = row[Match(k)]
    /\ \A k \in Matches : ~Absent(k) => ~Absent(k)'
    /\ \A k \in Matches : Absent(k) /\ ~Absent(k)' =>
          \A i \in IntentsOf(k) : holder[Intent(i)] \in {NoTxn, t}
    /\ \A i \in Intents : holder[Intent(i)] \in Txns \ {t} => row'[Intent(i)] = row[Intent(i)]
    /\ \A k \in Matches : Shut(k) => Shut(k)'
    /\ \A i \in Intents : Closed(i) => Closed(i)'
    /\ \A k \in Matches : \A i \in IntentsOf(k) :
          Closed(i)' => Closed(i) \/ holder[Match(k)] = t \/ Shut(k) \/ Absent(k)

LEMMA ServeMoves ==
  ASSUME LocksInv, NEW t \in Txns, Serve(t)
  PROVE  Moves(t) /\ KeepsLocks(t)
<1>1. Tables /\ NoTxn \notin Txns
  BY RequestAssumption DEF LocksInv
<1>2. ASSUME NEW s, Goto(t, s)
      PROVE  \A u \in Txns \ {t} : pc'[u] = pc[u]
  BY <1>1, <1>2 DEF Goto, Tables
<1>3. ASSUME NEW q, LockNext(t, q)
      PROVE  \A u \in Txns \ {t} : want'[u] = want[u]
  BY <1>1, <1>3 DEF LockNext, Tables
<1>4. ASSUME NEW r, Get(t, r)
      PROVE  \A u \in Txns \ {t} : seen'[u] = seen[u]
  BY <1>1, <1>4 DEF Get, Tables, IsTable
<1>5. ASSUME NEW d, Write(t, d)
      PROVE  \A u \in Txns \ {t} : dirty'[u] = dirty[u]
  BY <1>1, <1>5 DEF Write, Tables, IsTable
<1>6. ASSUME NEW s, Release(t), Goto(t, s)
      PROVE  Moves(t) /\ KeepsLocks(t)
  <2>1. \A r \in Rows : holder'[r] = IF holder[r] = t THEN NoTxn ELSE holder[r]
    BY <1>6 DEF Release
  <2>2. KeepsLocks(t)
    BY <2>1 DEF KeepsLocks
  <2>3. Moves(t)
    BY <1>1, <1>2, <1>6 DEF Release, Moves, Tables, IsTable
  <2> QED
    BY <2>2, <2>3
<1>7. ASSUME Refuse(t) PROVE Moves(t) /\ KeepsLocks(t)
  BY <1>2, <1>6, <1>7 DEF Refuse, Rollback, Moves, KeepsLocks
<1>8. ASSUME NEW d, NEW s, CommitAndGoto(t, d, s) PROVE Moves(t) /\ KeepsLocks(t)
  BY <1>6, <1>8 DEF CommitAndGoto
<1>9. CASE Acquire(t)
  BY <1>1, <1>9 DEF Acquire, Moves, KeepsLocks, Tables, IsTable
<1>10. CASE Preload(t)
  BY <1>2, <1>3, <1>4, <1>10 DEF Preload, Moves, KeepsLocks
<1>11. CASE CheckNegotiation(t)
  BY <1>2, <1>3, <1>7, <1>11 DEF CheckNegotiation, Moves, KeepsLocks
<1>12. CASE ReadParties(t)
  BY <1>2, <1>3, <1>4, <1>12 DEF ReadParties, Moves, KeepsLocks
<1>13. CASE CheckIntents(t)
  BY <1>2, <1>3, <1>5, <1>7, <1>13 DEF CheckIntents, Moves, KeepsLocks
<1>14. CASE Offer(t)
  BY <1>2, <1>3, <1>7, <1>8, <1>14 DEF Offer, CommitWith, Moves, KeepsLocks
<1>15. CASE CounterOffer(t)
  BY <1>7, <1>8, <1>15 DEF CounterOffer, CommitWith
<1>16. CASE CancelIntent(t)
  BY <1>2, <1>3, <1>5, <1>7, <1>16 DEF CancelIntent, Moves, KeepsLocks
<1>17. CASE UpdateIntent(t)
  BY <1>7, <1>8, <1>17 DEF UpdateIntent
<1>18. CASE Shortlist(t)
  BY <1>1, <1>2, <1>18 DEF Shortlist, Moves, KeepsLocks, Tables, IsTable
<1>19. CASE UpsertMatch(t)
  BY <1>8, <1>19 DEF UpsertMatch, CommitWith
<1>20. CASE ExpireMatches(t)
  BY <1>2, <1>3, <1>20 DEF ExpireMatches, Moves, KeepsLocks
<1>21. CASE Commit(t)
  BY <1>8, <1>21 DEF Commit, CommitWith
<1>22. CASE EndTick(t) \/ DeadlockVictim(t)
  BY <1>6, <1>22 DEF EndTick, DeadlockVictim, Rollback
<1> QED
  BY <1>9, <1>10, <1>11, <1>12, <1>13, <1>14, <1>15, <1>16, <1>17, <1>18, <1>19, <1>20,
     <1>21, <1>22 DEF Serve

LEMMA OthersStayFair ==
  ASSUME LocksInv, SaleInv, NEW t \in Txns, Moves(t), KeepsLocks(t), Gentle(t),
         NEW u \in Txns, u # t
  PROVE  Fair(u)'
<1>1. /\ pc'[u] = pc[u] /\ want'[u] = want[u] /\ seen'[u] = seen[u] /\ dirty'[u] = dirty[u]
      /\ Fair(u) /\ Own(u)
  BY DEF Moves, SaleInv, LocksInv
<1>2. \A r \in Rows : holder[r] = u => holder'[r] = u
  BY DEF KeepsLocks
<1>3. \A r \in Rows : Claims(u, r) => Claims(u, r)'
  BY <1>1, <1>2 DEF Claims
<1>4. \A i \in Intents : Closed(i) => Closed(i)'
  BY DEF Gentle
<1>5. ASSUME Cascading(u) PROVE WantsCompeting(u)' /\ WritesAClosing(u)'
  <2>1. WantsCompeting(u) /\ WritesAClosing(u)
    BY <1>1, <1>5 DEF Fair
  <2>2. \A i \in Intents : Intent(i) \in DOMAIN dirty[u] /\ ~Closed(i) => ~Closed(i)'
    BY <1>1 DEF Own, WritesAreLocked, Gentle, Closed
  <2>3. \A i \in Closing(u) : i \in Intents
    BY SubjectsAreTyped DEF Closing, IntentsOf
  <2>4. WantsCompeting(u)'
    BY <1>1, <2>1 DEF WantsCompeting
  <2>5. WritesAClosing(u)'
    <3>1. \A k \in Matches : ~Absent(k) => ~Absent(k)'
      BY DEF Gentle
    <3> QED
      BY <1>1, <2>1, <2>2, <2>3, <3>1 DEF WritesAClosing, AgreesOn
  <2> QED
    BY <2>4, <2>5
<1>6. ASSUME pc[u] = "expire_matches" PROVE ShutsAll(u)'
  <2> SUFFICES ASSUME NEW k \in Matches, Touches(u, k)
               PROVE  Claims(u, Match(k))' \/ Shut(k)' \/ Absent(k)'
    BY DEF ShutsAll, Touches
  <2>1. Claims(u, Match(k)) \/ Shut(k) \/ Absent(k)
    BY <1>1, <1>6 DEF Fair, ShutsAll
  <2>2. CASE Absent(k)
    <3>1. PICK i \in IntentsOf(k) : i \in Closing(u)
      BY DEF Touches
    <3>2. Intent(i) \in DOMAIN dirty[u]
      BY <1>1, <1>6, <3>1 DEF Fair, Cascading, WritesAClosing
    <3>3. holder[Intent(i)] = u /\ u # NoTxn
      BY <1>1, <3>2, RequestAssumption DEF Own, WritesAreLocked
    <3> QED
      BY <2>2, <3>1, <3>3 DEF Gentle
  <2> QED
    BY <1>3, <2>1, <2>2, RowKinds DEF Gentle
<1>7. ASSUME ByApi(u), pc[u] \in {"lock_nego", "lock_match"}
      PROVE  ReadsNone(u)' /\ HasItsMatch(u)'
  <2>1. ReadsNone(u) /\ HasItsMatch(u) /\ Subject[u] \in Matches
    BY <1>1, <1>7, AcceptTarget DEF Fair, ByApi, IsAccept
  <2>2. HasItsMatch(u)'
    BY <1>1, <2>1 DEF HasItsMatch, Gentle
  <2> QED
    BY <1>1, <2>1, <2>2 DEF ReadsNone
<1>8. ASSUME ByApi(u), pc[u] \in {"read_sell", "lock_intents"} PROVE ReadsFresh(u)'
  <2> DEFINE m == Subject[u]
  <2>1. ReadsFresh(u)
    BY <1>1, <1>8 DEF Fair
  <2>2. m \in Matches /\ Match(m) \in Rows /\ IntentsOf(m) \subseteq Intents
    BY <1>8, AcceptTarget DEF ByApi, IsAccept
  <2>3. holder[Match(m)] = u /\ holder'[Match(m)] = u /\ ~Absent(m) /\ ~Absent(m)'
    BY <1>2, <2>1, <2>2 DEF ReadsFresh, Gentle
  <2>4. Shut(m)' <=> Shut(m)
    BY <2>2, <2>3 DEF Gentle, Shut
  <2>5. \A i \in IntentsOf(m) : Closed(i)' => Closed(i) \/ Shut(m)
    BY <2>2, <2>3 DEF Gentle
  <2>6. \A i \in IntentsOf(m) : Offered(u, i)' <=> Offered(u, i)
    BY <1>1 DEF Offered
  <2>7. \A i \in IntentsOf(m) : Offered(u, i)' => ~Closed(i)' \/ Shut(m)'
    BY <2>1, <2>4, <2>5, <2>6 DEF ReadsFresh
  <2>8. Shut(m)' => \E j \in IntentsOf(m) : Closed(j)' /\ ~Offered(u, j)'
    BY <1>4, <2>1, <2>2, <2>4, <2>6 DEF ReadsFresh
  <2> QED
    BY <1>1, <2>1, <2>3, <2>7, <2>8 DEF ReadsFresh
<1>9. ASSUME Handler[u] = "start_or_continue", pc[u] = "lock_match" PROVE SeesItsMatch(u)'
  <2>1. SeesItsMatch(u) /\ Subject[u] \in Matches /\ Match(Subject[u]) \in Rows
    BY <1>1, <1>9, SubjectsAreTyped, RowKinds DEF Fair, IsIntentRequest
  <2>2. CASE want[u] = << Match(Subject[u]) >> /\ seen[u] = Empty
    BY <1>1, <2>2 DEF SeesItsMatch
  <2>3. CASE ~(want[u] = << Match(Subject[u]) >> /\ seen[u] = Empty)
    <3>1. holder[Match(Subject[u])] = u
      BY <2>1, <2>3 DEF SeesItsMatch
    <3>2. Absent(Subject[u]) \/ row'[Match(Subject[u])] = row[Match(Subject[u])]
      BY <2>1, <3>1 DEF Gentle
    <3> QED
      BY <1>1, <1>2, <2>1, <2>3, <3>1, <3>2 DEF SeesItsMatch, Absent
  <2> QED
    BY <2>2, <2>3
<1>10. pc[u] = "done" => want[u] = << >>
  BY <1>1 DEF Fair
<1> QED
  BY <1>1, <1>5, <1>6, <1>7, <1>8, <1>9, <1>10 DEF Fair, Cascading

LEMMA StepKeepsSale ==
  ASSUME LocksInv, SaleInv, NEW t \in Txns, Serve(t), Gentle(t), Fair(t)',
         Known', ShutHasClosed', NoDoubleSale'
  PROVE  SaleInv'
  BY ServeMoves, OthersStayFair DEF SaleInv

\* A request that is done takes no step.
LEMMA ToolAcceptsStay ==
  ASSUME LocksInv, SaleInv, NEW t \in Txns, Serve(t), NEW m, AcceptedByTool(m)
  PROVE  AcceptedByTool(m)'
<1>1. \A u \in Txns \ {t} : pc'[u] = pc[u]
  BY ServeMoves DEF Moves
<1>2. pc[t] # "done"
  <2>1. pc[t] = "done" => want[t] = << >>
    BY DEF SaleInv, Fair
  <2> QED
    BY <2>1 DEF Serve, Acquire, Preload, CheckNegotiation, ReadParties, CheckIntents, Offer,
                CounterOffer, CancelIntent, UpdateIntent, Shortlist, UpsertMatch,
                ExpireMatches, Commit, EndTick, DeadlockVictim, Waiting, At
<1> QED
  BY <1>1, <1>2 DEF AcceptedByTool

\* A step that commits nothing.
LEMMA ReadKeepsSale ==
  ASSUME LocksInv, SaleInv, NEW t \in Txns, Serve(t), row' = row, Fair(t)'
  PROVE  SaleInv'
<1>1. Gentle(t)
  BY DEF Gentle, Shut, Closed, Absent
<1>2. Known' /\ ShutHasClosed'
  BY DEF SaleInv, Known, ShutHasClosed, Shut, Closed, Absent
<1>3. NoDoubleSale'
  BY ToolAcceptsStay DEF SaleInv, NoDoubleSale
<1> QED
  BY <1>1, <1>2, <1>3, StepKeepsSale

LEMMA QuietIsFair ==
  ASSUME NEW t \in Txns, pc'[t] \in Quiet, pc'[t] = "done" => want'[t] = << >>
  PROVE  Fair(t)'
  BY DEF Fair, Cascading, Quiet

LEMMA RollbackKeepsSale ==
  ASSUME LocksInv, SaleInv, NEW t \in Txns, Serve(t), NEW why \in Quiet, Rollback(t, why)
  PROVE  SaleInv'
<1>1. row' = row /\ pc'[t] = why /\ want'[t] = << >>
  BY DEF Rollback, Release, Goto, LocksInv, Tables
<1> QED
  BY <1>1, QuietIsFair, ReadKeepsSale

LEMMA RefuseKeepsSale ==
  ASSUME LocksInv, SaleInv, NEW t \in Txns, Serve(t), Refuse(t)
  PROVE  SaleInv'
<1>1. CASE Rollback(t, "refused")
  <2>1. "refused" \in Quiet
    BY DEF Quiet, Step, Ended
  <2> QED
    BY <1>1, <2>1, RollbackKeepsSale
<1>2. CASE Goto(t, "lingering") /\ UNCHANGED << row, holder, want, seen, dirty >>
  <2>1. pc'[t] = "lingering" /\ row' = row
    BY <1>2 DEF Goto, LocksInv, Tables
  <2>2. "lingering" \in Quiet
    BY DEF Quiet, Step
  <2> QED
    BY <2>1, <2>2, QuietIsFair, ReadKeepsSale
<1> QED
  BY <1>1, <1>2 DEF Refuse

-----------------------------------------------------------------------------
(***************************************************************************)
(* The statements of an accept and of the cascades.                        *)
(***************************************************************************)

\* Reading a row keeps what the session has seen of it, if anything.
LEMMA LoadOne ==
  ASSUME NEW t \in Txns, NEW r, seen'[t] = Load(seen[t], [x \in {r} |-> row[r]])
  PROVE  /\ DOMAIN seen'[t] = DOMAIN seen[t] \cup {r}
         /\ \A x \in DOMAIN seen[t] : seen'[t][x] = seen[t][x]
         /\ r \notin DOMAIN seen[t] => seen'[t][r] = row[r]
  BY DEF Load

\* A session that reads one more row, an intent or not, reads it fresh.
LEMMA ReadsOneMore ==
  ASSUME NEW t \in Txns, NEW r, seen'[t] = Load(seen[t], [x \in {r} |-> row[r]]),
         row' = row, NEW i, Offered(t, i)' # Offered(t, i)
  PROVE  Offered(t, i)' /\ ~Closed(i)
<1>1. /\ DOMAIN seen'[t] = DOMAIN seen[t] \cup {r}
      /\ \A x \in DOMAIN seen[t] : seen'[t][x] = seen[t][x]
      /\ r \notin DOMAIN seen[t] => seen'[t][r] = row[r]
  BY LoadOne
<1> QED
  BY <1>1 DEF Offered, Closed

LEMMA AcquireKeepsSale ==
  ASSUME LocksInv, SaleInv, NEW t \in Txns, Acquire(t)
  PROVE  SaleInv'
<1> DEFINE r == Head(want[t])
<1> DEFINE c == Cascade(t, r)
<1>1. Tables /\ Own(t) /\ Fair(t)
  BY DEF LocksInv, SaleInv
<1>2. want[t] \in Seq(Rows) /\ want[t] # << >> /\ r \in Rows
  BY <1>1 DEF Tables, Acquire
<1>3. /\ row' = row /\ pc' = pc
      /\ want'[t] = Tail(want[t])
      /\ seen'[t] = Load(seen[t], [x \in {r} |-> row[r]])
      /\ holder'[r] = t
      /\ \A x \in Rows : holder[x] = t => holder'[x] = t
  BY <1>1, <1>2 DEF Acquire, Tables, IsTable
<1>4. \/ dirty'[t] = dirty[t]
      \/ /\ c # Visible(t, r)
         /\ DOMAIN dirty'[t] = DOMAIN dirty[t] \cup {r}
         /\ dirty'[t][r] = c
         /\ \A x \in DOMAIN dirty[t] : x # r => dirty'[t][x] = dirty[t][x]
  <2>1. \/ dirty' = dirty
        \/ c # Visible(t, r) /\ dirty'[t] = Override(dirty[t], [x \in {r} |-> c])
    BY <1>1, <1>2 DEF Acquire, Tables, IsTable
  <2> QED
    BY <2>1 DEF Override, Load
<1>5. /\ 1 \in 1..Len(want[t]) /\ want[t][1] = r
      /\ \A n \in 1..Len(want'[t]) : n + 1 \in 1..Len(want[t]) /\ want'[t][n] = want[t][n + 1]
  BY <1>2, <1>3, HeadTailProperties
<1>6. ASSUME Cascading(t) PROVE WantsCompeting(t)' /\ WritesAClosing(t)'
  <2>1. WantsCompeting(t) /\ WritesAClosing(t)
    BY <1>1, <1>6 DEF Fair
  <2>2. WantsCompeting(t)'
    BY <1>3, <1>5, <2>1 DEF WantsCompeting
  <2> HIDE DEF r, c
  <2>5. \A i : (Closed(i)' <=> Closed(i)) /\ (Absent(i)' <=> Absent(i))
    BY <1>3 DEF Closed, Absent
  <2>3. CASE dirty'[t] = dirty[t]
    BY <2>1, <2>2, <2>3, <2>5 DEF WritesAClosing, AgreesOn
  <2>4. CASE dirty'[t] # dirty[t]
    <3>1. \A i \in Closing(t) : i \in Intents
      BY SubjectsAreTyped DEF Closing, IntentsOf
    <3>2. CASE pc[t] = "cancel_negos"
      <4>1. PICK k \in Competing(t) : r = Nego(k)
        BY <1>5, <2>1, <3>2 DEF WantsCompeting
      <4>2. c = "cancelled"
        BY <1>4, <2>4, <3>2, CascadeFacts DEF c
      <4>3. k \in Matches /\ k # Subject[t]
        BY DEF Competing
      <4>4. /\ DOMAIN dirty'[t] = DOMAIN dirty[t] \cup {Nego(k)}
            /\ dirty'[t][Nego(k)] = "cancelled"
            /\ \A x \in DOMAIN dirty[t] : x # Nego(k) => dirty'[t][x] = dirty[t][x]
        BY <1>4, <2>4, <4>1, <4>2
      <4>8. ~Absent(k)
        <5>1. Visible(t, r) = "active"
          BY <1>4, <2>4, <3>2, CascadeFacts DEF c
        <5>2. row[Nego(k)] = "active"
          BY <2>1, <4>1, <4>3, <5>1 DEF Visible, WritesAClosing
        <5> QED
          BY <4>3, <5>2 DEF SaleInv, Known
      <4>5. \A l \in Matches :
               /\ Nego(l) \in DOMAIN dirty'[t] =>
                     /\ dirty'[t][Nego(l)] \in {"agreed", "cancelled"}
                     /\ ~Absent(l) \/ (IsAccept(t) /\ l = Subject[t])
               /\ AgreesOn(dirty'[t], l) <=> IsAccept(t) /\ l = Subject[t]
        <5> TAKE l \in Matches
        <5>1. CASE l = k
          BY <4>3, <4>4, <4>8, <5>1 DEF AgreesOn, Absent
        <5>2. CASE l # k
          <6>1. Nego(l) # Nego(k)
            BY <4>3, <5>2, RowKinds
          <6>2. AgreesOn(dirty'[t], l) <=> AgreesOn(dirty[t], l)
            BY <4>4, <6>1 DEF AgreesOn
          <6> QED
            BY <2>1, <4>4, <6>1, <6>2 DEF WritesAClosing
        <5> QED
          BY <5>1, <5>2
      <4>6. \A l \in Matches : Match(l) \in DOMAIN dirty'[t] =>
               Match(l) \in DOMAIN dirty[t] /\ dirty'[t][Match(l)] = dirty[t][Match(l)]
        BY <4>4, RowKinds
      <4>7. \A i \in Intents : /\ Intent(i) \in DOMAIN dirty'[t] <=> Intent(i) \in DOMAIN dirty[t]
                               /\ Intent(i) \in DOMAIN dirty[t] =>
                                     dirty'[t][Intent(i)] = dirty[t][Intent(i)]
        BY <4>4, RowKinds
      <4> QED
        BY <2>1, <2>2, <2>5, <3>1, <4>5, <4>6, <4>7 DEF WritesAClosing, AgreesOn
    <3>3. CASE pc[t] = "expire_matches"
      <4>1. PICK k \in Competing(t) : r = Match(k)
        BY <1>5, <2>1, <3>3 DEF WantsCompeting
      <4>2. c = "expired"
        BY <1>4, <2>4, <3>3, CascadeFacts DEF c
      <4>3. k \in Matches /\ Touches(t, k)
        BY DEF Competing, Touches
      <4>4. /\ DOMAIN dirty'[t] = DOMAIN dirty[t] \cup {Match(k)}
            /\ dirty'[t][Match(k)] = "expired"
            /\ \A x \in DOMAIN dirty[t] : x # Match(k) => dirty'[t][x] = dirty[t][x]
        BY <1>4, <2>4, <4>1, <4>2
      <4>5. \A l \in Matches : /\ Nego(l) \in DOMAIN dirty'[t] <=> Nego(l) \in DOMAIN dirty[t]
                               /\ Nego(l) \in DOMAIN dirty[t] =>
                                     dirty'[t][Nego(l)] = dirty[t][Nego(l)]
        BY <4>4, RowKinds
      <4>8. ~Absent(k)
        <5>1. Visible(t, r) \in {"discovered", "negotiating"}
          BY <1>4, <2>4, <3>3, CascadeFacts DEF c
        <5>2. row[Match(k)] \in {"discovered", "negotiating"}
          BY <2>1, <4>1, <4>3, <5>1 DEF Visible, WritesAClosing
        <5> QED
          BY <5>2 DEF Absent
      <4>6. \A l \in Matches : Match(l) \in DOMAIN dirty'[t] =>
               /\ dirty'[t][Match(l)] \in {"agreed", "expired"} /\ Touches(t, l)
               /\ ~Absent(l) \/ (IsAccept(t) /\ l = Subject[t])
        <5> TAKE l \in Matches
        <5>1. CASE l = k
          BY <4>3, <4>4, <4>8, <5>1 DEF Absent, Touches
        <5>2. CASE l # k
          <6>1. Match(l) # Match(k)
            BY <4>3, <5>2, RowKinds
          <6> QED
            BY <2>1, <4>4, <6>1 DEF WritesAClosing
        <5> QED
          BY <5>1, <5>2
      <4>7. \A i \in Intents : /\ Intent(i) \in DOMAIN dirty'[t] <=> Intent(i) \in DOMAIN dirty[t]
                               /\ Intent(i) \in DOMAIN dirty[t] =>
                                     dirty'[t][Intent(i)] = dirty[t][Intent(i)]
        BY <4>4, RowKinds
      <4> QED
        BY <2>1, <2>2, <2>5, <3>1, <4>5, <4>6, <4>7 DEF WritesAClosing, AgreesOn
    <3> QED
      BY <1>6, <3>2, <3>3 DEF Cascading
  <2> QED
    BY <2>2, <2>3, <2>4
<1>7. ASSUME pc[t] = "expire_matches" PROVE ShutsAll(t)'
  <2>1. \A x \in Rows : Claims(t, x) => Claims(t, x)'
    BY ClaimsProgress
  <2> QED
    BY <1>1, <1>3, <1>7, <2>1, RowKinds DEF Fair, ShutsAll, Shut, Absent
<1>8. ASSUME ByApi(t), pc[t] \in {"lock_nego", "lock_match"} PROVE ReadsNone(t)'
  <2>1. ReadsNone(t)
    BY <1>1, <1>8 DEF Fair
  <2>2. \A i \in Intents : r # Intent(i)
    BY <1>5, <2>1 DEF ReadsNone
  <2>3. DOMAIN seen'[t] = DOMAIN seen[t] \cup {r}
    BY <1>3, LoadOne
  <2> QED
    BY <1>5, <2>1, <2>2, <2>3 DEF ReadsNone
<1>12. ASSUME ByApi(t), pc[t] \in {"lock_nego", "lock_match"} PROVE HasItsMatch(t)'
  <2> DEFINE m == Subject[t]
  <2>1. HasItsMatch(t) /\ m \in Matches
    BY <1>1, <1>12, AcceptTarget DEF Fair, ByApi, IsAccept
  <2>2. CASE ~Absent(m)
    BY <1>3, <2>2 DEF HasItsMatch, Absent
  <2>3. CASE Absent(m) /\ want[t] = << Nego(m) >> /\ seen[t] = Empty
    <3>1. r = Nego(m) /\ row[Nego(m)] = "none"
      BY <2>1, <2>3 DEF SaleInv, Known
    <3>2. r \notin DOMAIN seen[t]
      BY <2>3, NothingIsEmpty
    <3> HIDE DEF r
    <3>3. r \in DOMAIN seen'[t] /\ seen'[t][r] = "none"
      BY <1>3, <3>1, <3>2, LoadOne
    <3> QED
      BY <1>3, <2>1, <2>3, <3>1, <3>3 DEF HasItsMatch
  <2>4. CASE Absent(m) /\ Nego(m) \in DOMAIN seen[t] /\ seen[t][Nego(m)] = "none"
    <3>1. Nego(m) \in DOMAIN seen'[t] /\ seen'[t][Nego(m)] = "none"
      BY <1>3, <2>4, LoadOne
    <3> QED
      BY <1>3, <2>1, <2>4, <3>1 DEF HasItsMatch
  <2> QED
    BY <2>1, <2>2, <2>3, <2>4 DEF HasItsMatch
<1>9. ASSUME ByApi(t), pc[t] \in {"read_sell", "lock_intents"} PROVE ReadsFresh(t)'
  <2>1. ReadsFresh(t)
    BY <1>1, <1>9 DEF Fair
  <2>2. Match(Subject[t]) \in Rows
    BY <1>9, AcceptTarget DEF ByApi, IsAccept
  <2>3. DOMAIN seen[t] \subseteq DOMAIN seen'[t]
    BY <1>3, LoadOne
  <2>4. \A i : Offered(t, i)' # Offered(t, i) => Offered(t, i)' /\ ~Closed(i)
    BY <1>3, ReadsOneMore
  <2>5. \A i : Closed(i)' <=> Closed(i)
    BY <1>3 DEF Closed
  <2>6. (Shut(Subject[t])' <=> Shut(Subject[t])) /\ (Absent(Subject[t])' <=> Absent(Subject[t]))
    BY <1>3 DEF Shut, Absent
  <2> QED
    BY <1>3, <2>1, <2>2, <2>3, <2>4, <2>5, <2>6 DEF ReadsFresh
<1>10. ASSUME Handler[t] = "start_or_continue", pc[t] = "lock_match" PROVE SeesItsMatch(t)'
  <2>1. want[t] = << Match(Subject[t]) >> /\ seen[t] = Empty
    BY <1>1, <1>2, <1>10 DEF Fair, SeesItsMatch
  <2>2. r = Match(Subject[t]) /\ want'[t] = << >>
    BY <1>3, <2>1
  <2>3. r \notin DOMAIN seen[t]
    BY <2>1, NothingIsEmpty
  <2> HIDE DEF r
  <2>4. r \in DOMAIN seen'[t] /\ seen'[t][r] = row[r]
    BY <1>3, <2>3, LoadOne
  <2> QED
    BY <1>3, <2>2, <2>4 DEF SeesItsMatch, r
<1>13. pc[t] # "done"
  BY <1>1, <1>2 DEF Fair
<1>11. Fair(t)'
  BY <1>3, <1>6, <1>7, <1>8, <1>9, <1>10, <1>12, <1>13 DEF Fair, Cascading
<1> QED
  BY <1>3, <1>11, ReadKeepsSale DEF Serve

\* A cascade locks every row it selects, and no other.
LEMMA SelectedIsAll ==
  ASSUME NEW t \in Txns, NEW rows, NEW wanted, NEW q \in Selected(t, rows, wanted),
         IsFiniteSet(rows)
  PROVE  /\ \A n \in 1..Len(q) : q[n] \in rows
         /\ \A r \in rows : Visible(t, r) \in wanted => \E n \in 1..Len(q) : q[n] = r
<1> DEFINE S == {r \in rows : Visible(t, r) \in wanted}
<1> DEFINE D == 1..Cardinality(S)
<1>1. IsFiniteSet(S) /\ Cardinality(S) \in Nat
  BY FS_Subset, FS_CardinalityType
<1>2. q \in [D -> S] /\ \A i, j \in D : i # j => q[i] # q[j]
  BY DEF Selected, SetToSeqs
<1>3. IsFiniteSet(D) /\ Cardinality(D) = Cardinality(S)
  <2> HIDE DEF S
  <2> QED
    BY <1>1, FS_Interval
<1>4. Len(q) = Cardinality(S)
  <2> HIDE DEF S
  <2> QED
    BY <1>1, <1>2
<1>5. q \in Surjection(D, S)
  <2> HIDE DEF S, D
  <2>1. q \in Injection(D, S)
    BY <1>2 DEF Injection, IsInjective
  <2> QED
    BY <1>1, <1>3, <2>1, FS_Injection
<1>6. \A r \in S : \E n \in D : q[n] = r
  BY <1>5 DEF Surjection
<1> QED
  BY <1>2, <1>4, <1>6

LEMMA CheckNegotiationKeepsSale ==
  ASSUME LocksInv, SaleInv, NEW t \in Txns, CheckNegotiation(t)
  PROVE  SaleInv'
<1>1. Serve(t) /\ IsAccept(t) /\ pc[t] = "lock_nego" /\ Tables /\ Fair(t)
  BY DEF Serve, CheckNegotiation, At, LocksInv, SaleInv
<1>2. CASE Refuse(t)
  BY <1>1, <1>2, RefuseKeepsSale
<1>3. CASE /\ seen[t][Nego(Subject[t])] = "active"
           /\ LockNext(t, << Match(Subject[t]) >>)
           /\ Goto(t, "lock_match")
           /\ UNCHANGED << row, holder, seen, dirty >>
  <2>1. pc'[t] = "lock_match" /\ want'[t] = << Match(Subject[t]) >>
    BY <1>1, <1>3 DEF Goto, LockNext, Tables
  <2> SUFFICES ASSUME ByApi(t) PROVE SaleInv'
    <3>1. CASE ~ByApi(t)
      <4>1. Fair(t)'
        BY <1>1, <2>1, <3>1 DEF Fair, Cascading, IsAccept
      <4> QED
        BY <1>1, <1>3, <4>1, ReadKeepsSale
    <3> QED
      BY <3>1
  <2>2. ReadsNone(t) /\ HasItsMatch(t) /\ want[t] = << >>
    BY <1>1 DEF Fair, CheckNegotiation, At
  <2>6. HasItsMatch(t)'
    BY <1>3, <2>2 DEF HasItsMatch, Absent
  <2>3. \A n \in 1..Len(want'[t]) : want'[t][n] = Match(Subject[t])
    BY <2>1
  <2>4. ReadsNone(t)'
    BY <1>3, <2>2, <2>3, RowKinds DEF ReadsNone
  <2>5. Fair(t)'
    BY <1>1, <2>1, <2>4, <2>6 DEF Fair, Cascading, IsAccept
  <2> QED
    BY <1>1, <1>3, <2>5, ReadKeepsSale
<1> QED
  BY <1>2, <1>3 DEF CheckNegotiation

LEMMA ReadPartiesKeepsSale ==
  ASSUME LocksInv, SaleInv, NEW t \in Txns, ReadParties(t)
  PROVE  SaleInv'
<1> DEFINE m == Subject[t]
<1>1. /\ Serve(t) /\ IsAccept(t) /\ want[t] = << >> /\ pc[t] \in {"lock_match", "read_sell"}
      /\ UNCHANGED << row, holder, dirty >>
      /\ Tables /\ Own(t) /\ Fair(t)
  BY DEF Serve, ReadParties, At, LocksInv, SaleInv
<1>2. m \in Matches /\ IntentsOf(m) \subseteq Intents
  BY <1>1, AcceptTarget
<1>3. /\ \A i : Closed(i)' <=> Closed(i)
      /\ Shut(m)' <=> Shut(m)
      /\ Absent(m)' <=> Absent(m)
  BY <1>1 DEF Closed, Shut, Absent
<1>6. ASSUME ~ByApi(t) PROVE SaleInv'
  <2>1. pc'[t] \in {"read_sell", "lock_intents"}
    BY <1>1 DEF ReadParties, Goto, Tables
  <2>2. Fair(t)'
    BY <1>1, <1>6, <2>1 DEF Fair, Cascading, IsAccept
  <2> QED
    BY <1>1, <2>2, ReadKeepsSale
<1> SUFFICES ASSUME ByApi(t) PROVE SaleInv'
  BY <1>6
<1>4. CASE /\ pc[t] = "lock_match"
           /\ Get(t, Intent(BuyIntent[m])) /\ Goto(t, "read_sell") /\ UNCHANGED want
  <2>1. /\ pc'[t] = "read_sell"
        /\ seen'[t] = Load(seen[t], [x \in {Intent(BuyIntent[m])} |-> row[Intent(BuyIntent[m])]])
    BY <1>1, <1>4 DEF Get, Goto, Tables, IsTable
  <2>2. \A i \in Intents : Intent(i) \notin DOMAIN seen[t]
    BY <1>1, <1>4 DEF Fair, ReadsNone
  <2>3. Intent(BuyIntent[m]) \in DOMAIN seen'[t]
    BY <2>1, LoadOne
  <2>4. \A i \in IntentsOf(m) : Offered(t, i)' => ~Closed(i)
    <3>1. \A i \in IntentsOf(m) : ~Offered(t, i)
      BY <1>2, <2>2 DEF Offered
    <3> QED
      BY <1>1, <2>1, <3>1, ReadsOneMore
  <2>5. Shut(m) => \E j \in IntentsOf(m) : Closed(j) /\ ~Offered(t, j)'
    BY <1>2, <2>4 DEF SaleInv, ShutHasClosed
  <2>6. holder'[Match(m)] = t
    BY <1>1, <1>4, ClaimsAreHeld DEF Own, AcceptClaims
  <2>9. ~Absent(m)
    BY <1>1, <1>4 DEF Fair, HasItsMatch
  <2>7. ReadsFresh(t)'
    BY <1>3, <2>1, <2>3, <2>4, <2>5, <2>6, <2>9 DEF ReadsFresh
  <2>8. Fair(t)'
    BY <1>1, <2>1, <2>7 DEF Fair, Cascading, IsAccept
  <2> QED
    BY <1>1, <2>8, ReadKeepsSale
<1>5. CASE /\ pc[t] = "read_sell"
           /\ Get(t, Intent(SellIntent[m])) /\ LockNext(t, SortedIntents(m))
           /\ Goto(t, "lock_intents")
  <2>1. /\ pc'[t] = "lock_intents"
        /\ seen'[t] = Load(seen[t], [x \in {Intent(SellIntent[m])} |-> row[Intent(SellIntent[m])]])
    BY <1>1, <1>5 DEF Get, Goto, Tables, IsTable
  <2>2. ReadsFresh(t)
    BY <1>1, <1>5 DEF Fair
  <2>3. Intent(SellIntent[m]) \in DOMAIN seen'[t] /\ DOMAIN seen[t] \subseteq DOMAIN seen'[t]
    BY <2>1, LoadOne
  <2>4. \A i : Offered(t, i)' # Offered(t, i) => Offered(t, i)' /\ ~Closed(i)
    BY <1>1, <2>1, ReadsOneMore
  <2>5. ReadsFresh(t)'
    BY <1>1, <1>3, <2>1, <2>2, <2>3, <2>4 DEF ReadsFresh
  <2>6. Fair(t)'
    BY <1>1, <2>1, <2>5 DEF Fair, Cascading, IsAccept
  <2> QED
    BY <1>1, <2>6, ReadKeepsSale
<1> QED
  BY <1>1, <1>4, <1>5 DEF ReadParties, At

\* A user's accept that sees both intents on offer is right about them.
LEMMA AcceptSeesOffers ==
  ASSUME SaleInv, NEW t \in Txns, ByApi(t), pc[t] = "lock_intents",
         OnOffer(t, {Intent(i) : i \in IntentsOf(Subject[t])})
  PROVE  \A i \in IntentsOf(Subject[t]) : ~Closed(i)
<1> DEFINE m == Subject[t]
<1>1. ReadsFresh(t)
  BY DEF SaleInv, Fair
<1>2. \A i \in IntentsOf(m) : Intent(i) \in DOMAIN seen[t]
  BY <1>1 DEF ReadsFresh, IntentsOf
<1>3. \A i \in IntentsOf(m) : Offered(t, i)
  BY <1>2 DEF Offered, OnOffer
<1> QED
  BY <1>1, <1>3 DEF ReadsFresh

\* The start of a cascade: the writes of d close the intents of the request.
LEMMA ClosingKeepsSale ==
  ASSUME LocksInv, SaleInv, NEW t \in Txns, Serve(t), NEW d,
         NEW q \in Selected(t, {Nego(k) : k \in Competing(t)}, {"active"}),
         dirty[t] = Empty, Write(t, d), LockNext(t, q), Goto(t, "cancel_negos"),
         UNCHANGED << row, holder, seen >>,
         IsAccept(t) \/ Handler[t] = "cancel_intent",
         \A i \in Closing(t) :
            /\ Intent(i) \in DOMAIN d
            /\ d[Intent(i)] = IF IsAccept(t) THEN "matched" ELSE "cancelled"
            /\ ~Closed(i) \/ ByTool(t),
         \A i \in Intents : Intent(i) \in DOMAIN d => i \in Closing(t),
         \A k \in Matches : Match(k) \in DOMAIN d =>
            d[Match(k)] = "agreed" /\ Touches(t, k) /\ IsAccept(t) /\ k = Subject[t],
         \A k \in Matches :
            /\ Nego(k) \in DOMAIN d => d[Nego(k)] = "agreed"
            /\ AgreesOn(d, k) <=> IsAccept(t) /\ k = Subject[t]
  PROVE  SaleInv'
<1>1. Tables
  BY DEF LocksInv
<1>2. pc'[t] = "cancel_negos" /\ want'[t] = q /\ dirty'[t] = Override(Empty, d)
  BY <1>1 DEF Write, LockNext, Goto, Tables, IsTable
<1>3. DOMAIN dirty'[t] = DOMAIN d /\ \A r \in DOMAIN d : dirty'[t][r] = d[r]
  BY <1>2, NothingIsEmpty DEF Override, Load
<1>4. \A n \in 1..Len(q) : q[n] \in {Nego(k) : k \in Competing(t)}
  BY CompetingRows, SelectedIsAll
<1>5. WantsCompeting(t)'
  BY <1>2, <1>4 DEF WantsCompeting
<1>6. \A i : Closed(i)' <=> Closed(i)
  BY DEF Closed
<1>7. WritesAClosing(t)'
  <2>1. \A i \in Closing(t) : i \in Intents
    BY SubjectsAreTyped DEF Closing, IntentsOf
  <2>2. \A k \in Matches : Nego(k) \in DOMAIN d => IsAccept(t) /\ k = Subject[t]
    BY DEF AgreesOn
  <2> QED
    BY <1>3, <1>6, <2>1, <2>2 DEF WritesAClosing, AgreesOn
<1>8. Fair(t)'
  BY <1>2, <1>5, <1>7 DEF Fair
<1> QED
  BY <1>8, ReadKeepsSale

LEMMA CheckIntentsKeepsSale ==
  ASSUME LocksInv, SaleInv, NEW t \in Txns, CheckIntents(t)
  PROVE  SaleInv'
<1> DEFINE m == Subject[t]
<1> DEFINE d == [r \in Taken(m) \cup {Nego(m), Match(m)} |->
                    IF r \in Taken(m) THEN "matched" ELSE "agreed"]
<1>1. /\ Serve(t) /\ IsAccept(t) /\ pc[t] = "lock_intents" /\ Own(t)
  BY DEF Serve, CheckIntents, At, LocksInv
<1>2. CASE Refuse(t)
  BY <1>1, <1>2, RefuseKeepsSale
<1>3. CASE /\ OnOffer(t, {Intent(i) : i \in IntentsOf(m)})
           /\ Write(t, d)
           /\ \E q \in Selected(t, {Nego(k) : k \in Competing(t)}, {"active"}) : LockNext(t, q)
           /\ Goto(t, "cancel_negos")
           /\ UNCHANGED << row, holder, seen >>
  <2>1. PICK q \in Selected(t, {Nego(k) : k \in Competing(t)}, {"active"}) : LockNext(t, q)
    BY <1>3
  <2>2. /\ m \in Matches /\ IntentsOf(m) \subseteq Intents
        /\ Closing(t) = IntentsOf(m)
    BY <1>1, AcceptTarget DEF Closing
  <2>3. dirty[t] = Empty
    BY <1>1 DEF Own, CleanBeforeCascade
  <2>4. /\ DOMAIN d = Taken(m) \cup {Nego(m), Match(m)}
        /\ \A r \in Taken(m) : d[r] = "matched"
        /\ d[Nego(m)] = "agreed" /\ d[Match(m)] = "agreed"
    BY <2>2, RowKinds DEF Taken
  <2> HIDE DEF d
  <2>5. \A i \in IntentsOf(m) : ~Closed(i) \/ ByTool(t)
    BY <1>1, <1>3, AcceptSeesOffers DEF IsAccept, ByApi, ByTool
  <2>6. \A i \in IntentsOf(m) : Intent(i) \in DOMAIN d /\ d[Intent(i)] = "matched"
    BY <2>4 DEF Taken
  <2>7. \A i \in Intents : Intent(i) \in DOMAIN d => i \in IntentsOf(m)
    BY <2>4, RowKinds DEF Taken
  <2>8. \A k \in Matches : Match(k) \in DOMAIN d =>
           d[Match(k)] = "agreed" /\ Touches(t, k) /\ IsAccept(t) /\ k = m
    <3>1. Touches(t, m)
      BY <2>2 DEF Touches, IntentsOf
    <3>2. \A k \in Matches : Match(k) \in DOMAIN d => k = m
      BY <2>4, RowKinds DEF Taken
    <3> QED
      BY <1>1, <2>4, <3>1, <3>2
  <2>9. \A k \in Matches :
           /\ Nego(k) \in DOMAIN d => d[Nego(k)] = "agreed"
           /\ AgreesOn(d, k) <=> IsAccept(t) /\ k = m
    <3>1. \A k \in Matches : Nego(k) \in DOMAIN d => k = m
      BY <2>4, RowKinds DEF Taken
    <3> QED
      BY <1>1, <2>4, <3>1 DEF AgreesOn
  <2> QED
    BY <1>1, <1>3, <2>1, <2>2, <2>3, <2>5, <2>6, <2>7, <2>8, <2>9, ClosingKeepsSale
<1> QED
  BY <1>2, <1>3 DEF CheckIntents

LEMMA CancelIntentKeepsSale ==
  ASSUME LocksInv, SaleInv, NEW t \in Txns, CancelIntent(t)
  PROVE  SaleInv'
<1> DEFINE r == Intent(Subject[t])
<1> DEFINE d == [x \in {r} |-> "cancelled"]
<1>1. /\ Serve(t) /\ Handler[t] = "cancel_intent" /\ pc[t] = "lock_intents" /\ want[t] = << >>
      /\ Own(t)
  BY DEF Serve, CancelIntent, At, LocksInv
<1>2. CASE Refuse(t)
  BY <1>1, <1>2, RefuseKeepsSale
<1>3. CASE /\ OnOffer(t, {r})
           /\ Write(t, d)
           /\ \E q \in Selected(t, {Nego(k) : k \in Competing(t)}, {"active"}) : LockNext(t, q)
           /\ Goto(t, "cancel_negos")
           /\ UNCHANGED << row, holder, seen >>
  <2>1. PICK q \in Selected(t, {Nego(k) : k \in Competing(t)}, {"active"}) : LockNext(t, q)
    BY <1>3
  <2>2. /\ Subject[t] \in Intents /\ Closing(t) = {Subject[t]} /\ ~IsAccept(t)
    BY <1>1, SubjectsAreTyped DEF Closing, IsIntentRequest, IsAccept
  <2>3. dirty[t] = Empty
    BY <1>1 DEF Own, CleanBeforeCascade
  <2>4. ~Closed(Subject[t])
    BY <1>1, <1>3 DEF Own, SeesItsIntent, IsIntentRequest, OnOffer, Closed
  <2>5. DOMAIN d = {r} /\ d[r] = "cancelled"
    OBVIOUS
  <2> HIDE DEF d
  <2>6. /\ \A i \in Intents : Intent(i) \in DOMAIN d => i = Subject[t]
        /\ \A k \in Matches : Match(k) \notin DOMAIN d /\ Nego(k) \notin DOMAIN d
    BY <2>2, <2>5, RowKinds
  <2> QED
    BY <1>1, <1>3, <2>1, <2>2, <2>3, <2>4, <2>5, <2>6, ClosingKeepsSale
       DEF AgreesOn
<1> QED
  BY <1>2, <1>3 DEF CancelIntent

LEMMA ExpireMatchesKeepsSale ==
  ASSUME LocksInv, SaleInv, NEW t \in Txns, ExpireMatches(t)
  PROVE  SaleInv'
<1>1. /\ Serve(t) /\ pc[t] = "cancel_negos" /\ want[t] = << >>
      /\ UNCHANGED << row, holder, seen, dirty >>
      /\ Tables /\ Own(t) /\ WritesAClosing(t)
  BY DEF Serve, ExpireMatches, At, LocksInv, SaleInv, Fair, Cascading
<1>2. PICK q \in Selected(t, {Match(k) : k \in Competing(t)}, {"discovered", "negotiating"}) :
         LockNext(t, q)
  BY DEF ExpireMatches
<1>3. pc'[t] = "expire_matches" /\ want'[t] = q
  BY <1>1, <1>2 DEF ExpireMatches, Goto, LockNext, Tables
<1>4. /\ \A n \in 1..Len(q) : q[n] \in {Match(k) : k \in Competing(t)}
      /\ \A r \in {Match(k) : k \in Competing(t)} :
            Visible(t, r) \in {"discovered", "negotiating"} => \E n \in 1..Len(q) : q[n] = r
  <2> DEFINE rows == {Match(k) : k \in Competing(t)}
  <2>1. IsFiniteSet(rows)
    BY CompetingRows
  <2> HIDE DEF rows
  <2>2. q \in Selected(t, rows, {"discovered", "negotiating"})
    BY <1>2 DEF rows
  <2>3. /\ \A n \in 1..Len(q) : q[n] \in rows
        /\ \A r \in rows : Visible(t, r) \in {"discovered", "negotiating"} =>
              \E n \in 1..Len(q) : q[n] = r
    BY <2>1, <2>2, SelectedIsAll
  <2> QED
    BY <2>3 DEF rows
<1>5. WantsCompeting(t)'
  BY <1>3, <1>4 DEF WantsCompeting
<1>6. WritesAClosing(t)'
  BY <1>1 DEF WritesAClosing, Closed, Absent, AgreesOn
<1>7. \A r \in DOMAIN dirty[t] : holder[r] = t
  BY <1>1 DEF Own, WritesAreLocked
<1>8. ASSUME NEW k \in Matches, Touches(t, k)
      PROVE  Claims(t, Match(k))' \/ Shut(k)' \/ Absent(k)'
  <2>1. CASE Match(k) \in DOMAIN dirty[t]
    BY <1>1, <1>7, <2>1 DEF Claims
  <2>2. CASE Match(k) \notin DOMAIN dirty[t]
    <3>1. k # Subject[t]
      <4> SUFFICES ASSUME k = Subject[t] PROVE FALSE
        OBVIOUS
      <4>1. CASE IsAccept(t)
        BY <1>1, <2>2, <4>1 DEF WritesAClosing, AgreesOn, Own, WritesAreWhole
      <4>2. CASE Handler[t] = "cancel_intent"
        BY <4>2, SubjectsAreTyped, MatchesAssumption DEF IsIntentRequest
      <4> QED
        BY <1>1, <4>1, <4>2 DEF WritesAClosing
    <3>2. k \in Competing(t)
      BY <1>8, <3>1 DEF Competing, Touches
    <3>3. Visible(t, Match(k)) = row[Match(k)]
      BY <2>2 DEF Visible
    <3> QED
      BY <1>1, <1>3, <1>4, <3>2, <3>3 DEF Shut, Absent, Claims
  <2> QED
    BY <2>1, <2>2
<1>9. Fair(t)'
  BY <1>3, <1>5, <1>6, <1>8 DEF Fair, ShutsAll, Touches
<1> QED
  BY <1>1, <1>9, ReadKeepsSale

-----------------------------------------------------------------------------
(***************************************************************************)
(* The commits.                                                            *)
(***************************************************************************)

\* What a commit of e may say about matches, intents and agreements.
SellsOnce(t, e) ==
    /\ DOMAIN e \subseteq Rows
    /\ \A k \in Matches : Match(k) \in DOMAIN e =>
          /\ Absent(k) \/ holder[Match(k)] = t
          /\ Absent(k) => \A i \in IntentsOf(k) : holder[Intent(i)] \in {NoTxn, t}
          /\ e[Match(k)] # "none"
          /\ e[Match(k)] \in {"discovered", "negotiating"} => ~Shut(k)
          /\ e[Match(k)] \notin {"discovered", "negotiating"} =>
                \E j \in IntentsOf(k) : Intent(j) \in DOMAIN e
    /\ \A i \in Intents : Intent(i) \in DOMAIN e =>
          /\ holder[Intent(i)] = t
          /\ e[Intent(i)] # "active"
          /\ \A k \in Matches : i \in IntentsOf(k) =>
                holder[Match(k)] = t \/ Shut(k) \/ Absent(k)
    /\ \A k \in Matches : Nego(k) \in DOMAIN e => ~Absent(k) \/ Match(k) \in DOMAIN e
    /\ \A k, l \in Matches : AgreesOn(e, k) /\ AgreesOn(e, l) => k = l
    /\ \A k \in Matches : AgreesOn(e, k) =>
          (\A i \in IntentsOf(k) : ~Closed(i)) \/ (ByTool(t) /\ k = Subject[t])

LEMMA CommitKeepsSale ==
  ASSUME LocksInv, SaleInv, NEW t \in Txns, Serve(t), NEW d, NEW s \in Quiet,
         CommitAndGoto(t, d, s), SellsOnce(t, Override(dirty[t], d)),
         ByTool(t) => s = "done"
  PROVE  SaleInv'
<1> DEFINE e == Override(dirty[t], d)
<1>1. /\ row' = Override(row, e) /\ Goto(t, s) /\ Tables /\ AgreedTakesBoth
      /\ Known /\ ShutHasClosed /\ NoDoubleSale /\ t # NoTxn
  BY RequestAssumption DEF CommitAndGoto, LocksInv, SaleInv
<1>2. SellsOnce(t, e)
  OBVIOUS
<1> HIDE DEF e
<1>3. /\ \A r \in DOMAIN e : row'[r] = e[r]
      /\ \A r \in Rows \ DOMAIN e : row'[r] = row[r]
  BY <1>1, <1>2 DEF SellsOnce, Tables, Override, Load
<1>12. pc'[t] = s /\ want'[t] = << >>
  BY <1>1 DEF Goto, CommitAndGoto, Release, Tables
<1>4. Fair(t)'
  BY <1>12, QuietIsFair
<1>5. \A k \in Matches : IntentsOf(k) \subseteq Intents
  BY SubjectsAreTyped DEF IntentsOf
<1>6. \A i \in Intents : /\ Closed(i) => Closed(i)'
                         /\ Intent(i) \in DOMAIN e => Closed(i)'
                         /\ Closed(i)' => Closed(i) \/ Intent(i) \in DOMAIN e
  BY <1>2, <1>3, RowKinds DEF SellsOnce, Closed
<1>7. \A k \in Matches : Shut(k) => Shut(k)'
  BY <1>2, <1>3, RowKinds DEF SellsOnce, Shut
<1>8. Gentle(t)
  <2>1. \A k \in Matches : holder[Match(k)] \in Txns \ {t} =>
           Absent(k) \/ row'[Match(k)] = row[Match(k)]
    BY <1>2, <1>3, RowKinds DEF SellsOnce
  <2>4. /\ \A k \in Matches : ~Absent(k) => ~Absent(k)'
        /\ \A k \in Matches : Absent(k) /\ ~Absent(k)' =>
              \A i \in IntentsOf(k) : holder[Intent(i)] \in {NoTxn, t}
    BY <1>2, <1>3, RowKinds DEF SellsOnce, Absent
  <2>2. \A i \in Intents : holder[Intent(i)] \in Txns \ {t} => row'[Intent(i)] = row[Intent(i)]
    BY <1>2, <1>3, RowKinds DEF SellsOnce
  <2>3. \A k \in Matches : \A i \in IntentsOf(k) :
          Closed(i)' => Closed(i) \/ holder[Match(k)] = t \/ Shut(k) \/ Absent(k)
    BY <1>2, <1>5, <1>6 DEF SellsOnce
  <2> QED
    BY <1>6, <1>7, <2>1, <2>2, <2>3, <2>4 DEF Gentle
<1>9. Known'
  BY <1>1, <1>2, <1>3, RowKinds DEF SellsOnce, Known, Absent
<1>10. ShutHasClosed'
  <2> SUFFICES ASSUME NEW k \in Matches, Shut(k)' PROVE \E j \in IntentsOf(k) : Closed(j)'
    BY DEF ShutHasClosed
  <2>1. CASE Shut(k)
    BY <1>1, <1>5, <1>6, <2>1 DEF ShutHasClosed
  <2>2. CASE ~Shut(k)
    <3>1. Match(k) \in DOMAIN e /\ e[Match(k)] \notin {"discovered", "negotiating"}
      BY <1>3, <2>2, RowKinds DEF Shut
    <3> QED
      BY <1>2, <1>5, <1>6, <3>1 DEF SellsOnce
  <2> QED
    BY <2>1, <2>2
<1>11. NoDoubleSale'
  <2> SUFFICES ASSUME NEW k \in Matches, NEW l \in Matches, k # l,
                      NEW i \in IntentsOf(k) \cap IntentsOf(l),
                      row'[Nego(k)] = "agreed", row'[Nego(l)] = "agreed",
                      ~AcceptedByTool(k)', ~AcceptedByTool(l)'
               PROVE  FALSE
    BY DEF NoDoubleSale
  <2>1. \A x \in {k, l} : Nego(x) \notin DOMAIN e => row[Nego(x)] = "agreed" /\ Closed(i)
    BY <1>1, <1>3, RowKinds DEF AgreedTakesBoth, Closed
  <2>2. \A x \in {k, l} : Nego(x) \in DOMAIN e => AgreesOn(e, x) /\ ~Closed(i)
    <3> SUFFICES ASSUME NEW x \in {k, l}, Nego(x) \in DOMAIN e
                 PROVE  AgreesOn(e, x) /\ ~Closed(i)
      OBVIOUS
    <3>1. AgreesOn(e, x)
      BY <1>3 DEF AgreesOn
    <3>2. ~(ByTool(t) /\ x = Subject[t])
      BY <1>12 DEF AcceptedByTool, ByTool
    <3> QED
      BY <1>2, <3>1, <3>2 DEF SellsOnce
  <2>3. CASE Nego(k) \in DOMAIN e /\ Nego(l) \in DOMAIN e
    BY <1>2, <2>2, <2>3 DEF SellsOnce
  <2>4. CASE Nego(k) \notin DOMAIN e /\ Nego(l) \notin DOMAIN e
    BY <1>1, <2>1, <2>4, ToolAcceptsStay DEF NoDoubleSale
  <2> QED
    BY <2>1, <2>2, <2>3, <2>4
<1> QED
  BY <1>4, <1>8, <1>9, <1>10, <1>11, StepKeepsSale

\* What a request commits at its end, cascades included.
LEMMA CascadeSellsOnce ==
  ASSUME LocksInv, SaleInv, NEW t \in Txns, Commit(t)
  PROVE  SellsOnce(t, dirty[t])
<1> DEFINE e == dirty[t]
<1>1. /\ pc[t] = "expire_matches" /\ want[t] = << >>
      /\ WritesAClosing(t) /\ ShutsAll(t) /\ WritesAreLocked(t)
  BY DEF Commit, At, SaleInv, Fair, Cascading, LocksInv, Own
<1>2. DOMAIN e \subseteq Rows /\ \A r \in DOMAIN e : holder[r] = t
  BY <1>1 DEF WritesAreLocked
<1>3. ASSUME NEW k \in Matches, Match(k) \in DOMAIN e
      PROVE  /\ e[Match(k)] \in {"agreed", "expired"}
             /\ \E j \in IntentsOf(k) : Intent(j) \in DOMAIN e
             /\ Absent(k) => \A i \in IntentsOf(k) : holder[Intent(i)] = t
  <2>1. Absent(k) => \A i \in IntentsOf(k) : Intent(i) \in DOMAIN e
    BY <1>1, <1>3, AcceptTarget DEF WritesAClosing, Closing
  <2> QED
    BY <1>1, <1>2, <1>3, <2>1 DEF WritesAClosing, Touches
<1>7. ASSUME NEW k \in Matches, Nego(k) \in DOMAIN e
      PROVE  ~Absent(k) \/ Match(k) \in DOMAIN e
  BY <1>1, <1>7 DEF WritesAClosing, AgreesOn, Commit, LocksInv, Own, WritesAreWhole
<1>4. ASSUME NEW i \in Intents, Intent(i) \in DOMAIN e
      PROVE  /\ e[Intent(i)] # "active"
             /\ \A k \in Matches : i \in IntentsOf(k) =>
                   holder[Match(k)] = t \/ Shut(k) \/ Absent(k)
  <2>1. i \in Closing(t) /\ e[Intent(i)] \in {"matched", "cancelled"}
    BY <1>1, <1>4 DEF WritesAClosing
  <2>2. \A k \in Matches : i \in IntentsOf(k) => Touches(t, k)
    BY <2>1 DEF Touches
  <2> QED
    BY <1>1, <2>1, <2>2, ClaimsAreHeld DEF ShutsAll
<1>5. ASSUME NEW k \in Matches, Nego(k) \in DOMAIN e, e[Nego(k)] = "agreed"
      PROVE  k = Subject[t] /\ ((\A i \in IntentsOf(k) : ~Closed(i)) \/ ByTool(t))
  <2>1. k = Subject[t] /\ IsAccept(t)
    BY <1>1, <1>5 DEF WritesAClosing, AgreesOn
  <2>2. Closing(t) = IntentsOf(k)
    BY <2>1, AcceptTarget DEF Closing
  <2> QED
    BY <1>1, <2>1, <2>2 DEF WritesAClosing
<1> HIDE DEF e
<1>6. SellsOnce(t, e)
  BY <1>2, <1>3, <1>4, <1>5, <1>7 DEF SellsOnce, AgreesOn
<1> QED
  BY <1>6 DEF e

\* A commit that says nothing of matches, intents and agreements.
LEMMA AsideSellsOnce ==
  ASSUME NEW t, NEW e, DOMAIN e \subseteq Rows,
         \A k \in Matches : Match(k) \notin DOMAIN e,
         \A i \in Intents : Intent(i) \notin DOMAIN e,
         \A k \in Matches : Nego(k) \notin DOMAIN e
  PROVE  SellsOnce(t, e)
  BY DEF SellsOnce, AgreesOn

\* The writes of a session that had none.
LEMMA OwnWrites ==
  ASSUME NEW t, NEW d, dirty[t] = Empty
  PROVE  /\ DOMAIN Override(dirty[t], d) = DOMAIN d
         /\ \A r \in DOMAIN d : Override(dirty[t], d)[r] = d[r]
  BY NothingIsEmpty DEF Override, Load

LEMMA CleanSellsOnce ==
  ASSUME NEW t, NEW d, dirty[t] = Empty, SellsOnce(t, d)
  PROVE  SellsOnce(t, Override(dirty[t], d))
<1> DEFINE e == Override(dirty[t], d)
<1>1. DOMAIN e = DOMAIN d /\ \A r \in DOMAIN d : e[r] = d[r]
  BY OwnWrites
<1> HIDE DEF e
<1>2. SellsOnce(t, e)
  BY <1>1 DEF SellsOnce, AgreesOn
<1> QED
  BY <1>2 DEF e

LEMMA CommitStepKeepsSale ==
  ASSUME LocksInv, SaleInv, NEW t \in Txns, Commit(t)
  PROVE  SaleInv'
<1> DEFINE e == Override(dirty[t], Empty)
<1>1. DOMAIN e = DOMAIN dirty[t] /\ \A r \in DOMAIN dirty[t] : e[r] = dirty[t][r]
  BY NothingIsEmpty DEF Override, Load
<1>2. SellsOnce(t, dirty[t])
  BY CascadeSellsOnce
<1> HIDE DEF e
<1>3. SellsOnce(t, e)
  BY <1>1, <1>2 DEF SellsOnce, AgreesOn
<1>4. CommitAndGoto(t, Empty, "done") /\ "done" \in Quiet /\ Serve(t)
  BY DEF Commit, CommitWith, Quiet, Step, Ended, Serve
<1> QED
  BY <1>3, <1>4, CommitKeepsSale DEF e

LEMMA OfferKeepsSale ==
  ASSUME LocksInv, SaleInv, NEW t \in Txns, Offer(t)
  PROVE  SaleInv'
<1> DEFINE m == Subject[t]
<1> DEFINE d == [r \in {Nego(m), Match(m)} |-> IF r = Nego(m) THEN "active" ELSE "negotiating"]
<1>1. /\ Handler[t] = "start_or_continue" /\ pc[t] = "lock_match" /\ want[t] = << >>
      /\ Own(t) /\ Tables /\ SeesItsMatch(t) /\ Serve(t)
  BY DEF Offer, At, LocksInv, SaleInv, Fair, Serve
<1>2. /\ dirty[t] = Empty /\ m \in Matches /\ Nego(m) \in Rows /\ Match(m) \in Rows
      /\ ~IsAccept(t)
  BY <1>1, SubjectsAreTyped, RowKinds DEF Own, CleanBeforeCascade, IsIntentRequest, IsAccept
<1>3. holder[Match(m)] = t /\ seen[t][Match(m)] \in {row[Match(m)], "none"}
  BY <1>1 DEF SeesItsMatch
<1>4. CASE Refuse(t)
  BY <1>1, <1>4, RefuseKeepsSale
<1>5. CASE ~Refuse(t)
  <2>1. ~Shut(m) /\ ~Absent(m)
    BY <1>3, <1>5 DEF Offer, Shut, Absent
  <2>2. CASE CommitAndGoto(t, d, "done")
    <3>1. DOMAIN d = {Nego(m), Match(m)} /\ d[Nego(m)] = "active" /\ d[Match(m)] = "negotiating"
      BY RowKinds
    <3> HIDE DEF d
    <3>2. /\ \A k \in Matches : Match(k) \in DOMAIN d => k = m
          /\ \A k \in Matches : Nego(k) \in DOMAIN d => k = m
          /\ \A i \in Intents : Intent(i) \notin DOMAIN d
      BY <3>1, RowKinds
    <3>3. SellsOnce(t, d)
      BY <1>2, <1>3, <2>1, <3>1, <3>2 DEF SellsOnce, AgreesOn
    <3>4. "done" \in Quiet
      BY DEF Quiet, Step, Ended
    <3> QED
      BY <1>1, <1>2, <2>2, <3>3, <3>4, CleanSellsOnce, CommitKeepsSale
  <2>3. CASE Goto(t, "lock_nego") /\ row' = row
    <3>1. pc'[t] = "lock_nego"
      BY <1>1, <2>3 DEF Goto, Tables
    <3>2. Fair(t)'
      BY <1>1, <3>1 DEF Fair, Cascading, ByApi
    <3> QED
      BY <1>1, <2>3, <3>2, ReadKeepsSale
  <2> QED
    BY <1>5, <2>2, <2>3 DEF Offer, CommitWith
<1> QED
  BY <1>4, <1>5

LEMMA CounterOfferKeepsSale ==
  ASSUME LocksInv, SaleInv, NEW t \in Txns, CounterOffer(t)
  PROVE  SaleInv'
<1>1. pc[t] = "lock_nego" /\ dirty[t] = Empty /\ Serve(t)
  BY DEF CounterOffer, At, LocksInv, Own, CleanBeforeCascade, Serve
<1>2. CASE Refuse(t)
  BY <1>1, <1>2, RefuseKeepsSale
<1>3. CASE CommitAndGoto(t, Empty, "done")
  <2>1. "done" \in Quiet /\ SellsOnce(t, Empty)
    BY NothingIsEmpty, AsideSellsOnce DEF Quiet, Step, Ended
  <2> QED
    BY <1>1, <1>3, <2>1, CleanSellsOnce, CommitKeepsSale
<1> QED
  BY <1>2, <1>3 DEF CounterOffer, CommitWith

LEMMA UpdateIntentKeepsSale ==
  ASSUME LocksInv, SaleInv, NEW t \in Txns, UpdateIntent(t)
  PROVE  SaleInv'
<1>1. CASE Refuse(t)
  BY <1>1, RefuseKeepsSale DEF Serve
<1>2. CASE ~Refuse(t)
  <2> DEFINE d == [r \in {Price(Subject[t])} |-> "edited"]
  <2>1. /\ dirty[t] = Empty /\ Subject[t] \in Intents
        /\ CommitAndGoto(t, d, "shortlist") \/ CommitAndGoto(t, Empty, "shortlist")
    BY <1>2, EditFacts
  <2>2. DOMAIN d = {Price(Subject[t])}
    OBVIOUS
  <2> HIDE DEF d
  <2>3. SellsOnce(t, d) /\ SellsOnce(t, Empty)
    BY <2>1, <2>2, RowKinds, NothingIsEmpty, AsideSellsOnce
  <2>4. "shortlist" \in Quiet /\ Serve(t) /\ ~ByTool(t)
    BY DEF Quiet, Step, Serve, UpdateIntent, ByTool
  <2> QED
    BY <2>1, <2>3, <2>4, CleanSellsOnce, CommitKeepsSale
<1> QED
  BY <1>1, <1>2

LEMMA UpsertMatchKeepsSale ==
  ASSUME LocksInv, SaleInv, NEW t \in Txns, UpsertMatch(t)
  PROVE  SaleInv'
<1> DEFINE d == [r \in {Match(m) : m \in NewPairs(t)} |-> "discovered"]
<1>1. pc[t] = "insert" /\ Own(t) /\ ColumnsAreTyped /\ Known /\ Serve(t)
  BY DEF UpsertMatch, At, LocksInv, SaleInv, Serve
<1>2. dirty[t] = Empty
  BY <1>1 DEF Own, CleanBeforeCascade
<1>4. CommitAndGoto(t, d, "done") /\ "done" \in Quiet
  BY DEF UpsertMatch, CommitWith, Quiet, Step, Ended
<1>5. \A r \in DOMAIN d : r \in Rows /\ row[r] = "none" /\ d[r] = "discovered"
  BY RowKinds DEF NewPairs
<1> HIDE DEF d
<1>6. SellsOnce(t, d)
  <2>1. \A m \in Matches : Match(m) \in DOMAIN d => m \in NewPairs(t)
    BY RowKinds DEF d
  <2>2. \A m \in NewPairs(t) : \A i \in IntentsOf(m) : holder[Intent(i)] \in {NoTxn, t}
    BY DEF UpsertMatch, ReferencesFree
  <2>3. \A m \in Matches : Nego(m) \notin DOMAIN d
    BY RowKinds DEF d
  <2>4. \A i \in Intents : Intent(i) \notin DOMAIN d
    BY <1>1, <1>5 DEF ColumnsAreTyped
  <2> QED
    BY <1>5, <2>1, <2>2, <2>3, <2>4 DEF SellsOnce, AgreesOn, Absent, Shut
<1> QED
  BY <1>1, <1>2, <1>4, <1>6, CleanSellsOnce, CommitKeepsSale

LEMMA StepPreservesSale == LocksInv /\ SaleInv /\ [Next]_vars => SaleInv'
<1> SUFFICES ASSUME LocksInv, SaleInv, [Next]_vars PROVE SaleInv'
  OBVIOUS
<1>1. CASE UNCHANGED vars
  BY <1>1 DEF vars, SaleInv, Known, ShutHasClosed, NoDoubleSale, AcceptedByTool, Shut, Absent,
              Closed, Fair, Cascading, WantsCompeting, WritesAClosing, AgreesOn, ShutsAll,
              ReadsNone, HasItsMatch, ReadsFresh, Offered, Claims, SeesItsMatch
<1>2. ASSUME NEW t \in Txns, Serve(t) PROVE SaleInv'
  <2>1. CASE EndTick(t)
    <3>1. Rollback(t, "refused") /\ "refused" \in Quiet
      BY <2>1 DEF EndTick, Quiet, Step, Ended
    <3> QED
      BY <1>2, <3>1, RollbackKeepsSale
  <2>2. CASE DeadlockVictim(t)
    <3>1. Rollback(t, "aborted") /\ "aborted" \in Quiet
      BY <2>2 DEF DeadlockVictim, Quiet, Step, Ended
    <3> QED
      BY <1>2, <3>1, RollbackKeepsSale
  <2>3. CASE Shortlist(t)
    <3>1. pc'[t] = "insert" /\ row' = row
      BY <2>3 DEF Shortlist, Goto, LocksInv, Tables
    <3>2. "insert" \in Quiet
      BY DEF Quiet, Step
    <3> QED
      BY <1>2, <3>1, <3>2, QuietIsFair, ReadKeepsSale
  <2>4. CASE Preload(t)
    <3>1. pc'[t] \in {"get_match", "get_buy", "get_sell", "lock_nego"} /\ row' = row
      BY <2>4 DEF Preload, Goto, LocksInv, Tables
    <3>2. Fair(t)'
      BY <2>4, <3>1 DEF Fair, Cascading, ByApi, Preload
    <3> QED
      BY <1>2, <3>1, <3>2, ReadKeepsSale
  <2> QED
    BY <1>2, <2>1, <2>2, <2>3, <2>4, AcquireKeepsSale, CheckNegotiationKeepsSale,
       ReadPartiesKeepsSale, CheckIntentsKeepsSale, OfferKeepsSale, CounterOfferKeepsSale,
       CancelIntentKeepsSale, UpdateIntentKeepsSale, UpsertMatchKeepsSale,
       ExpireMatchesKeepsSale, CommitStepKeepsSale DEF Serve
<1> QED
  BY <1>1, <1>2 DEF Next

LEMMA SaleInit == Init => SaleInv
<1> SUFFICES ASSUME Init PROVE SaleInv
  OBVIOUS
<1>1. PICK stage \in [Matches -> {"none", "discovered", "negotiating"}] :
         /\ \A m \in Stored : stage[m] # "none"
         /\ row = [r \in Rows |->
                   CASE r[1] = "intent" -> "active"
                     [] r[1] = "match"  -> stage[r[2]]
                     [] r[1] = "nego"   ->
                           IF stage[r[2]] = "negotiating" THEN "active" ELSE "none"
                     [] r[1] = "price"  -> "as_posted"]
  BY DEF Init
<1>2. /\ \A m \in Matches :
            /\ row[Match(m)] = stage[m]
            /\ row[Nego(m)] = IF stage[m] = "negotiating" THEN "active" ELSE "none"
      /\ \A i \in Intents : row[Intent(i)] = "active"
  <2>1. \A m : /\ Match(m)[1] = "match" /\ Match(m)[2] = m
               /\ Nego(m)[1] = "nego" /\ Nego(m)[2] = m
               /\ Intent(m)[1] = "intent"
    BY DEF Match, Nego, Intent
  <2> QED
    BY <1>1, <2>1, RowKinds
<1>3. \A m \in Matches : row[Match(m)] \in {"none", "discovered", "negotiating"}
  BY <1>1, <1>2
<1>4. Known /\ ShutHasClosed /\ NoDoubleSale
  BY <1>2, <1>3 DEF Known, ShutHasClosed, NoDoubleSale, Shut, Absent
<1>5. ASSUME NEW t \in Txns PROVE Fair(t)
  <2>1. pc[t] = First(t)[1] /\ want[t] = First(t)[2] /\ seen[t] = Empty
    BY DEF Init
  <2>2. pc[t] \notin {"cancel_negos", "expire_matches", "read_sell", "done"}
    BY <2>1, FirstIsTyped
  <2>3. ByApi(t) =>
           /\ pc[t] \notin {"lock_match", "lock_intents"}
           /\ pc[t] = "lock_nego" => ReadsNone(t) /\ HasItsMatch(t)
    <3> SUFFICES ASSUME ByApi(t), pc[t] = "lock_nego" PROVE ReadsNone(t) /\ HasItsMatch(t)
      BY <2>1, FirstIsTyped DEF ByApi, IsAccept
    <3>1. want[t] = << Nego(Subject[t]) >>
      BY <2>1, FirstIsTyped DEF ByApi, IsAccept
    <3>2. \A n \in 1..Len(want[t]) : want[t][n] = Nego(Subject[t])
      BY <3>1
    <3> QED
      BY <2>1, <3>1, <3>2, NothingIsEmpty, RowKinds DEF ReadsNone, HasItsMatch
  <2>4. Handler[t] = "start_or_continue" => SeesItsMatch(t)
    BY <2>1 DEF First, SeesItsMatch
  <2> QED
    BY <2>2, <2>3, <2>4 DEF Fair, Cascading
<1> QED
  BY <1>4, <1>5 DEF SaleInv

LEMMA SaleInvariant == Spec => [](LocksInv /\ SaleInv)
<1>1. Init => LocksInv /\ SaleInv
  BY LocksInit, SaleInit
<1>2. LocksInv /\ SaleInv /\ [Next]_vars => LocksInv' /\ SaleInv'
  BY StepPreservesInv, StepPreservesSale
<1> QED
  BY <1>1, <1>2, PTL DEF Spec

\* Nothing is sold twice: of two competing negotiations at most one is agreed,
\* or one was accepted by an agent's tool, for any number of accepts, offers,
\* cancellations, edits and discoveries, and matches stored at any time.
THEOREM NothingIsSoldTwice == Spec => []NoDoubleSale
<1>1. SaleInv => NoDoubleSale
  BY DEF SaleInv
<1> QED
  BY <1>1, SaleInvariant, PTL

-----------------------------------------------------------------------------
(***************************************************************************)
(* The commits as steps of the reservation promise.                        *)
(***************************************************************************)

SameIntent(i) == row'[Intent(i)] = row[Intent(i)]

SameAgreement(k) == row'[Nego(k)] = "agreed" <=> row[Nego(k)] = "agreed"

\* The abstract view of a column.
StandingOf(s) ==
    CASE s = "active"    -> "open"
      [] s = "matched"   -> "reserved"
      [] s = "cancelled" -> "withdrawn"

OutcomeOf(s) == IF s = "agreed" THEN "reserving" ELSE "none"

StandingNow == [i \in Intents |-> StandingOf(row[Intent(i)])]
OutcomeNow  == [m \in Matches |-> OutcomeOf(row[Nego(m)])]

LEMMA NothingHappens ==
  ASSUME \A i \in Intents : SameIntent(i), \A k \in Matches : SameAgreement(k)
  PROVE  UNCHANGED Promise!abstractVars
<1>1. StandingNow' = StandingNow
  BY DEF StandingNow, SameIntent
<1>2. OutcomeNow' = OutcomeNow
  BY DEF OutcomeNow, OutcomeOf, SameAgreement
<1> QED
  BY <1>1, <1>2 DEF Promise!abstractVars, StandingNow, StandingOf, OutcomeNow, OutcomeOf

LEMMA OneIsReserved ==
  ASSUME NEW m \in Matches,
         \A i \in IntentsOf(m) : row[Intent(i)] = "active" /\ row'[Intent(i)] = "matched",
         \A i \in Intents \ IntentsOf(m) : SameIntent(i),
         row[Nego(m)] # "agreed", row'[Nego(m)] = "agreed",
         \A k \in Matches \ {m} : SameAgreement(k)
  PROVE  Promise!Reserve(m)
<1>1. IntentsOf(m) \subseteq Intents
  BY RequestAssumption DEF IntentsOf
<1>2. StandingOf("active") = "open" /\ StandingOf("matched") = "reserved"
  BY DEF StandingOf
<1>3. OutcomeNow[m] = "none" /\ \A i \in IntentsOf(m) : StandingNow[i] = "open"
  BY <1>1, <1>2 DEF OutcomeNow, OutcomeOf, StandingNow
<1>4. StandingNow' = [i \in Intents |-> IF i \in IntentsOf(m) THEN "reserved" ELSE StandingNow[i]]
  BY <1>1, <1>2 DEF StandingNow, SameIntent
<1>5. OutcomeNow' = [OutcomeNow EXCEPT ![m] = "reserving"]
  BY DEF OutcomeNow, OutcomeOf, SameAgreement
<1>6. [k \in Matches |-> IntentsOf(k)][m] = IntentsOf(m)
  OBVIOUS
<1>7. /\ OutcomeNow[m] = "none"
      /\ \A i \in [k \in Matches |-> IntentsOf(k)][m] : StandingNow[i] = "open"
      /\ StandingNow' = [i \in Intents |-> IF i \in [k \in Matches |-> IntentsOf(k)][m]
                                         THEN "reserved" ELSE StandingNow[i]]
      /\ OutcomeNow' = [OutcomeNow EXCEPT ![m] = "reserving"]
  <2> HIDE DEF StandingNow, OutcomeNow
  <2> QED
    BY <1>3, <1>4, <1>5, <1>6, Zenon
<1> QED
  BY <1>7, Zenon
     DEF Promise!Reserve, Promise!SetStanding, StandingNow, StandingOf, OutcomeNow, OutcomeOf

LEMMA OneIsWithdrawn ==
  ASSUME NEW j \in Intents, row[Intent(j)] = "active", row'[Intent(j)] = "cancelled",
         \A i \in Intents \ {j} : SameIntent(i), \A k \in Matches : SameAgreement(k)
  PROVE  Promise!Withdraw(j)
<1>1. StandingOf("active") = "open" /\ StandingOf("cancelled") = "withdrawn"
  BY DEF StandingOf
<1>2. StandingNow[j] = "open"
  BY <1>1 DEF StandingNow
<1>3. StandingNow' = [i \in Intents |-> IF i \in {j} THEN "withdrawn" ELSE StandingNow[i]]
  BY <1>1 DEF StandingNow, SameIntent
<1>4. OutcomeNow' = OutcomeNow
  BY DEF OutcomeNow, OutcomeOf, SameAgreement
<1> QED
  BY <1>2, <1>3, <1>4
     DEF Promise!Withdraw, Promise!SetStanding, StandingNow, StandingOf, OutcomeNow, OutcomeOf

\* A commit of a session without a cascade.
LEMMA AsideHappens ==
  ASSUME LocksInv, NEW t \in Txns, dirty[t] = Empty, NEW d, NEW s, CommitAndGoto(t, d, s),
         \A i \in Intents : Intent(i) \notin DOMAIN d,
         \A k \in Matches : Nego(k) \in DOMAIN d =>
            d[Nego(k)] # "agreed" /\ row[Nego(k)] # "agreed"
  PROVE  UNCHANGED Promise!abstractVars
<1> DEFINE e == Override(dirty[t], d)
<1>1. row' = Override(row, e) /\ row \in [Rows -> Status]
  BY DEF CommitAndGoto, LocksInv, Tables
<1>2. DOMAIN e = DOMAIN d /\ \A r \in DOMAIN d : e[r] = d[r]
  BY OwnWrites
<1> HIDE DEF e
<1>3. \A r \in Rows : row'[r] = IF r \in DOMAIN d THEN d[r] ELSE row[r]
  BY <1>1, <1>2 DEF Override, Load
<1>4. \A i \in Intents : SameIntent(i)
  BY <1>3, RowKinds DEF SameIntent
<1>5. \A k \in Matches : SameAgreement(k)
  BY <1>3, RowKinds DEF SameAgreement
<1> QED
  BY <1>4, <1>5, NothingHappens

\* The commit of an accept reserves its match, that of a cancellation
\* withdraws its intent, whatever the cascades have found.
LEMMA CascadeIsReservation ==
  ASSUME LocksInv, SaleInv, NEW t \in Txns, Commit(t), ~LateAccept
  PROVE  Promise!ReservationNext
<1> DEFINE e == dirty[t]
<1>1. WritesAClosing(t) /\ WritesAreWhole(t) /\ WritesAreLocked(t) /\ AgreedTakesBoth
  BY DEF Commit, At, SaleInv, Fair, Cascading, LocksInv, Own
<1>2. \A r \in Rows : row'[r] = IF r \in DOMAIN e THEN e[r] ELSE row[r]
  BY NothingIsEmpty DEF Commit, CommitWith, CommitAndGoto, LocksInv, Tables, Override, Load
<1>3. \A i \in Intents : i \notin Closing(t) => SameIntent(i)
  BY <1>1, <1>2, RowKinds DEF WritesAClosing, SameIntent
<1>4. \A i \in Closing(t) : i \in Intents
  BY RequestAssumption, SubjectsAreTyped DEF Closing, IntentsOf
<1>9. \A i \in Closing(t) : ~Closed(i)
  <2> SUFFICES ASSUME ByTool(t) PROVE \A i \in Closing(t) : ~Closed(i)
    BY <1>1 DEF WritesAClosing
  <2>1. pc[t] # "done" /\ pc'[t] = "done"
    BY DEF Commit, CommitWith, CommitAndGoto, Goto, At, LocksInv, Tables
  <2>2. Closing(t) = IntentsOf(Subject[t])
    BY DEF ByTool, Closing, IsIntentRequest
  <2> QED
    BY <2>1, <2>2 DEF LateAccept, ByTool, Closed
<1>5. \A i \in Closing(t) :
         row[Intent(i)] = "active" /\ row'[Intent(i)] = IF IsAccept(t) THEN "matched" ELSE "cancelled"
  BY <1>1, <1>2, <1>4, <1>9, RowKinds DEF WritesAClosing, Closed
<1>6. \A k \in Matches : ~AgreesOn(e, k) => SameAgreement(k)
  BY <1>1, <1>2, RowKinds DEF WritesAClosing, WritesAreWhole, AgreesOn, SameAgreement, Final
<1>7. CASE IsAccept(t)
  <2> DEFINE m == Subject[t]
  <2>1. m \in Matches /\ Closing(t) = IntentsOf(m) /\ Nego(m) \in Rows
    BY <1>7, AcceptTarget DEF Closing
  <2>2. \A k \in Matches \ {m} : SameAgreement(k)
    BY <1>1, <1>6 DEF WritesAClosing
  <2>3. row'[Nego(m)] = "agreed"
    BY <1>1, <1>2, <1>7, <2>1 DEF WritesAClosing, AgreesOn
  <2>4. row[Nego(m)] # "agreed"
    BY <1>1, <1>5, <2>1 DEF AgreedTakesBoth, IntentsOf
  <2>5. Promise!Reserve(m)
    BY <1>3, <1>5, <1>7, <2>1, <2>2, <2>3, <2>4, OneIsReserved
  <2> QED
    BY <2>1, <2>5 DEF Promise!ReservationNext
<1>8. CASE ~IsAccept(t)
  <2> DEFINE j == Subject[t]
  <2>1. j \in Intents /\ Closing(t) = {j}
    BY <1>1, <1>8, SubjectsAreTyped DEF WritesAClosing, Closing, IsIntentRequest
  <2>2. \A k \in Matches : SameAgreement(k)
    BY <1>1, <1>6, <1>8 DEF WritesAClosing
  <2>3. Promise!Withdraw(j)
    BY <1>3, <1>5, <1>8, <2>1, <2>2, OneIsWithdrawn
  <2> QED
    BY <2>1, <2>3 DEF Promise!ReservationNext
<1> QED
  BY <1>7, <1>8

LEMMA StepsAreReservations ==
  ASSUME LocksInv, SaleInv, [Next]_vars
  PROVE  [UNCHANGED row \/ LateAccept \/ Promise!ReservationNext]_(Promise!abstractVars)
<1>1. CASE row' = row
  BY <1>1, NothingHappens DEF SameIntent, SameAgreement
<1>2. ASSUME NEW t \in Txns, Serve(t), row' # row, ~LateAccept
      PROVE  Promise!ReservationNext \/ UNCHANGED Promise!abstractVars
  <2>1. ~Refuse(t)
    BY <1>2 DEF Refuse, Rollback
  <2>2. CASE Commit(t)
    BY <1>2, <2>2, CascadeIsReservation
  <2>3. CASE Offer(t)
    <3> DEFINE m == Subject[t]
    <3> DEFINE d == [r \in {Nego(m), Match(m)} |-> IF r = Nego(m) THEN "active" ELSE "negotiating"]
    <3>1. row[Nego(m)] = "none" /\ CommitAndGoto(t, d, "done") /\ pc[t] = "lock_match"
      BY <1>2, <2>1, <2>3 DEF Offer, CommitWith, At
    <3>2. dirty[t] = Empty
      BY <3>1 DEF LocksInv, Own, CleanBeforeCascade
    <3>3. DOMAIN d = {Nego(m), Match(m)} /\ d[Nego(m)] = "active"
      OBVIOUS
    <3> HIDE DEF d
    <3>4. /\ \A i \in Intents : Intent(i) \notin DOMAIN d
          /\ \A k \in Matches : Nego(k) \in DOMAIN d => k = m
      BY <3>3, RowKinds
    <3> QED
      BY <3>1, <3>2, <3>3, <3>4, AsideHappens
  <2>4. CASE CounterOffer(t)
    <3>1. CommitAndGoto(t, Empty, "done") /\ pc[t] = "lock_nego"
      BY <2>1, <2>4 DEF CounterOffer, CommitWith, At
    <3>2. dirty[t] = Empty
      BY <3>1 DEF LocksInv, Own, CleanBeforeCascade
    <3> QED
      BY <3>1, <3>2, NothingIsEmpty, AsideHappens
  <2>5. CASE UpdateIntent(t)
    <3> DEFINE d == [r \in {Price(Subject[t])} |-> "edited"]
    <3>1. /\ dirty[t] = Empty
          /\ CommitAndGoto(t, d, "shortlist") \/ CommitAndGoto(t, Empty, "shortlist")
      BY <2>1, <2>5, EditFacts
    <3>2. DOMAIN d = {Price(Subject[t])}
      OBVIOUS
    <3> HIDE DEF d
    <3>3. /\ \A i \in Intents : Intent(i) \notin DOMAIN d
          /\ \A k \in Matches : Nego(k) \notin DOMAIN d
      BY <3>2, RowKinds
    <3> QED
      BY <3>1, <3>3, NothingIsEmpty, AsideHappens
  <2>6. CASE UpsertMatch(t)
    <3> DEFINE d == [r \in {Match(m) : m \in NewPairs(t)} |-> "discovered"]
    <3>1. CommitAndGoto(t, d, "done") /\ pc[t] = "insert"
      BY <2>6 DEF UpsertMatch, CommitWith, At
    <3>2. dirty[t] = Empty /\ ColumnsAreTyped
      BY <3>1 DEF LocksInv, Own, CleanBeforeCascade
    <3>3. \A r \in DOMAIN d : row[r] = "none" /\ d[r] = "discovered"
      BY DEF NewPairs
    <3> HIDE DEF d
    <3>4. \A i \in Intents : Intent(i) \notin DOMAIN d
      BY <3>2, <3>3 DEF ColumnsAreTyped
    <3> QED
      BY <3>1, <3>2, <3>3, <3>4, AsideHappens
  <2>7. Offer(t) \/ CounterOffer(t) \/ UpsertMatch(t) \/ Commit(t) \/ UpdateIntent(t)
    BY <1>2 DEF Serve, Acquire, Preload, CheckNegotiation, ReadParties, CheckIntents,
                CancelIntent, Shortlist, ExpireMatches, EndTick, DeadlockVictim, Refuse, Rollback
  <2> QED
    BY <2>2, <2>3, <2>4, <2>5, <2>6, <2>7
<1> QED
  BY <1>1, <1>2 DEF Next, vars

\* The handlers may be taken as atomic, and a tool's accept as two: however
\* their statements interleave, each commit but a tool's late one reserves both
\* intents of one match, withdraws one intent, or leaves intents and agreements
\* alone.
THEOREM CommitsReserve == Spec => CommitsAreReservations
<1>1. LocksInv /\ SaleInv /\ [Next]_vars
         => [UNCHANGED row \/ LateAccept \/ Promise!ReservationNext]_(Promise!abstractVars)
  BY StepsAreReservations
<1> QED
  BY <1>1, SaleInvariant, PTL DEF Spec, CommitsAreReservations

-----------------------------------------------------------------------------
(***************************************************************************)
(* The order in which accepts lock the intents.                            *)
(***************************************************************************)

LocksNoIntent(t) ==
    \A i \in Intents : /\ holder[Intent(i)] # t
                       /\ \A n \in 1..Len(want[t]) : want[t][n] # Intent(i)

\* An accept has no intent locked before its statement on the intents, and
\* then it locks them in order.
LocksInOrder(t) ==
    IsAccept(t) =>
        LET q == SortedIntents(Subject[t])
        IN  /\ pc[t] \in {"get_nego", "get_match", "get_buy", "get_sell",
                          "lock_nego", "lock_match", "read_sell"} => LocksNoIntent(t)
            /\ pc[t] = "lock_intents" =>
                  \/ want[t] = q /\ \A i \in Intents : holder[Intent(i)] # t
                  \/ /\ want[t] = << q[2] >>
                     /\ \A i \in Intents : holder[Intent(i)] = t => Intent(i) = q[1]
                  \/ want[t] = << >>

TakesNoLocks(t) ==
    \A u \in Txns \ {t}, r \in Rows : holder'[r] = u => holder[r] = u

\* No step gives another transaction a lock.
LEMMA OthersGetNoLocks ==
  ASSUME LocksInv, NEW t \in Txns, Serve(t)
  PROVE  TakesNoLocks(t)
<1>1. Tables /\ NoTxn \notin Txns
  BY RequestAssumption DEF LocksInv
<1>2. Release(t) => TakesNoLocks(t)
  BY <1>1 DEF Release, TakesNoLocks
<1>3. CASE Acquire(t)
  BY <1>1, <1>3 DEF Acquire, TakesNoLocks, Tables
<1>4. Acquire(t) \/ Release(t) \/ UNCHANGED holder
  BY DEF Serve, Preload, CheckNegotiation, ReadParties, CheckIntents, Offer, CounterOffer,
         CancelIntent, UpdateIntent, Shortlist, UpsertMatch, ExpireMatches, Commit, EndTick,
         DeadlockVictim, Refuse, Rollback, CommitWith, CommitAndGoto
<1> QED
  BY <1>2, <1>3, <1>4 DEF TakesNoLocks

LEMMA SortedIntentsAre ==
  ASSUME NEW m \in Matches
  PROVE  \E i, j \in Intents :
            /\ SortedIntents(m) = << Intent(i), Intent(j) >>
            /\ IntentOrder[i] <= IntentOrder[j]
<1>1. /\ BuyIntent[m] \in Intents /\ SellIntent[m] \in Intents
      /\ \A i \in Intents : IntentOrder[i] \in Nat
  BY RequestAssumption
<1> QED
  BY <1>1 DEF SortedIntents

LEMMA OthersStayInOrder ==
  ASSUME LocksInv, NEW t \in Txns, Serve(t), NEW u \in Txns, u # t, LocksInOrder(u)
  PROVE  LocksInOrder(u)'
<1>1. pc'[u] = pc[u] /\ want'[u] = want[u]
  BY ServeMoves DEF Moves
<1>2. \A i \in Intents : holder'[Intent(i)] = u => holder[Intent(i)] = u
  BY OthersGetNoLocks, RowKinds DEF TakesNoLocks
<1> QED
  BY <1>1, <1>2 DEF LocksInOrder, LocksNoIntent

\* A step of an accept that only reads and asks for rows that are no intents.
LEMMA AsksForNoIntent ==
  ASSUME NEW t \in Txns, IsAccept(t), LocksNoIntent(t), holder' = holder,
         pc'[t] # "lock_intents",
         \A i \in Intents, n \in 1..Len(want'[t]) : want'[t][n] # Intent(i)
  PROVE  LocksInOrder(t)'
  BY DEF LocksInOrder, LocksNoIntent

LEMMA AcquireInOrder ==
  ASSUME LocksInv, NEW t \in Txns, IsAccept(t), Acquire(t), LocksInOrder(t)
  PROVE  LocksInOrder(t)'
<1> DEFINE r == Head(want[t])
<1> DEFINE q == SortedIntents(Subject[t])
<1>1. /\ want[t] \in Seq(Rows) /\ want[t] # << >> /\ r \in Rows
      /\ pc' = pc /\ want'[t] = Tail(want[t]) /\ holder' = [holder EXCEPT ![r] = t]
      /\ holder \in [Rows -> Txns \cup {NoTxn}]
  BY DEF LocksInv, Tables, Acquire
<1>2. /\ 1 \in 1..Len(want[t]) /\ want[t][1] = r
      /\ \A n \in 1..Len(want'[t]) : n + 1 \in 1..Len(want[t]) /\ want'[t][n] = want[t][n + 1]
  BY <1>1, HeadTailProperties
<1>3. \A x \in Rows : x # r => holder'[x] = holder[x]
  BY <1>1
<1>4. ASSUME LocksNoIntent(t) PROVE LocksNoIntent(t)'
  <2>1. \A i \in Intents : r # Intent(i)
    BY <1>2, <1>4 DEF LocksNoIntent
  <2> QED
    BY <1>2, <1>3, <1>4, <2>1, RowKinds DEF LocksNoIntent
<1>5. ASSUME pc[t] = "lock_intents"
      PROVE  \/ /\ want'[t] = << q[2] >>
                /\ \A i \in Intents : holder'[Intent(i)] = t => Intent(i) = q[1]
             \/ want'[t] = << >>
  <2>1. PICK i, j \in Intents : q = << Intent(i), Intent(j) >>
    BY AcceptTarget, SortedIntentsAre
  <2>2. CASE want[t] = q /\ \A k \in Intents : holder[Intent(k)] # t
    <3>1. r = q[1] /\ want'[t] = << q[2] >>
      BY <1>1, <2>1, <2>2
    <3>2. \A k \in Intents : holder'[Intent(k)] = t => Intent(k) = q[1]
      BY <1>3, <2>2, <3>1, RowKinds
    <3> QED
      BY <3>1, <3>2
  <2>3. CASE want[t] = << q[2] >>
    BY <1>1, <2>3
  <2> QED
    BY <1>1, <1>5, <2>2, <2>3 DEF LocksInOrder
<1> QED
  BY <1>1, <1>4, <1>5 DEF LocksInOrder

LEMMA ServeInOrder ==
  ASSUME LocksInv, NEW t \in Txns, Serve(t), LocksInOrder(t)
  PROVE  LocksInOrder(t)'
<1> SUFFICES ASSUME IsAccept(t) PROVE LocksInOrder(t)'
  BY DEF LocksInOrder
<1> DEFINE m == Subject[t]
<1>1. Tables /\ ~IsIntentRequest(Handler[t]) /\ m \in Matches
  BY AcceptTarget DEF LocksInv
<1>2. ASSUME pc'[t] \in (Quiet \ {"get_nego", "get_match", "get_buy", "get_sell"})
                        \cup {"cancel_negos", "expire_matches"}
      PROVE  LocksInOrder(t)'
  BY <1>2 DEF LocksInOrder, Quiet
<1>3. ASSUME NEW s, Goto(t, s) PROVE pc'[t] = s
  BY <1>1, <1>3 DEF Goto, Tables
<1>4. ASSUME NEW s \in Ended, Rollback(t, s) PROVE LocksInOrder(t)'
  BY <1>2, <1>3, <1>4 DEF Rollback, Quiet, Step, Ended
<1>5. ASSUME Refuse(t) PROVE LocksInOrder(t)'
  <2>1. Goto(t, "lingering") \/ Goto(t, "refused")
    BY <1>5 DEF Refuse, Rollback
  <2>2. pc'[t] \in {"lingering", "refused"}
    BY <1>3, <2>1
  <2> QED
    BY <1>2, <2>2 DEF Quiet, Step, Ended
<1>6. ASSUME NEW d, NEW s \in {"done", "shortlist"}, CommitAndGoto(t, d, s)
      PROVE  LocksInOrder(t)'
  BY <1>2, <1>3, <1>6 DEF CommitAndGoto, Quiet, Step, Ended
<1>7. CASE Acquire(t)
  BY <1>7, AcquireInOrder
<1>8. CASE Preload(t)
  <2> DEFINE q == IF pc[t] = "get_sell" THEN << Nego(m) >> ELSE << >>
  <2>1. /\ pc[t] \in {"get_nego", "get_match", "get_buy", "get_sell"}
        /\ LockNext(t, q) /\ holder' = holder
        /\ \E s \in {"get_match", "get_buy", "get_sell", "lock_nego"} : Goto(t, s)
    BY <1>8 DEF Preload
  <2>2. want'[t] = q /\ pc'[t] # "lock_intents"
    BY <1>1, <1>3, <2>1 DEF LockNext, Tables
  <2>3. \A n \in 1..Len(q) : q[n] = Nego(m)
    OBVIOUS
  <2> QED
    BY <2>1, <2>2, <2>3, RowKinds, AsksForNoIntent DEF LocksInOrder
<1>9. CASE CheckNegotiation(t)
  <2>1. CASE /\ LockNext(t, << Match(m) >>) /\ Goto(t, "lock_match") /\ holder' = holder
    <3>1. want'[t] = << Match(m) >> /\ pc'[t] = "lock_match" /\ pc[t] = "lock_nego"
      BY <1>1, <1>3, <1>9, <2>1 DEF LockNext, Tables, CheckNegotiation, At
    <3>2. \A n \in 1..Len(want'[t]) : want'[t][n] = Match(m)
      BY <3>1
    <3> QED
      BY <2>1, <3>1, <3>2, RowKinds, AsksForNoIntent DEF LocksInOrder
  <2> QED
    BY <1>5, <1>9, <2>1 DEF CheckNegotiation
<1>10. CASE ReadParties(t)
  <2>1. /\ pc[t] \in {"lock_match", "read_sell"} /\ LocksNoIntent(t) /\ holder' = holder
    BY <1>10 DEF ReadParties, At, LocksInOrder
  <2>2. CASE Goto(t, "read_sell") /\ UNCHANGED want
    BY <1>3, <2>1, <2>2, AsksForNoIntent DEF LocksNoIntent
  <2>3. CASE Goto(t, "lock_intents") /\ LockNext(t, SortedIntents(m))
    <3>1. pc'[t] = "lock_intents" /\ want'[t] = SortedIntents(m)
      BY <1>1, <1>3, <2>3 DEF LockNext, Tables
    <3> QED
      BY <2>1, <3>1 DEF LocksInOrder, LocksNoIntent
  <2> QED
    BY <1>10, <2>2, <2>3 DEF ReadParties
<1>11. CASE CheckIntents(t)
  <2>1. Goto(t, "cancel_negos") \/ Refuse(t)
    BY <1>11, ZenonT(30) DEF CheckIntents
  <2>2. CASE Goto(t, "cancel_negos")
    <3>1. pc'[t] = "cancel_negos"
      BY <1>3, <2>2
    <3> QED
      BY <3>1 DEF LocksInOrder
  <2> QED
    BY <1>5, <2>1, <2>2
<1>12. CASE ExpireMatches(t)
  <2>1. Goto(t, "expire_matches")
    BY <1>12 DEF ExpireMatches
  <2>2. pc'[t] = "expire_matches"
    BY <1>3, <2>1
  <2> QED
    BY <2>2 DEF LocksInOrder
<1>13. CASE Commit(t) \/ UpsertMatch(t)
  BY <1>6, <1>13 DEF Commit, UpsertMatch, CommitWith
<1>14. CASE EndTick(t) \/ DeadlockVictim(t)
  BY <1>4, <1>14 DEF EndTick, DeadlockVictim, Ended
<1>15. CASE Shortlist(t)
  BY <1>2, <1>3, <1>15 DEF Shortlist, Quiet, Step
<1>16. ~Offer(t) /\ ~CounterOffer(t) /\ ~CancelIntent(t) /\ ~UpdateIntent(t)
  BY DEF Offer, CounterOffer, CancelIntent, UpdateIntent, IsAccept
<1> QED
  BY <1>7, <1>8, <1>9, <1>10, <1>11, <1>12, <1>13, <1>14, <1>15, <1>16 DEF Serve

LEMMA OrderInvariant == Spec => [](LocksInv /\ \A t \in Txns : LocksInOrder(t))
<1>1. ASSUME Init, NEW t \in Txns PROVE LocksInOrder(t)
  <2> SUFFICES ASSUME IsAccept(t) PROVE LocksInOrder(t)
    BY DEF LocksInOrder
  <2>1. \A i \in Intents : holder[Intent(i)] # t
    BY <1>1, RowKinds, RequestAssumption DEF Init
  <2>2. pc[t] # "lock_intents" /\ \A n \in 1..Len(want[t]) : want[t][n] = Nego(Subject[t])
    BY <1>1 DEF Init, First, IsAccept
  <2> QED
    BY <2>1, <2>2, RowKinds DEF LocksInOrder, LocksNoIntent
<1>2. ASSUME LocksInv, \A t \in Txns : LocksInOrder(t), [Next]_vars, NEW u \in Txns
      PROVE  LocksInOrder(u)'
  <2>1. CASE UNCHANGED vars
    BY <1>2, <2>1 DEF vars, LocksInOrder, LocksNoIntent
  <2>2. ASSUME NEW t \in Txns, Serve(t) PROVE LocksInOrder(u)'
    BY <1>2, <2>2, ServeInOrder, OthersStayInOrder
  <2> QED
    BY <1>2, <2>1, <2>2 DEF Next
<1>3. LocksInv /\ (\A t \in Txns : LocksInOrder(t)) /\ [Next]_vars =>
         LocksInv' /\ (\A t \in Txns : LocksInOrder(t))'
  BY <1>2, StepPreservesInv
<1>4. Init => LocksInv /\ \A t \in Txns : LocksInOrder(t)
  BY <1>1, LocksInit
<1> QED
  BY <1>3, <1>4, PTL DEF Spec

\* Accept t waits for the lock on intent i, at its statement on the intents.
Awaits(t, i) ==
    IsAccept(t) /\ pc[t] = "lock_intents" /\ Waiting(t) /\ Head(want[t]) = Intent(i)

AcceptsWaitUpwards ==
    \A t, u \in Txns, i, j \in Intents :
        Awaits(t, i) /\ holder[Intent(i)] = u /\ Awaits(u, j)
            => IntentOrder[i] < IntentOrder[j]

\* What accept_offer's docstring sorts the ids of the two intents for, deadlock
\* prevention: an accept that waits for an intent which another waiting accept
\* holds waits for a smaller one than the other does, so accepts never wait in
\* a circle for intents, however many of them share one.
THEOREM IntentLocksAreOrdered == Spec => []AcceptsWaitUpwards
<1>1. ASSUME LocksInv, \A t \in Txns : LocksInOrder(t) PROVE AcceptsWaitUpwards
  <2> SUFFICES ASSUME NEW t \in Txns, NEW u \in Txns, NEW i \in Intents, NEW j \in Intents,
                      Awaits(t, i), holder[Intent(i)] = u, Awaits(u, j)
               PROVE  IntentOrder[i] < IntentOrder[j]
    BY DEF AcceptsWaitUpwards
  <2> DEFINE q == SortedIntents(Subject[u])
  <2>1. /\ IsAccept(u) /\ pc[u] = "lock_intents" /\ want[u] # << >>
        /\ Head(want[u]) = Intent(j) /\ holder[Intent(j)] # u
    BY DEF Awaits, Waiting
  <2>2. /\ want[u] = << q[2] >>
        /\ Intent(i) = q[1]
    BY <1>1, <2>1 DEF LocksInOrder
  <2>3. PICK k, l \in Intents : q = << Intent(k), Intent(l) >> /\ IntentOrder[k] <= IntentOrder[l]
    BY <2>1, AcceptTarget, SortedIntentsAre
  <2>4. i = k /\ j = l
    BY <2>1, <2>2, <2>3, RowKinds
  <2>5. i # j
    BY <2>1
  <2> QED
    BY <2>3, <2>4, <2>5, RequestAssumption
<1>2. LocksInv /\ (\A t \in Txns : LocksInOrder(t)) => AcceptsWaitUpwards
  BY <1>1
<1> QED
  BY <1>2, OrderInvariant, PTL

=============================================================================
