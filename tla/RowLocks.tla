------------------------------ MODULE RowLocks ------------------------------
(***************************************************************************)
(* accept_offer, start_or_continue, cancel_intent, update_intent and match *)
(* discovery at the grain of SQL statements, on PostgreSQL at READ         *)
(* COMMITTED.  The module Marketplace takes each handler as one step; this *)
(* one shows when the row locks justify that and when they do not.         *)
(*                                                                         *)
(* Two facts about the library the code sits on matter here.  A SELECT ... *)
(* FOR UPDATE waits for the lock and then sees the newest committed row,   *)
(* but SQLAlchemy keeps the attributes of an object the session already    *)
(* holds: a row that was read before it was locked is judged by the old    *)
(* values (seen).  And a statement picks its rows by a snapshot taken when *)
(* it starts, then rechecks its WHERE on each row it had to wait for.      *)
(***************************************************************************)
EXTENDS Naturals, Sequences, SequencesExt, FiniteSets

CONSTANTS
    Intents,
    Matches,
    BuyIntent,
    SellIntent,
    Stored,       \* the matches discovery had stored before the requests arrive
    IntentOrder,  \* [Intents -> Nat]: the order of the intents' ids
    Txns,         \* the requests that are served, one transaction each
    Handler,      \* [Txns -> HandlerName]
    Subject,      \* [Txns -> Matches \cup Intents]: what the request is about
    NoTxn

HandlerName == {"accept_offer", "tool_accept_offer", "start_or_continue",
                "cancel_intent", "update_intent", "discover"}

IsIntentRequest(h) == h \in {"cancel_intent", "update_intent"}

ASSUME RequestAssumption ==
    /\ BuyIntent \in [Matches -> Intents]
    /\ SellIntent \in [Matches -> Intents]
    /\ Stored \subseteq Matches
    /\ IntentOrder \in [Intents -> Nat]
    /\ \A i, j \in Intents : IntentOrder[i] = IntentOrder[j] => i = j
    /\ Handler \in [Txns -> HandlerName]
    /\ \A t \in Txns :
          Subject[t] \in IF IsIntentRequest(Handler[t]) THEN Intents ELSE Matches
    /\ NoTxn \notin Txns

ASSUME MatchesAssumption == IsFiniteSet(Matches) /\ Matches \cap Intents = {}

VARIABLES
    row,     \* [Rows -> status]: the committed status column of every row
    holder,  \* [Rows -> Txns \cup {NoTxn}]: who holds the row lock
    pc,      \* [Txns -> Step]: the statement the handler is at
    want,    \* [Txns -> Seq(Rows)]: rows that statement has still to lock
    seen,    \* [Txns -> partial function on Rows]: the session's identity map
    dirty    \* [Txns -> partial function on Rows]: writes not yet committed

vars == << row, holder, pc, want, seen, dirty >>

-----------------------------------------------------------------------------

Intent(i) == << "intent", i >>
Match(m)  == << "match", m >>
Nego(m)   == << "nego", m >>
Price(i)  == << "price", i >>  \* the price columns of the intent's row

Rows == {Intent(i) : i \in Intents} \cup {Match(m) : m \in Matches}
            \cup {Nego(m) : m \in Matches} \cup {Price(i) : i \in Intents}

Status == {"none", "active", "matched", "cancelled", "discovered",
           "negotiating", "agreed", "expired", "as_posted", "edited"}

Ended == {"done", "refused", "aborted"}

Step == Ended \cup {"get_nego", "get_match", "get_buy", "get_sell", "lock_nego",
                    "lock_match", "read_buy", "read_sell", "lock_intents",
                    "cancel_negos", "expire_matches", "shortlist", "insert",
                    "lingering"}

IntentsOf(m) == {BuyIntent[m], SellIntent[m]}

\* The intents whose auction the request closes.
Closing(t) ==
    IF IsIntentRequest(Handler[t]) THEN {Subject[t]} ELSE IntentsOf(Subject[t])

\* The other matches on those intents.
Competing(t) ==
    {k \in Matches \ {Subject[t]} : IntentsOf(k) \cap Closing(t) # {}}

SortedIntents(m) ==
    LET buy  == BuyIntent[m]
        sell == SellIntent[m]
    IN  IF IntentOrder[buy] <= IntentOrder[sell] THEN << Intent(buy), Intent(sell) >>
        ELSE << Intent(sell), Intent(buy) >>

Empty == [r \in {} |-> "none"]

\* f with the bindings of g where it has none of its own.
Load(f, g) == [r \in DOMAIN f \cup DOMAIN g |-> IF r \in DOMAIN f THEN f[r] ELSE g[r]]

\* f overwritten with the bindings of g.
Override(f, g) == Load(g, f)

\* The row of status value that a query of the session would show it.
Visible(t, r) == IF r \in DOMAIN dirty[t] THEN dirty[t][r] ELSE row[r]

-----------------------------------------------------------------------------
(***************************************************************************)
(* The pieces every handler is made of.                                    *)
(***************************************************************************)

\* At statement s, with every row of it locked.
At(t, s) == pc[t] = s /\ want[t] = << >>

Goto(t, s) == pc' = [pc EXCEPT ![t] = s]

\* The next statement locks the rows of q in that order.
LockNext(t, q) == want' = [want EXCEPT ![t] = q]

\* db.get: an object the session already has is not read again.
Get(t, r) == seen' = [seen EXCEPT ![t] = Load(@, [x \in {r} |-> row[r]])]

Write(t, changes) == dirty' = [dirty EXCEPT ![t] = Override(@, changes)]

Release(t) ==
    /\ holder' = [r \in Rows |-> IF holder[r] = t THEN NoTxn ELSE holder[r]]
    /\ want' = [want EXCEPT ![t] = << >>]
    /\ seen' = [seen EXCEPT ![t] = Empty]
    /\ dirty' = [dirty EXCEPT ![t] = Empty]

Rollback(t, why) == Goto(t, why) /\ Release(t) /\ UNCHANGED row

\* Mutant: the error path leaves the transaction open.
Refuse_LeavesOpen(t) ==
    Goto(t, "refused") /\ UNCHANGED << row, holder, want, seen, dirty >>

\* A service error ends the request, and closing its session rolls back.  A
\* tool's error is an answer to the agent: the tick goes on in the session that
\* holds the locks.
Refuse(t) ==
    IF Handler[t] = "tool_accept_offer"
    THEN Goto(t, "lingering") /\ UNCHANGED << row, holder, want, seen, dirty >>
    ELSE Rollback(t, "refused")

\* The next commit of the tick; nothing was written yet.
EndTick(t) == pc[t] = "lingering" /\ Rollback(t, "refused")

CommitAndGoto(t, changes, s) ==
    /\ Goto(t, s)
    /\ Release(t)
    /\ row' = Override(row, Override(dirty[t], changes))

CommitWith(t, changes) == CommitAndGoto(t, changes, "done")

\* Mutant: a status the column does not know.
Cascade_Misspelt(t, r) == IF pc[t] = "cancel_negos" THEN "closed" ELSE "expired"

\* What a cascade does to a row that still satisfies its WHERE.
Cascade(t, r) ==
    CASE pc[t] = "cancel_negos" /\ Visible(t, r) = "active" -> "cancelled"
      [] pc[t] = "expire_matches"
            /\ Visible(t, r) \in {"discovered", "negotiating"} -> "expired"
      [] OTHER -> Visible(t, r)

\* The statement gets its next row lock.
Acquire(t) ==
    /\ want[t] # << >>
    /\ want' = [want EXCEPT ![t] = Tail(@)]
    /\ UNCHANGED << row, pc >>
    /\ LET r == Head(want[t])
       IN  /\ holder[r] \in {NoTxn, t}
           /\ holder' = [holder EXCEPT ![r] = t]
           /\ seen' = [seen EXCEPT ![t] = Load(@, [x \in {r} |-> row[r]])]
           /\ dirty' = IF Cascade(t, r) = Visible(t, r) THEN dirty
                       ELSE [dirty EXCEPT ![t] =
                                Override(@, [x \in {r} |-> Cascade(t, r)])]

-----------------------------------------------------------------------------
(***************************************************************************)
(* accept_offer.                                                           *)
(***************************************************************************)

IsAccept(t) == Handler[t] \in {"accept_offer", "tool_accept_offer"}

\* The agent's tool reads the negotiation, the match and both intents before
\* it calls accept_offer, and keeps the objects in scope.
Preload(t) ==
    /\ Handler[t] = "tool_accept_offer"
    /\ LET m == Subject[t]
           next == [get_nego  |-> << Nego(m), "get_match" >>,
                    get_match |-> << Match(m), "get_buy" >>,
                    get_buy   |-> << Intent(BuyIntent[m]), "get_sell" >>,
                    get_sell  |-> << Intent(SellIntent[m]), "lock_nego" >>]
       IN  /\ pc[t] \in DOMAIN next
           /\ Goto(t, next[pc[t]][2])
           /\ Get(t, next[pc[t]][1])
           /\ LockNext(t, IF pc[t] = "get_sell" THEN << Nego(m) >> ELSE << >>)
    /\ UNCHANGED << row, holder, dirty >>

CheckNegotiation(t) ==
    /\ IsAccept(t)
    /\ At(t, "lock_nego")
    /\ LET m == Subject[t]
       IN  IF seen[t][Nego(m)] = "active"
           THEN /\ LockNext(t, << Match(m) >>)
                /\ Goto(t, "lock_match")
                /\ UNCHANGED << row, holder, seen, dirty >>
           ELSE Refuse(t)

\* _verify_user_party_to_match reads both intents, unlocked.
ReadParties(t) ==
    /\ IsAccept(t)
    /\ LET m == Subject[t]
       IN  \/ /\ At(t, "lock_match")
              /\ Get(t, Intent(BuyIntent[m]))
              /\ Goto(t, "read_sell")
              /\ UNCHANGED want
           \/ /\ At(t, "read_sell")
              /\ Get(t, Intent(SellIntent[m]))
              /\ LockNext(t, SortedIntents(m))
              /\ Goto(t, "lock_intents")
    /\ UNCHANGED << row, holder, dirty >>

\* The rows a cascade selects, in whatever order the scan meets them.
Selected(t, rows, wanted) ==
    SetToSeqs({r \in rows : Visible(t, r) \in wanted})

\* Mutant: the rows are locked and not looked at.
OnOffer_Unchecked(t, rows) == TRUE

OnOffer(t, rows) == \A r \in rows : seen[t][r] = "active"

\* Mutant: only the buy intent is taken.
Taken_BuyOnly(m) == {Intent(BuyIntent[m])}

Taken(m) == {Intent(i) : i \in IntentsOf(m)}

CheckIntents(t) ==
    /\ IsAccept(t)
    /\ At(t, "lock_intents")
    /\ LET m == Subject[t]
       IN  IF OnOffer(t, {Intent(i) : i \in IntentsOf(m)})
           THEN /\ Write(t, [r \in Taken(m) \cup {Nego(m), Match(m)} |->
                                IF r \in Taken(m) THEN "matched" ELSE "agreed"])
                /\ \E q \in Selected(t, {Nego(k) : k \in Competing(t)}, {"active"}) :
                      LockNext(t, q)
                /\ Goto(t, "cancel_negos")
                /\ UNCHANGED << row, holder, seen >>
           ELSE Refuse(t)

-----------------------------------------------------------------------------
(***************************************************************************)
(* The other handlers.                                                     *)
(***************************************************************************)

\* A first offer creates the negotiation; a later one locks it first.
Offer(t) ==
    /\ Handler[t] = "start_or_continue"
    /\ At(t, "lock_match")
    /\ LET m == Subject[t]
       IN  CASE seen[t][Match(m)] \notin {"discovered", "negotiating"} -> Refuse(t)
             [] OTHER ->
                   IF row[Nego(m)] = "none"
                   THEN CommitWith(t, [r \in {Nego(m), Match(m)} |->
                            IF r = Nego(m) THEN "active" ELSE "negotiating"])
                   ELSE /\ LockNext(t, << Nego(m) >>)
                        /\ Goto(t, "lock_nego")
                        /\ UNCHANGED << row, holder, seen, dirty >>

CounterOffer(t) ==
    /\ Handler[t] = "start_or_continue"
    /\ At(t, "lock_nego")
    /\ IF seen[t][Nego(Subject[t])] = "active" THEN CommitWith(t, Empty)
       ELSE Refuse(t)

CancelIntent(t) ==
    /\ Handler[t] = "cancel_intent"
    /\ At(t, "lock_intents")
    /\ LET r == Intent(Subject[t])
       IN  IF OnOffer(t, {r})
           THEN /\ Write(t, [x \in {r} |-> "cancelled"])
                /\ \E q \in Selected(t, {Nego(k) : k \in Competing(t)}, {"active"}) :
                      LockNext(t, q)
                /\ Goto(t, "cancel_negos")
                /\ UNCHANGED << row, holder, seen >>
           ELSE Refuse(t)

\* The second statement of both cascades.
ExpireMatches(t) ==
    /\ At(t, "cancel_negos")
    /\ \E q \in Selected(t, {Match(k) : k \in Competing(t)},
                         {"discovered", "negotiating"}) : LockNext(t, q)
    /\ Goto(t, "expire_matches")
    /\ UNCHANGED << row, holder, seen, dirty >>

Commit(t) == At(t, "expire_matches") /\ CommitWith(t, Empty)

\* A new price needs an intent without active negotiations; they are counted
\* after the intent is locked, and a first offer locks only its match.  New
\* texts are stored in any case, unless the embedding service fails.
UpdateIntent(t) ==
    /\ Handler[t] = "update_intent"
    /\ At(t, "lock_intents")
    /\ LET i == Subject[t]
           free == \A m \in Matches : i \in IntentsOf(m) => row[Nego(m)] # "active"
       IN  \/ /\ OnOffer(t, {Intent(i)})
              /\ \E priced \in {FALSE, free} :
                    CommitAndGoto(t, IF priced THEN [r \in {Price(i)} |-> "edited"]
                                     ELSE Empty, "shortlist")
           \/ Refuse(t)

\* After its commit the edit looks for partners again: pairs of active intents,
\* of which the scores keep some.  The session holds what it found.
Shortlist(t) ==
    /\ pc[t] = "shortlist"
    /\ \E found \in SUBSET {m \in Matches :
                               /\ Subject[t] \in IntentsOf(m)
                               /\ \A i \in IntentsOf(m) : row[Intent(i)] = "active"} :
          seen' = [seen EXCEPT ![t] = [r \in {Match(m) : m \in found} |-> row[r]]]
    /\ Goto(t, "insert")
    /\ UNCHANGED << row, holder, want, dirty >>

\* The pairs the transaction has yet to insert.
NewPairs(t) ==
    LET found == IF Handler[t] = "discover" THEN {Match(Subject[t])}
                 ELSE DOMAIN seen[t]
    IN  {m \in Matches : Match(m) \in found /\ row[Match(m)] = "none"}

\* Mutant: no foreign key ties a pair to its intents.
ReferencesFree_NoForeignKey(t, m) == TRUE

\* The foreign keys of a pair lock both of its intents against FOR UPDATE: the
\* insert waits for an accept, a cancellation or an edit that has them.
ReferencesFree(t, m) ==
    \A i \in IntentsOf(m) : holder[Intent(i)] \in {NoTxn, t}

\* The candidates were selected before; what is left is to insert the new pairs.
UpsertMatch(t) ==
    /\ At(t, "insert")
    /\ \A m \in NewPairs(t) : ReferencesFree(t, m)
    /\ CommitWith(t, [r \in {Match(m) : m \in NewPairs(t)} |-> "discovered"])

-----------------------------------------------------------------------------
(***************************************************************************)
(* The database breaks a cycle of waiting transactions by aborting one.    *)
(***************************************************************************)

Waiting(t) == want[t] # << >> /\ holder[Head(want[t])] \notin {NoTxn, t}

WaitsFor(t) == IF Waiting(t) THEN {holder[Head(want[t])]} ELSE {}

\* Everyone t waits for, directly or through others.
Blockers(t) ==
    LET reach[n \in 0 .. Cardinality(Txns)] ==
            IF n = 0 THEN WaitsFor(t)
            ELSE LET near == reach[n - 1]
                 IN  near \cup UNION {WaitsFor(u) : u \in near}
    IN  reach[Cardinality(Txns)]

InCycle(t) == t \in Blockers(t)

DeadlockVictim(t) == Waiting(t) /\ InCycle(t) /\ Rollback(t, "aborted")

-----------------------------------------------------------------------------

\* Where each handler starts, and the lock its first statement asks for.
First(t) ==
    CASE Handler[t] = "accept_offer"      -> << "lock_nego", << Nego(Subject[t]) >> >>
      [] Handler[t] = "tool_accept_offer" -> << "get_nego", << >> >>
      [] Handler[t] = "start_or_continue" -> << "lock_match", << Match(Subject[t]) >> >>
      [] Handler[t] = "cancel_intent"     -> << "lock_intents", << Intent(Subject[t]) >> >>
      [] Handler[t] = "update_intent" -> << "lock_intents", << Intent(Subject[t]) >> >>
      [] Handler[t] = "discover"          -> << "insert", << >> >>

\* Every match is unknown, discovered, or under negotiation.
Init ==
    /\ \E stage \in [Matches -> {"none", "discovered", "negotiating"}] :
          /\ \A m \in Stored : stage[m] # "none"
          /\ row = [r \in Rows |->
                       CASE r[1] = "intent" -> "active"
                         [] r[1] = "match"  -> stage[r[2]]
                         [] r[1] = "nego"   ->
                               IF stage[r[2]] = "negotiating" THEN "active" ELSE "none"
                         [] r[1] = "price"  -> "as_posted"]
    /\ holder = [r \in Rows |-> NoTxn]
    /\ pc = [t \in Txns |-> First(t)[1]]
    /\ want = [t \in Txns |-> First(t)[2]]
    /\ seen = [t \in Txns |-> Empty]
    /\ dirty = [t \in Txns |-> Empty]

Serve(t) ==
    \/ Acquire(t) \/ Preload(t)
    \/ CheckNegotiation(t) \/ ReadParties(t) \/ CheckIntents(t)
    \/ Offer(t) \/ CounterOffer(t) \/ CancelIntent(t)
    \/ UpdateIntent(t) \/ Shortlist(t) \/ UpsertMatch(t)
    \/ ExpireMatches(t) \/ Commit(t) \/ EndTick(t)
    \/ DeadlockVictim(t)

Next == \E t \in Txns : Serve(t)

\* As long as a request can go on, one does: the server runs them, the database
\* gives them their locks or aborts one, and a tick has a limit on its turns.
Spec == Init /\ [][Next]_vars /\ WF_vars(Next)

-----------------------------------------------------------------------------
(***************************************************************************)
(* What holds.                                                             *)
(***************************************************************************)

\* Every status is one the schema lists, also in the writes a transaction has
\* not committed yet, and a transaction has locked what it has written.
TypeOK ==
    /\ row \in [Rows -> Status]
    /\ holder \in [Rows -> Txns \cup {NoTxn}]
    /\ pc \in [Txns -> Step]
    /\ \A t \in Txns :
          /\ want[t] \in Seq(Rows)
          /\ DOMAIN seen[t] \subseteq Rows
          /\ \A r \in DOMAIN dirty[t] : dirty[t][r] \in Status /\ holder[r] = t

AcceptedByTool(m) ==
    \E t \in Txns : /\ Handler[t] = "tool_accept_offer" /\ Subject[t] = m
                    /\ pc[t] = "done"

\* The docstring of accept_offer: of two competing negotiations at most one is
\* agreed, however the statements of their accepts interleave and whenever the
\* pairs are stored, unless one was accepted by a tool on what it had loaded.
NoDoubleSale ==
    \A m, k \in {x \in Matches : row[Nego(x)] = "agreed"} :
        m # k /\ IntentsOf(m) \cap IntentsOf(k) # {}
            => AcceptedByTool(m) \/ AcceptedByTool(k)

\* An agreed negotiation has taken its match and both intents, and neither a
\* cancelled intent nor a competing accept takes them back.
AgreedTakesBoth ==
    \A m \in Matches : row[Nego(m)] = "agreed" =>
        /\ row[Match(m)] = "agreed"
        /\ \A i \in IntentsOf(m) : row[Intent(i)] = "matched"

\* The price of an intent is final once it is matched or withdrawn: no edit
\* commits over an accept or a cancellation it waited for, and none of them
\* commits inside an edit.
PriceIsFinal ==
    [][\A i \in Intents : row'[Price(i)] # row[Price(i)] =>
          row[Intent(i)] = "active" /\ row'[Intent(i)] = "active"]_vars

\* The abstract view of the committed rows.
Promise == INSTANCE Reservation WITH
    Deals    <- Matches,
    Needs    <- [m \in Matches |-> IntentsOf(m)],
    standing <- [i \in Intents |->
                    CASE row[Intent(i)] = "active"    -> "open"
                      [] row[Intent(i)] = "matched"   -> "reserved"
                      [] row[Intent(i)] = "cancelled" -> "withdrawn"],
    outcome  <- [m \in Matches |->
                    IF row[Nego(m)] = "agreed" THEN "reserving" ELSE "none"]

\* A tool commits its accept of an intent that is no longer active.
LateAccept ==
    \E t \in Txns : /\ Handler[t] = "tool_accept_offer"
                    /\ pc[t] # "done" /\ pc'[t] = "done"
                    /\ \E i \in IntentsOf(Subject[t]) : row[Intent(i)] # "active"

\* Every commit but a tool's late one is one step of the reservation promise, or
\* none: the handlers may be taken as atomic, which is how Marketplace takes
\* them, and a tool's accept as two.
CommitsAreReservations ==
    [][UNCHANGED row \/ LateAccept \/ Promise!ReservationNext]_(Promise!abstractVars)

\* No request waits for ever, because the database breaks the deadlocks the
\* lock orders of the handlers allow.
EveryRequestEnds == \A t \in Txns : <>(pc[t] \in Ended)

=============================================================================
