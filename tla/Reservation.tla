---------------------------- MODULE Reservation ----------------------------
(***************************************************************************)
(* What the marketplace promises about intents: an intent on offer can be  *)
(* reserved by one deal at a time, a deal reserves both of its intents in  *)
(* one step, and it either sells them for good or gives both back.  A deal *)
(* is struck once.  Revoking a mandate is the exception the promise makes: *)
(* it ends deals that are not settled yet without giving the intents back. *)
(***************************************************************************)
CONSTANTS
    Intents,
    Deals,
    Needs        \* [Deals -> SUBSET Intents]

VARIABLES
    standing,    \* [Intents -> Standing]
    outcome      \* [Deals -> Outcome]

abstractVars == << standing, outcome >>

Standing == {"absent", "open", "reserved", "sold", "stranded", "withdrawn"}
Outcome  == {"none", "reserving", "settled", "void"}

ReservationTypeOK ==
    /\ standing \in [Intents -> Standing]
    /\ outcome \in [Deals -> Outcome]

SetStanding(I, value) ==
    standing' = [i \in Intents |-> IF i \in I THEN value ELSE standing[i]]

ReservationInit ==
    /\ standing = [i \in Intents |-> "absent"]
    /\ outcome = [d \in Deals |-> "none"]

Publish(i) ==
    /\ standing[i] = "absent"
    /\ SetStanding({i}, "open")
    /\ UNCHANGED outcome

Withdraw(i) ==
    /\ standing[i] = "open"
    /\ SetStanding({i}, "withdrawn")
    /\ UNCHANGED outcome

\* All or nothing, and only from intents nobody holds.
Reserve(d) ==
    /\ outcome[d] = "none"
    /\ \A i \in Needs[d] : standing[i] = "open"
    /\ SetStanding(Needs[d], "reserved")
    /\ outcome' = [outcome EXCEPT ![d] = "reserving"]

Settle(d) ==
    /\ outcome[d] = "reserving"
    /\ SetStanding(Needs[d], "sold")
    /\ outcome' = [outcome EXCEPT ![d] = "settled"]

GiveBack(d) ==
    /\ outcome[d] = "reserving"
    /\ SetStanding(Needs[d], "open")
    /\ outcome' = [outcome EXCEPT ![d] = "void"]

Strand(D) ==
    /\ \A d \in D : outcome[d] = "reserving"
    /\ SetStanding(UNION {Needs[d] : d \in D}, "stranded")
    /\ outcome' = [d \in Deals |-> IF d \in D THEN "void" ELSE outcome[d]]

ReservationNext ==
    \/ \E i \in Intents : Publish(i) \/ Withdraw(i)
    \/ \E d \in Deals : Reserve(d) \/ Settle(d) \/ GiveBack(d)
    \/ \E D \in SUBSET Deals : Strand(D)

ReservationSpec == ReservationInit /\ [][ReservationNext]_abstractVars

=============================================================================
