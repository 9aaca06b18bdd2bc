------------------------------ MODULE Sessions ------------------------------
(***************************************************************************)
(* Accounts, challenges and refresh tokens (auth_service.py,               *)
(* refresh_token_service.py, api/auth.py).                                 *)
(*                                                                         *)
(* A refresh locks the row of the token it presents and then rotates it or *)
(* revokes every token of the user.  The revocation is one UPDATE: it      *)
(* selects the rows that are stored when it starts, then waits for the row *)
(* lock of each and checks its status again.  A rotation under way holds   *)
(* the row of its token and has a child nobody else sees.                  *)
(*                                                                         *)
(* A connection lost before the commit leaves no trace and is no action.   *)
(***************************************************************************)
EXTENDS Integers, FiniteSets

CONSTANTS Users,     \* the user ids that begin_registration may draw
          Email,     \* the address each of them is registered with
          Tokens,    \* refresh tokens, by the hash of their text
          Requests   \* requests that may be in flight at the same time

ASSUME EmailAssumption == Email \in [Users -> STRING]

VARIABLES account,      \* users.status, or "none" before the row exists
          challenges,   \* signed challenge tokens that have not run out
          tokens,       \* the committed rows of refresh_tokens
          work          \* what each request is doing

vars == <<account, challenges, tokens, work>>

-----------------------------------------------------------------------------
AccountStatus == {"none", "active", "banned"}
TokenStatus == {"none", "active", "consumed", "revoked"}
NoToken == "no token"
NoUser == "no user"

Row == [status : TokenStatus, user : Users \cup {NoUser},
        parent : Tokens \cup {NoToken}, expired : BOOLEAN]
Absent == [status |-> "none", user |-> NoUser, parent |-> NoToken, expired |-> FALSE]

Challenge == [purpose : {"register", "login"}, user : Users]

ASSUME NamesAssumption == NoToken \notin Tokens /\ NoUser \notin Users

Idle == [kind |-> "idle"]
Admission == [kind : {"register", "issue"}, user : Users]
Rotation == [kind : {"rotate"}, user : Users, token : Tokens, child : Tokens]
Revocation == [kind : {"revoke"}, user : Users, seen : SUBSET Tokens, todo : SUBSET Tokens,
               held : SUBSET Tokens, rotated : SUBSET (Tokens \X Tokens)]
Work == Admission \cup Rotation \cup Revocation

TypeOK ==
    /\ account \in [Users -> AccountStatus]
    /\ challenges \subseteq Challenge
    /\ tokens \in [Tokens -> Row]
    /\ work \in [Requests -> Work \cup {Idle}]

Init ==
    /\ account = [u \in Users |-> "none"]
    /\ challenges = {}
    /\ tokens = [t \in Tokens |-> Absent]
    /\ work = [r \in Requests |-> Idle]

-----------------------------------------------------------------------------
(* Registration and login.                                                 *)

EmailTaken(u) == \E v \in Users : Email[v] = Email[u] /\ account[v] # "none"

BeginRegistration(u) ==
    /\ account[u] = "none"
    /\ ~EmailTaken(u)
    /\ challenges' = challenges \cup {[purpose |-> "register", user |-> u]}
    /\ UNCHANGED <<account, tokens, work>>

BeginLogin(u) ==
    /\ account[u] # "none"
    /\ challenges' = challenges \cup {[purpose |-> "login", user |-> u]}
    /\ UNCHANGED <<account, tokens, work>>

ChallengeExpires(ch) ==
    /\ challenges' = challenges \ {ch}
    /\ UNCHANGED <<account, tokens, work>>

\* The credential verifies and the address is still free ...
VerifyRegistration(r, u) ==
    /\ work[r] = Idle
    /\ [purpose |-> "register", user |-> u] \in challenges
    /\ ~EmailTaken(u)
    /\ work' = [work EXCEPT ![r] = [kind |-> "register", user |-> u]]
    /\ UNCHANGED <<account, challenges, tokens>>

\* ... and the user is stored and committed, unless a replay of the same
\* challenge has stored the row: the primary key refuses it.
StoreUser(r) ==
    /\ work[r].kind = "register"
    /\ LET u == work[r].user
       IN  IF account[u] = "none"
           THEN /\ account' = [account EXCEPT ![u] = "active"]
                /\ work' = [work EXCEPT ![r] = [kind |-> "issue", user |-> u]]
           ELSE /\ work' = [work EXCEPT ![r] = Idle]
                /\ UNCHANGED account
    /\ UNCHANGED <<challenges, tokens>>

\* The assertion verifies; the status of the user is not looked at.
CompleteLogin(r, u) ==
    /\ work[r] = Idle
    /\ [purpose |-> "login", user |-> u] \in challenges
    /\ work' = [work EXCEPT ![r] = [kind |-> "issue", user |-> u]]
    /\ UNCHANGED <<account, challenges, tokens>>

\* The child that a rotation under way, refused or not, will insert.
Children(r) ==
    IF work[r].kind = "rotate" THEN {work[r].child}
    ELSE IF work[r].kind = "revoke" THEN {p[2] : p \in work[r].rotated}
    ELSE {}

Fresh(t) == tokens[t].status = "none" /\ \A r \in Requests : t \notin Children(r)

Issued(u, parent) == [status |-> "active", user |-> u, parent |-> parent, expired |-> FALSE]

\* The first token of a session, in a transaction of its own.
IssueToken(r, t) ==
    /\ work[r].kind = "issue"
    /\ Fresh(t)
    /\ tokens' = [tokens EXCEPT ![t] = Issued(work[r].user, NoToken)]
    /\ work' = [work EXCEPT ![r] = Idle]
    /\ UNCHANGED <<account, challenges>>

-----------------------------------------------------------------------------
(* Refresh.                                                                *)

\* The rows that request r has locked.
Held(r) ==
    IF work[r].kind = "rotate" THEN {work[r].token}
    ELSE IF work[r].kind = "revoke" THEN work[r].held
    ELSE {}

\* Mutant: the token is read without FOR UPDATE.
Unlocked_NoLock(t) == TRUE

Unlocked(t) == \A r \in Requests : t \notin Held(r)

\* Mutant: only tokens that still work are revoked.
Revocable_ActiveOnly(u) == {t \in Tokens : tokens[t].user = u /\ tokens[t].status = "active"}

\* The stored rows that _invalidate_user_tokens updates.
Revocable(u) == {t \in Tokens : tokens[t].user = u /\ tokens[t].status \in {"active", "consumed"}}

\* consume_refresh_token of an active token.
Rotate(r, t, child) ==
    /\ work[r] = Idle
    /\ Unlocked(t)
    /\ tokens[t].status = "active"
    /\ ~tokens[t].expired
    /\ Fresh(child)
    /\ work' = [work EXCEPT ![r] = [kind |-> "rotate", user |-> tokens[t].user,
                                    token |-> t, child |-> child]]
    /\ UNCHANGED <<account, challenges, tokens>>

Revoking(u, held, rotated) ==
    [kind |-> "revoke", user |-> u, seen |-> Revocable(u), todo |-> Revocable(u) \ held,
     held |-> held, rotated |-> rotated]

\* consume_refresh_token of a consumed token, expired or not: reuse.
DetectReuse(r, t) ==
    /\ work[r] = Idle
    /\ Unlocked(t)
    /\ tokens[t].status = "consumed"
    /\ work' = [work EXCEPT ![r] = Revoking(tokens[t].user, {t}, {})]
    /\ UNCHANGED <<account, challenges, tokens>>

\* Mutant: the rotation writes a status that is not in the enumeration.
Rotated_Misspelt(rows, t, child) ==
    [rows EXCEPT ![t].status = "used", ![child] = Issued(rows[t].user, t)]

\* Both rows of a rotation.
Rotated(rows, t, child) ==
    [rows EXCEPT ![t].status = "consumed", ![child] = Issued(rows[t].user, t)]

\* The user may go on: the rotation is committed and the pair is returned.
RefreshAccessToken(r) ==
    /\ work[r].kind = "rotate"
    /\ account[work[r].user] = "active"
    /\ tokens' = Rotated(tokens, work[r].token, work[r].child)
    /\ work' = [work EXCEPT ![r] = Idle]
    /\ UNCHANGED <<account, challenges>>

\* The user may not: the rotation becomes a revocation in the same transaction.
RefuseInactive(r) ==
    /\ work[r].kind = "rotate"
    /\ account[work[r].user] # "active"
    /\ work' = [work EXCEPT ![r] =
                  Revoking(work[r].user, {work[r].token}, {<<work[r].token, work[r].child>>})]
    /\ UNCHANGED <<account, challenges, tokens>>

\* The UPDATE gets the next row, and judges it again.
RevokeRow(r, t) ==
    /\ work[r].kind = "revoke"
    /\ t \in work[r].todo
    /\ Unlocked(t)
    /\ work' = [work EXCEPT ![r].todo = @ \ {t},
                            ![r].held = IF t \in Revocable(work[r].user) THEN @ \cup {t} ELSE @]
    /\ UNCHANGED <<account, challenges, tokens>>

\* All rows are updated, and the commit of the audit row (reuse) or of the
\* service (inactive user) stores them.  The child of a refused rotation is
\* inserted and revoked at once.
RevocationCommits(r) ==
    /\ work[r].kind = "revoke"
    /\ work[r].todo = {}
    /\ LET children == {p[2] : p \in work[r].rotated}
           parent(c) == CHOOSE t \in Tokens : <<t, c>> \in work[r].rotated
       IN  tokens' = [t \in Tokens |->
              IF t \in work[r].held THEN [tokens[t] EXCEPT !.status = "revoked"]
              ELSE IF t \in children
                   THEN [Issued(work[r].user, parent(t)) EXCEPT !.status = "revoked"]
                   ELSE tokens[t]]
    /\ work' = [work EXCEPT ![r] = Idle]
    /\ UNCHANGED <<account, challenges>>

\* The requests whose rows r still waits for.
WaitsFor(r) ==
    IF work[r].kind = "revoke" /\ \A t \in work[r].todo : ~Unlocked(t)
    THEN {q \in Requests \ {r} : Held(q) \cap work[r].todo # {}}
    ELSE {}

\* The database aborts one request of a cycle.
DeadlockVictim(r) ==
    /\ \E q \in WaitsFor(r) : r \in WaitsFor(q) \/ \E p \in WaitsFor(q) : r \in WaitsFor(p)
    /\ work' = [work EXCEPT ![r] = Idle]
    /\ UNCHANGED <<account, challenges, tokens>>

-----------------------------------------------------------------------------
(* From outside: an operator bans a user, time passes.                     *)

Ban(u) ==
    /\ account[u] = "active"
    /\ account' = [account EXCEPT ![u] = "banned"]
    /\ UNCHANGED <<challenges, tokens, work>>

TokenExpires(t) ==
    /\ tokens[t].status # "none"
    /\ ~tokens[t].expired
    /\ tokens' = [tokens EXCEPT ![t].expired = TRUE]
    /\ UNCHANGED <<account, challenges, work>>

Next ==
    \/ \E u \in Users : BeginRegistration(u) \/ BeginLogin(u) \/ Ban(u)
    \/ \E ch \in challenges : ChallengeExpires(ch)
    \/ \E t \in Tokens : TokenExpires(t)
    \/ \E r \in Requests :
          \/ \E u \in Users : VerifyRegistration(r, u) \/ CompleteLogin(r, u)
          \/ StoreUser(r)
          \/ RefreshAccessToken(r) \/ RefuseInactive(r)
          \/ RevocationCommits(r)
          \/ DeadlockVictim(r)
          \/ \E t \in Tokens :
                \/ IssueToken(r, t) \/ DetectReuse(r, t) \/ RevokeRow(r, t)
                \/ \E child \in Tokens \ {t} : Rotate(r, t, child)

Spec == Init /\ [][Next]_vars

-----------------------------------------------------------------------------
(* Properties.                                                             *)

\* Requests that present the same token at the same time, and whatever follows
\* them, never get two successors out of it; and a token has a successor of the
\* same user exactly when it was used: an active token was never rotated, and
\* what a rotation inserts is never left beside a token that is still good.
RotatedOnce ==
    \A c, d \in Tokens :
        LET t == tokens[c].parent
        IN  t # NoToken =>
              /\ tokens[t].status \in {"consumed", "revoked"}
              /\ tokens[t].user = tokens[c].user
              /\ tokens[d].parent = t => c = d

\* A revocation that is answered has revoked every token that was stored when
\* it started, whichever of them were rotated while it waited; one that the
\* database aborts has revoked none.
RevokesWhatItSaw ==
    [][\A r \in Requests :
          work[r].kind = "revoke" /\ work'[r] = Idle =>
              \/ \A t \in work[r].seen : tokens'[t].status = "revoked"
              \/ tokens' = tokens]_vars

=============================================================================
