--------------------------- MODULE Sessions_proofs ---------------------------
(***************************************************************************)
(* Refresh tokens for every number of users, tokens and requests.  The     *)
(* argument is about locks: a row that a request has locked keeps its      *)
(* status and its user until that request commits, so a token that a       *)
(* rotation found active has no successor when the rotation inserts one,   *)
(* and a token that a revocation saw is, when the revocation commits,      *)
(* either locked by it or revoked by another.                              *)
(***************************************************************************)
EXTENDS Sessions, TLAPS

RowsAreCoherent ==
    \A t \in Tokens :
       /\ tokens[t].status = "none" => tokens[t].parent = NoToken
       /\ tokens[t].status # "none" => tokens[t].user \in Users

LocksAreExclusive ==
    \A r, q \in Requests :
       r # q => Held(r) \cap Held(q) = {} /\ Children(r) \cap Children(q) = {}

\* What a request has locked or will insert is as the request found it.
HoldsWhatItFound(r) ==
    /\ \A t \in Held(r) : /\ tokens[t].status \in {"active", "consumed"}
                          /\ tokens[t].user = work[r].user
    /\ \A c \in Children(r) : tokens[c].status = "none"

\* A rotation under way is the first of its token.
RotatesAnActiveToken(r) ==
    /\ work[r].kind = "rotate" => tokens[work[r].token].status = "active"
    /\ work[r].kind = "revoke" =>
          \/ work[r].rotated = {}
          \/ \E t \in work[r].held, c \in Tokens :
                work[r].rotated = {<<t, c>>} /\ tokens[t].status = "active"

\* A row that a revocation saw is waited for, locked, or revoked.
TracksWhatItSaw(r) ==
    work[r].kind = "revoke" =>
       \A t \in work[r].seen :
          /\ tokens[t].user = work[r].user /\ tokens[t].status # "none"
          /\ t \in work[r].todo \cup work[r].held \/ tokens[t].status = "revoked"

RequestInv(r) == HoldsWhatItFound(r) /\ RotatesAnActiveToken(r) /\ TracksWhatItSaw(r)

SessionsInv ==
    /\ TypeOK
    /\ RowsAreCoherent
    /\ RotatedOnce
    /\ LocksAreExclusive
    /\ \A r \in Requests : RequestInv(r)

-----------------------------------------------------------------------------
(***************************************************************************)
(* Which work a request is at, by its kind.                                *)
(***************************************************************************)

LEMMA KindOfWork ==
  ASSUME TypeOK, NEW r \in Requests
  PROVE  /\ work[r] \in Work \cup {Idle}
         /\ work[r].kind = "rotate" => work[r] \in Rotation
         /\ work[r].kind = "revoke" => work[r] \in Revocation
         /\ work[r].kind \in {"register", "issue"} => work[r] \in Admission
         /\ work[r].kind = "idle" => work[r] = Idle
         /\ Held(r) \subseteq Tokens /\ Children(r) \subseteq Tokens
<1>1. work[r] \in Work \cup {Idle}
  BY DEF TypeOK
<1>2. /\ work[r].kind = "rotate" => work[r] \in Rotation
      /\ work[r].kind = "revoke" => work[r] \in Revocation
      /\ work[r].kind \in {"register", "issue"} => work[r] \in Admission
      /\ work[r].kind = "idle" => work[r] = Idle
  BY <1>1 DEF Work, Admission, Rotation, Revocation, Idle
<1>3. Held(r) \subseteq Tokens
  BY <1>2 DEF Held, Rotation, Revocation
<1>4. Children(r) \subseteq Tokens
  BY <1>2 DEF Children, Rotation, Revocation
<1> QED
  BY <1>1, <1>2, <1>3, <1>4

\* A row that some request has locked is not free.
LEMMA UnlockedIsFree ==
  ASSUME NEW t, Unlocked(t), NEW r \in Requests PROVE t \notin Held(r)
  BY DEF Unlocked

-----------------------------------------------------------------------------
(***************************************************************************)
(* Steps that store no token: a request takes, changes or drops its work.  *)
(***************************************************************************)

LEMMA WorkChanges ==
  ASSUME SessionsInv, NEW r \in Requests, NEW w \in Work \cup {Idle},
         work' = [work EXCEPT ![r] = w], tokens' = tokens,
         account' \in [Users -> AccountStatus], challenges' \subseteq Challenge,
         \A t \in Held(r)' : t \in Held(r) \/ \A q \in Requests : t \notin Held(q),
         \A c \in Children(r)' : c \in Children(r) \/ \A q \in Requests : c \notin Children(q),
         RequestInv(r)'
  PROVE  SessionsInv'
<1>1. TypeOK'
  BY DEF SessionsInv, TypeOK
<1>2. \A q \in Requests \ {r} : work'[q] = work[q]
  BY DEF SessionsInv, TypeOK
<1>3. \A q \in Requests \ {r} : Held(q)' = Held(q) /\ Children(q)' = Children(q)
  BY <1>2 DEF Held, Children
<1>4. LocksAreExclusive'
  BY <1>3 DEF SessionsInv, LocksAreExclusive
<1>5. \A q \in Requests \ {r} : RequestInv(q)'
  BY <1>2, <1>3 DEF SessionsInv, RequestInv, HoldsWhatItFound, RotatesAnActiveToken,
                    TracksWhatItSaw
<1>6. RowsAreCoherent' /\ RotatedOnce'
  BY DEF SessionsInv, RowsAreCoherent, RotatedOnce
<1> QED
  BY <1>1, <1>4, <1>5, <1>6 DEF SessionsInv

\* Work that locks nothing and inserts nothing is always in order.
LEMMA PlainWorkChanges ==
  ASSUME SessionsInv, NEW r \in Requests, NEW w \in Admission \cup {Idle},
         work' = [work EXCEPT ![r] = w], tokens' = tokens,
         account' \in [Users -> AccountStatus], challenges' \subseteq Challenge
  PROVE  SessionsInv'
<1>1. work'[r] = w /\ w.kind \notin {"rotate", "revoke"} /\ w \in Work \cup {Idle}
  BY DEF SessionsInv, TypeOK, Admission, Idle, Work
<1>2. Held(r)' = {} /\ Children(r)' = {}
  BY <1>1 DEF Held, Children
<1>3. RequestInv(r)'
  BY <1>1, <1>2 DEF RequestInv, HoldsWhatItFound, RotatesAnActiveToken, TracksWhatItSaw
<1> QED
  BY <1>1, <1>2, <1>3, WorkChanges

LEMMA AccountsChange ==
  ASSUME SessionsInv, tokens' = tokens, work' = work,
         account' \in [Users -> AccountStatus], challenges' \subseteq Challenge
  PROVE  SessionsInv'
<1>1. TypeOK' /\ RowsAreCoherent' /\ RotatedOnce'
  BY DEF SessionsInv, TypeOK, RowsAreCoherent, RotatedOnce
<1>2. \A r \in Requests : Held(r)' = Held(r) /\ Children(r)' = Children(r)
  BY DEF Held, Children
<1>3. LocksAreExclusive'
  BY <1>2 DEF SessionsInv, LocksAreExclusive
<1>4. \A r \in Requests : RequestInv(r)'
  BY <1>2 DEF SessionsInv, RequestInv, HoldsWhatItFound, RotatesAnActiveToken, TracksWhatItSaw
<1> QED
  BY <1>1, <1>3, <1>4 DEF SessionsInv

LEMMA AdmissionKeepsInv ==
  ASSUME SessionsInv, NEW r \in Requests, NEW u \in Users,
         VerifyRegistration(r, u) \/ CompleteLogin(r, u) \/ StoreUser(r) \/ DeadlockVictim(r)
  PROVE  SessionsInv'
<1> USE DEF SessionsInv
<1>1. account \in [Users -> AccountStatus] /\ challenges \subseteq Challenge
  BY DEF TypeOK
<1>2. \A v \in Users : \A k \in {"register", "issue"} : [kind |-> k, user |-> v] \in Admission
  BY DEF Admission
<1>3. CASE VerifyRegistration(r, u) \/ CompleteLogin(r, u)
  BY <1>1, <1>2, <1>3, PlainWorkChanges DEF VerifyRegistration, CompleteLogin
<1>4. CASE StoreUser(r)
  <2>1. work[r].user \in Users
    BY <1>4, KindOfWork DEF StoreUser, Admission
  <2>2. account' \in [Users -> AccountStatus]
    BY <1>1, <1>4, <2>1 DEF StoreUser, AccountStatus
  <2>3. PICK w \in Admission \cup {Idle} : work' = [work EXCEPT ![r] = w]
    BY <1>2, <1>4, <2>1 DEF StoreUser
  <2> QED
    BY <1>1, <1>4, <2>2, <2>3, PlainWorkChanges DEF StoreUser
<1>5. CASE DeadlockVictim(r)
  BY <1>1, <1>5, PlainWorkChanges DEF DeadlockVictim
<1> QED
  BY <1>3, <1>4, <1>5

LEMMA RotateKeepsInv ==
  ASSUME SessionsInv, NEW r \in Requests, NEW t \in Tokens, NEW child \in Tokens \ {t},
         Rotate(r, t, child)
  PROVE  SessionsInv'
<1> DEFINE w == [kind |-> "rotate", user |-> tokens[t].user, token |-> t, child |-> child]
<1>1. /\ work' = [work EXCEPT ![r] = w] /\ tokens' = tokens /\ work[r] = Idle
      /\ tokens[t].status = "active" /\ Unlocked(t) /\ Fresh(child)
      /\ account' \in [Users -> AccountStatus] /\ challenges' \subseteq Challenge
  BY DEF Rotate, SessionsInv, TypeOK
<1>2. w \in Rotation /\ w \in Work \cup {Idle}
  BY <1>1 DEF SessionsInv, RowsAreCoherent, Rotation, Work
<1>3. work'[r] = w
  BY <1>1 DEF SessionsInv, TypeOK
<1>4. Held(r)' = {t} /\ Children(r)' = {child}
  BY <1>3 DEF Held, Children
<1>5. RequestInv(r)'
  BY <1>1, <1>3, <1>4 DEF RequestInv, HoldsWhatItFound, RotatesAnActiveToken, TracksWhatItSaw, Fresh
<1> HIDE DEF w
<1> QED
  BY <1>1, <1>2, <1>4, <1>5, WorkChanges DEF Unlocked, Fresh

\* The rotation that a revocation takes over, if any, is of an active token.
TakesOver(r, held, rotated) ==
    \/ rotated = {}
    \/ \E t \in held, c \in Children(r) :
          rotated = {<<t, c>>} /\ tokens[t].status = "active" /\ tokens[c].status = "none"

\* A revocation begins with the rows its request has locked already.
LEMMA RevocationBegins ==
  ASSUME SessionsInv, NEW r \in Requests, NEW u \in Users, NEW held \in SUBSET Tokens,
         NEW rotated \in SUBSET (Tokens \X Tokens),
         work' = [work EXCEPT ![r] = Revoking(u, held, rotated)],
         UNCHANGED <<account, challenges, tokens>>,
         \A t \in held : /\ tokens[t].status \in {"active", "consumed"} /\ tokens[t].user = u
                         /\ t \in Held(r) \/ Unlocked(t),
         TakesOver(r, held, rotated)
  PROVE  SessionsInv'
<1> DEFINE w == Revoking(u, held, rotated)
<1>1. account' \in [Users -> AccountStatus] /\ challenges' \subseteq Challenge
  BY DEF SessionsInv, TypeOK
<1>2. w \in Revocation /\ w \in Work \cup {Idle}
  BY DEF Revoking, Revocable, Revocation, Work
<1>3. /\ work'[r] = w /\ w.kind = "revoke" /\ w.user = u /\ w.held = held /\ w.rotated = rotated
      /\ w.seen = Revocable(u) /\ w.todo = Revocable(u) \ held
  BY DEF SessionsInv, TypeOK, Revoking
<1> HIDE DEF w
<1>4. Held(r)' = held /\ Children(r)' = {p[2] : p \in rotated}
  BY <1>3 DEF Held, Children
<1>5. Children(r)' = {} \/ \E c \in Children(r) : Children(r)' = {c} /\ tokens[c].status = "none"
  BY <1>4 DEF TakesOver
<1>6. Children(r) \subseteq Tokens
  BY KindOfWork DEF SessionsInv
<1>7. HoldsWhatItFound(r)'
  BY <1>3, <1>4, <1>5 DEF HoldsWhatItFound
<1>8. RotatesAnActiveToken(r)'
  BY <1>3, <1>6 DEF RotatesAnActiveToken, TakesOver
<1>9. TracksWhatItSaw(r)'
  BY <1>3 DEF TracksWhatItSaw, Revocable
<1>10. RequestInv(r)'
  BY <1>7, <1>8, <1>9 DEF RequestInv
<1> QED
  BY <1>1, <1>2, <1>4, <1>5, <1>10, WorkChanges DEF w, Unlocked

LEMMA RevocationStartsKeepInv ==
  ASSUME SessionsInv, NEW r \in Requests, NEW t \in Tokens, DetectReuse(r, t) \/ RefuseInactive(r)
  PROVE  SessionsInv'
<1>1. CASE DetectReuse(r, t)
  <2>1. tokens[t].user \in Users
    BY <1>1 DEF DetectReuse, SessionsInv, RowsAreCoherent
  <2>2. /\ work' = [work EXCEPT ![r] = Revoking(tokens[t].user, {t}, {})]
        /\ UNCHANGED <<account, challenges, tokens>>
        /\ tokens[t].status = "consumed" /\ Unlocked(t)
    BY <1>1 DEF DetectReuse
  <2>3. PICK held \in SUBSET Tokens, rotated \in SUBSET (Tokens \X Tokens) :
           held = {t} /\ rotated = {}
    OBVIOUS
  <2>4. /\ work' = [work EXCEPT ![r] = Revoking(tokens[t].user, held, rotated)]
        /\ \A s \in held : /\ tokens[s].status \in {"active", "consumed"}
                           /\ tokens[s].user = tokens[t].user
                           /\ s \in Held(r) \/ Unlocked(s)
        /\ TakesOver(r, held, rotated)
    BY <2>2, <2>3 DEF TakesOver
  <2> QED
    BY <2>1, <2>2, <2>3, <2>4, RevocationBegins
<1>2. CASE RefuseInactive(r)
  <2>1. work[r] \in Rotation /\ work[r].kind = "rotate"
    BY <1>2, KindOfWork DEF RefuseInactive, SessionsInv
  <2>2. Held(r) = {work[r].token} /\ Children(r) = {work[r].child}
    BY <2>1 DEF Held, Children
  <2>3. /\ tokens[work[r].token].status = "active" /\ tokens[work[r].token].user = work[r].user
        /\ tokens[work[r].child].status = "none"
    BY <2>1, <2>2 DEF SessionsInv, RequestInv, HoldsWhatItFound, RotatesAnActiveToken
  <2>4. /\ work[r].user \in Users /\ {work[r].token} \in SUBSET Tokens
        /\ {<<work[r].token, work[r].child>>} \in SUBSET (Tokens \X Tokens)
    BY <2>1 DEF Rotation
  <2>5. /\ work' = [work EXCEPT ![r] = Revoking(work[r].user, {work[r].token},
                                               {<<work[r].token, work[r].child>>})]
        /\ UNCHANGED <<account, challenges, tokens>>
    BY <1>2 DEF RefuseInactive
  <2>6. PICK u \in Users, held \in SUBSET Tokens, rotated \in SUBSET (Tokens \X Tokens) :
           /\ u = work[r].user
           /\ held = {work[r].token} /\ rotated = {<<work[r].token, work[r].child>>}
    BY <2>4
  <2>7. /\ work' = [work EXCEPT ![r] = Revoking(u, held, rotated)]
        /\ \A s \in held : /\ tokens[s].status \in {"active", "consumed"}
                           /\ tokens[s].user = u
                           /\ s \in Held(r) \/ Unlocked(s)
    BY <2>2, <2>3, <2>5, <2>6
  <2>8. TakesOver(r, held, rotated)
    BY <2>2, <2>3, <2>6 DEF TakesOver
  <2>9. UNCHANGED <<account, challenges, tokens>>
    BY <2>5
  <2> QED
    BY <2>7, <2>8, <2>9, RevocationBegins
<1> QED
  BY <1>1, <1>2

LEMMA RevokeRowKeepsInv ==
  ASSUME SessionsInv, NEW r \in Requests, NEW t \in Tokens, RevokeRow(r, t)
  PROVE  SessionsInv'
<1> DEFINE held == IF t \in Revocable(work[r].user) THEN work[r].held \cup {t} ELSE work[r].held
           w == [work[r] EXCEPT !.todo = @ \ {t}, !.held = held]
<1>1. /\ work[r] \in Revocation /\ work[r].kind = "revoke" /\ t \in work[r].todo
      /\ Unlocked(t) /\ tokens' = tokens
      /\ account' \in [Users -> AccountStatus] /\ challenges' \subseteq Challenge
  BY KindOfWork DEF RevokeRow, SessionsInv, TypeOK
<1>2. held \subseteq Tokens
  BY <1>1 DEF Revocation
<1>3. work' = [work EXCEPT ![r] = w]
  BY <1>1 DEF RevokeRow, Revocation, SessionsInv, TypeOK
<1> HIDE DEF held
<1>4. w \in Revocation /\ w \in Work \cup {Idle}
  BY <1>1, <1>2 DEF Revocation, Work
<1>5. /\ work'[r].kind = "revoke" /\ work'[r].user = work[r].user /\ work'[r].seen = work[r].seen
      /\ work'[r].todo = work[r].todo \ {t} /\ work'[r].held = held
      /\ work'[r].rotated = work[r].rotated
  BY <1>1, <1>3 DEF Revocation, SessionsInv, TypeOK
<1>6. Held(r) = work[r].held /\ Held(r)' = held /\ Children(r)' = Children(r)
  BY <1>1, <1>5 DEF Held, Children
<1>7. RequestInv(r)
  BY DEF SessionsInv
<1>8. HoldsWhatItFound(r)'
  BY <1>1, <1>5, <1>6, <1>7 DEF RequestInv, HoldsWhatItFound, held, Revocable
<1>9. RotatesAnActiveToken(r)'
  BY <1>1, <1>5, <1>7 DEF RequestInv, RotatesAnActiveToken, held
<1>10. TracksWhatItSaw(r)'
  <2> SUFFICES ASSUME NEW s \in work[r].seen
               PROVE  /\ tokens[s].user = work[r].user /\ tokens[s].status # "none"
                      /\ s \in (work[r].todo \ {t}) \cup held \/ tokens[s].status = "revoked"
    BY <1>1, <1>5 DEF TracksWhatItSaw
  <2>1. /\ tokens[s].user = work[r].user /\ tokens[s].status # "none"
        /\ s \in work[r].todo \cup work[r].held \/ tokens[s].status = "revoked"
    BY <1>1, <1>7 DEF RequestInv, TracksWhatItSaw
  <2>2. tokens[s].status \in {"active", "consumed", "revoked"}
    BY <1>1, <2>1 DEF SessionsInv, TypeOK, Row, TokenStatus, Revocation
  <2> QED
    BY <1>1, <2>1, <2>2 DEF held, Revocable
<1>11. RequestInv(r)'
  BY <1>8, <1>9, <1>10 DEF RequestInv
<1> HIDE DEF w
<1> QED
  BY <1>1, <1>3, <1>4, <1>6, <1>11, WorkChanges DEF held, Unlocked

-----------------------------------------------------------------------------
(***************************************************************************)
(* Steps that store tokens.                                                *)
(***************************************************************************)

\* A stored row keeps its user and its parent, and is revoked for good.
RowsMoveOn ==
    \A t \in Tokens :
       tokens[t].status # "none" =>
          /\ tokens'[t].user = tokens[t].user /\ tokens'[t].status # "none"
          /\ tokens[t].status = "revoked" => tokens'[t].status = "revoked"

\* Nobody but r has locked t or will insert it.
Private(r, t) == \A q \in Requests \ {r} : t \notin Held(q) \cup Children(q)

LEMMA OthersKeepTheirRows ==
  ASSUME SessionsInv, NEW q \in Requests, work'[q] = work[q], RowsMoveOn,
         \A t \in Held(q) \cup Children(q) : /\ tokens'[t].status = tokens[t].status
                                             /\ tokens'[t].user = tokens[t].user
  PROVE  RequestInv(q)' /\ Held(q)' = Held(q) /\ Children(q)' = Children(q)
<1>1. Held(q)' = Held(q) /\ Children(q)' = Children(q)
  BY DEF Held, Children
<1>2. RequestInv(q) /\ TypeOK
  BY DEF SessionsInv
<1>3. HoldsWhatItFound(q)'
  BY <1>1, <1>2 DEF RequestInv, HoldsWhatItFound
<1>4. RotatesAnActiveToken(q)'
  BY <1>2 DEF RequestInv, RotatesAnActiveToken, Held
<1>5. TracksWhatItSaw(q)'
  <2>1. work[q].kind = "revoke" => work[q].seen \subseteq Tokens
    BY <1>2, KindOfWork DEF Revocation
  <2> QED
    BY <1>2, <2>1 DEF RequestInv, TracksWhatItSaw, RowsMoveOn
<1> QED
  BY <1>1, <1>3, <1>4, <1>5 DEF RequestInv

\* A request commits rows that are its own and is done.
LEMMA RequestCommits ==
  ASSUME SessionsInv, NEW r \in Requests, NEW touched \in SUBSET Tokens,
         work' = [work EXCEPT ![r] = Idle], UNCHANGED <<account, challenges>>,
         tokens' \in [Tokens -> Row], RowsMoveOn,
         \A t \in touched : Private(r, t),
         \A t \in Tokens \ touched : tokens'[t] = tokens[t],
         RowsAreCoherent', RotatedOnce'
  PROVE  SessionsInv'
<1>1. TypeOK'
  BY DEF SessionsInv, TypeOK
<1>2. work'[r] = Idle /\ \A q \in Requests \ {r} : work'[q] = work[q]
  BY DEF SessionsInv, TypeOK
<1>3. Held(r)' = {} /\ Children(r)' = {} /\ RequestInv(r)'
  BY <1>2 DEF Idle, Held, Children, RequestInv, HoldsWhatItFound, RotatesAnActiveToken,
              TracksWhatItSaw
<1>4. ASSUME NEW q \in Requests \ {r}
      PROVE  RequestInv(q)' /\ Held(q)' = Held(q) /\ Children(q)' = Children(q)
  <2>1. Held(q) \cup Children(q) \subseteq Tokens
    BY KindOfWork DEF SessionsInv
  <2>2. \A t \in Held(q) \cup Children(q) : tokens'[t] = tokens[t]
    BY <2>1 DEF Private
  <2> QED
    BY <1>2, <2>2, OthersKeepTheirRows
<1>5. LocksAreExclusive'
  BY <1>3, <1>4 DEF SessionsInv, LocksAreExclusive
<1> QED
  BY <1>1, <1>3, <1>4, <1>5 DEF SessionsInv

\* What a request has locked, and what it will insert, is its own.
LEMMA OwnRowsArePrivate ==
  ASSUME SessionsInv, NEW r \in Requests, NEW t \in Held(r) \cup Children(r)
  PROVE  Private(r, t)
  BY DEF SessionsInv, LocksAreExclusive, RequestInv, HoldsWhatItFound, Private

LEMMA IssueKeepsInv ==
  ASSUME SessionsInv, NEW r \in Requests, NEW t \in Tokens, IssueToken(r, t)
  PROVE  SessionsInv'
<1>1. /\ work[r].user \in Users /\ Fresh(t) /\ tokens[t].status = "none"
      /\ tokens' = [tokens EXCEPT ![t] = Issued(work[r].user, NoToken)]
      /\ work' = [work EXCEPT ![r] = Idle] /\ UNCHANGED <<account, challenges>>
      /\ tokens \in [Tokens -> Row]
  BY KindOfWork DEF IssueToken, Fresh, Admission, SessionsInv, TypeOK
<1>2. Issued(work[r].user, NoToken) \in Row
  BY <1>1 DEF Issued, Row, TokenStatus
<1>3. tokens' \in [Tokens -> Row] /\ RowsMoveOn
  BY <1>1, <1>2 DEF RowsMoveOn
<1>4. /\ tokens'[t].status = "active" /\ tokens'[t].user \in Users /\ tokens'[t].parent = NoToken
      /\ \A s \in Tokens \ {t} : tokens'[s] = tokens[s]
  BY <1>1 DEF Issued
<1>5. RowsAreCoherent'
  BY <1>4 DEF SessionsInv, RowsAreCoherent
<1>6. RotatedOnce'
  <2> SUFFICES ASSUME NEW c \in Tokens, NEW d \in Tokens, tokens'[c].parent # NoToken
               PROVE  /\ tokens'[tokens'[c].parent].status \in {"consumed", "revoked"}
                      /\ tokens'[tokens'[c].parent].user = tokens'[c].user
                      /\ tokens'[d].parent = tokens'[c].parent => c = d
    BY DEF RotatedOnce
  <2>1. c # t /\ tokens[c].parent \in Tokens
    BY <1>1, <1>4 DEF Row
  <2>2. /\ tokens[tokens[c].parent].status \in {"consumed", "revoked"}
        /\ tokens[tokens[c].parent].user = tokens[c].user
        /\ tokens[d].parent = tokens[c].parent => c = d
    BY <1>4, <2>1 DEF SessionsInv, RotatedOnce
  <2> QED
    BY <1>1, <1>4, <2>1, <2>2
<1>7. Private(r, t)
  <2>1. \A q \in Requests : t \notin Held(q) /\ t \notin Children(q)
    BY <1>1 DEF Fresh, SessionsInv, RequestInv, HoldsWhatItFound
  <2> QED
    BY <2>1 DEF Private
<1>8. PICK touched \in SUBSET Tokens : touched = {t}
  OBVIOUS
<1>9. /\ \A s \in touched : Private(r, s)
      /\ \A s \in Tokens \ touched : tokens'[s] = tokens[s]
  BY <1>4, <1>7, <1>8
<1>10. work' = [work EXCEPT ![r] = Idle] /\ UNCHANGED <<account, challenges>>
  BY <1>1
<1> QED
  BY <1>3, <1>5, <1>6, <1>9, <1>10, RequestCommits

\* A rotation that is stored: both rows at once.
LEMMA RefreshKeepsInv ==
  ASSUME SessionsInv, NEW r \in Requests, RefreshAccessToken(r)
  PROVE  SessionsInv'
<1>1. PICK t \in Tokens, child \in Tokens : t = work[r].token /\ child = work[r].child
  BY KindOfWork DEF RefreshAccessToken, Rotation, SessionsInv
<1>2. Held(r) = {t} /\ Children(r) = {child}
  BY <1>1 DEF RefreshAccessToken, Held, Children
<1>3. /\ tokens[t].status = "active" /\ tokens[child].status = "none" /\ t # child
      /\ tokens[t].user \in Users /\ tokens \in [Tokens -> Row]
  BY <1>1, <1>2 DEF RefreshAccessToken, SessionsInv, TypeOK, RowsAreCoherent, RequestInv,
                    HoldsWhatItFound, RotatesAnActiveToken
<1>4. /\ work' = [work EXCEPT ![r] = Idle] /\ UNCHANGED <<account, challenges>>
      /\ tokens' = [tokens EXCEPT ![t].status = "consumed",
                                  ![child] = Issued(tokens[t].user, t)]
  BY <1>1 DEF RefreshAccessToken, Rotated
<1>5. /\ tokens'[t] = [tokens[t] EXCEPT !.status = "consumed"]
      /\ tokens'[child] = Issued(tokens[t].user, t)
      /\ \A s \in Tokens \ {t, child} : tokens'[s] = tokens[s]
  BY <1>3, <1>4
<1>6. /\ \A s \in Tokens \ {t, child} : tokens'[s] = tokens[s]
      /\ tokens'[t].status = "consumed" /\ tokens'[t].user = tokens[t].user
      /\ tokens'[t].parent = tokens[t].parent /\ tokens'[t] \in Row
      /\ tokens'[child].status = "active" /\ tokens'[child].user = tokens[t].user
      /\ tokens'[child].parent = t /\ tokens'[child] \in Row
  BY <1>3, <1>5 DEF Issued, Row, TokenStatus
<1>7. tokens' \in [Tokens -> Row]
  <2>1. \A s \in Tokens : tokens'[s] \in Row
    BY <1>3, <1>6
  <2> QED
    BY <1>3, <1>4, <2>1
<1>8. RowsMoveOn /\ RowsAreCoherent'
  BY <1>3, <1>6, NamesAssumption DEF RowsMoveOn, SessionsInv, RowsAreCoherent
<1>9. RotatedOnce'
  <2> SUFFICES ASSUME NEW c \in Tokens, NEW d \in Tokens, tokens'[c].parent # NoToken
               PROVE  /\ tokens'[tokens'[c].parent].status \in {"consumed", "revoked"}
                      /\ tokens'[tokens'[c].parent].user = tokens'[c].user
                      /\ tokens'[d].parent = tokens'[c].parent => c = d
    BY DEF RotatedOnce
  <2>1. \A s \in Tokens : tokens[s].parent # t
    BY <1>3, NamesAssumption DEF SessionsInv, RotatedOnce
  <2>2. CASE c = child
    BY <1>6, <2>1, <2>2, NamesAssumption
  <2>3. CASE c # child
    <3>1. /\ tokens'[c].parent = tokens[c].parent /\ tokens'[c].user = tokens[c].user
          /\ tokens[c].parent \in Tokens
      BY <1>3, <1>6, <2>3 DEF Row
    <3>2. /\ tokens[tokens[c].parent].status \in {"consumed", "revoked"}
          /\ tokens[tokens[c].parent].user = tokens[c].user
          /\ tokens[d].parent = tokens[c].parent => c = d
      BY <3>1, NamesAssumption DEF SessionsInv, RotatedOnce
    <3>3. tokens[c].parent \notin {t, child}
      BY <1>3, <3>2
    <3> QED
      BY <1>3, <1>6, <2>1, <2>3, <3>1, <3>2, <3>3
  <2> QED
    BY <2>2, <2>3
<1>10. PICK touched \in SUBSET Tokens : touched = {t, child}
  OBVIOUS
<1>11. /\ \A s \in touched : Private(r, s)
       /\ \A s \in Tokens \ touched : tokens'[s] = tokens[s]
  BY <1>2, <1>6, <1>10, OwnRowsArePrivate
<1>12. work' = [work EXCEPT ![r] = Idle] /\ UNCHANGED <<account, challenges>>
  BY <1>4
<1> QED
  BY <1>7, <1>8, <1>9, <1>11, <1>12, RequestCommits

\* A revocation that is stored: the locked rows, and the child of the rotation
\* it took over.
LEMMA RevocationStores ==
  ASSUME SessionsInv, NEW r \in Requests, RevocationCommits(r)
  PROVE  /\ work[r] \in Revocation /\ work[r].kind = "revoke" /\ work[r].todo = {}
         /\ Held(r) = work[r].held
         /\ tokens' \in [Tokens -> Row]
         /\ \A t \in Held(r) : /\ tokens'[t].status = "revoked"
                               /\ tokens'[t].user = tokens[t].user
                               /\ tokens'[t].parent = tokens[t].parent
         /\ \A t \in Tokens \ (Held(r) \cup Children(r)) : tokens'[t] = tokens[t]
         /\ \/ Children(r) = {}
            \/ \E t \in Held(r), c \in Tokens :
                  /\ Children(r) = {c} /\ c \notin Held(r)
                  /\ tokens[t].status = "active"
                  /\ tokens'[c].status = "revoked" /\ tokens'[c].user = tokens[t].user
                  /\ tokens'[c].parent = t
<1> DEFINE parent(c) == CHOOSE t \in Tokens : <<t, c>> \in work[r].rotated
<1>1. /\ work[r] \in Revocation /\ work[r].kind = "revoke" /\ work[r].todo = {}
      /\ work[r].user \in Users /\ tokens \in [Tokens -> Row]
  BY KindOfWork DEF RevocationCommits, Revocation, SessionsInv, TypeOK
<1>2. Held(r) = work[r].held /\ Children(r) = {p[2] : p \in work[r].rotated}
  BY <1>1 DEF Held, Children
<1>3. tokens' = [t \in Tokens |->
         IF t \in Held(r) THEN [tokens[t] EXCEPT !.status = "revoked"]
         ELSE IF t \in Children(r)
              THEN [Issued(work[r].user, parent(t)) EXCEPT !.status = "revoked"]
              ELSE tokens[t]]
  BY <1>2 DEF RevocationCommits
<1> HIDE DEF parent
<1>4. /\ Held(r) \subseteq Tokens
      /\ \A t \in Held(r) : tokens[t].status # "none" /\ tokens[t].user = work[r].user
      /\ \A c \in Children(r) : tokens[c].status = "none"
  BY KindOfWork DEF SessionsInv, RequestInv, HoldsWhatItFound
<1>5. \A t \in Held(r) : /\ tokens'[t].status = "revoked" /\ tokens'[t] \in Row
                         /\ tokens'[t].user = tokens[t].user
                         /\ tokens'[t].parent = tokens[t].parent
  BY <1>1, <1>3, <1>4 DEF Row, TokenStatus
<1>6. \A t \in Tokens \ (Held(r) \cup Children(r)) : tokens'[t] = tokens[t]
  BY <1>3
<1>7. CASE Children(r) = {}
  <2>1. \A t \in Tokens : tokens'[t] \in Row
    BY <1>1, <1>5, <1>6, <1>7
  <2> QED
    BY <1>1, <1>2, <1>3, <1>5, <1>6, <1>7, <2>1
<1>8. CASE Children(r) # {}
  <2>1. PICK t \in Held(r), c \in Tokens :
           work[r].rotated = {<<t, c>>} /\ tokens[t].status = "active"
    BY <1>1, <1>2, <1>8 DEF SessionsInv, RequestInv, RotatesAnActiveToken
  <2>2. Children(r) = {c} /\ c \notin Held(r)
    BY <1>2, <1>4, <2>1
  <2>3. parent(c) = t
    <3>1. \A s \in Tokens : <<s, c>> \in work[r].rotated <=> s = t
      BY <2>1
    <3> QED
      BY <1>4, <3>1 DEF parent
  <2>4. tokens'[c] = [Issued(work[r].user, t) EXCEPT !.status = "revoked"]
    BY <1>3, <2>2, <2>3
  <2>5. /\ tokens'[c].status = "revoked" /\ tokens'[c].user = work[r].user
        /\ tokens'[c].parent = t /\ tokens'[c] \in Row
    BY <1>1, <1>4, <2>4 DEF Issued, Row, TokenStatus
  <2>6. \A s \in Tokens : tokens'[s] \in Row
    BY <1>1, <1>5, <1>6, <2>2, <2>5
  <2>7. /\ Children(r) = {c} /\ c \notin Held(r) /\ tokens[t].status = "active"
        /\ tokens'[c].status = "revoked" /\ tokens'[c].user = tokens[t].user
        /\ tokens'[c].parent = t
    BY <1>4, <2>1, <2>2, <2>5
  <2>8. tokens' \in [Tokens -> Row]
    BY <1>3, <2>6
  <2> QED
    BY <1>1, <1>2, <1>5, <1>6, <2>7, <2>8
<1> QED
  BY <1>7, <1>8

LEMMA RevocationKeepsInv ==
  ASSUME SessionsInv, NEW r \in Requests, RevocationCommits(r)
  PROVE  SessionsInv'
<1>1. /\ tokens' \in [Tokens -> Row]
      /\ \A t \in Held(r) : /\ tokens'[t].status = "revoked"
                            /\ tokens'[t].user = tokens[t].user
                            /\ tokens'[t].parent = tokens[t].parent
      /\ \A t \in Tokens \ (Held(r) \cup Children(r)) : tokens'[t] = tokens[t]
      /\ \/ Children(r) = {}
         \/ \E t \in Held(r), c \in Tokens :
               /\ Children(r) = {c} /\ c \notin Held(r)
               /\ tokens[t].status = "active"
               /\ tokens'[c].status = "revoked" /\ tokens'[c].user = tokens[t].user
               /\ tokens'[c].parent = t
  BY RevocationStores
<1>2. /\ Held(r) \subseteq Tokens /\ Children(r) \subseteq Tokens
      /\ \A t \in Held(r) : tokens[t].status \in {"active", "consumed"}
      /\ \A c \in Children(r) : tokens[c].status = "none"
      /\ tokens \in [Tokens -> Row]
  BY KindOfWork DEF SessionsInv, TypeOK, RequestInv, HoldsWhatItFound
<1>3. RowsMoveOn
  BY <1>1, <1>2 DEF RowsMoveOn
<1>4. RowsAreCoherent'
  BY <1>1, <1>2 DEF SessionsInv, RowsAreCoherent
<1>5. RotatedOnce'
  <2> SUFFICES ASSUME NEW c \in Tokens, NEW d \in Tokens, tokens'[c].parent # NoToken
               PROVE  /\ tokens'[tokens'[c].parent].status \in {"consumed", "revoked"}
                      /\ tokens'[tokens'[c].parent].user = tokens'[c].user
                      /\ tokens'[d].parent = tokens'[c].parent => c = d
    BY DEF RotatedOnce
  <2>1. CASE c \in Children(r)
    <3>1. PICK t \in Held(r) : /\ Children(r) = {c} /\ tokens[t].status = "active"
                               /\ tokens'[c].user = tokens[t].user /\ tokens'[c].parent = t
      BY <1>1, <2>1
    <3>2. \A s \in Tokens : tokens[s].parent # t
      BY <1>2, <3>1, NamesAssumption DEF SessionsInv, RotatedOnce
    <3>3. d # c => tokens'[d].parent = tokens[d].parent
      BY <1>1, <3>1
    <3> QED
      BY <1>1, <3>1, <3>2, <3>3
  <2>2. CASE c \notin Children(r)
    <3>1. /\ tokens'[c].parent = tokens[c].parent /\ tokens'[c].user = tokens[c].user
          /\ tokens[c].parent \in Tokens
      BY <1>1, <1>2, <2>2 DEF Row
    <3>2. PICK p \in Tokens : p = tokens[c].parent
      BY <3>1
    <3>3. /\ tokens[p].status \in {"consumed", "revoked"}
          /\ tokens[p].user = tokens[c].user
          /\ tokens[d].parent = p => c = d
      BY <3>2, NamesAssumption DEF SessionsInv, RotatedOnce
    <3>4. p \notin Children(r)
      BY <1>2, <3>3
    <3>5. tokens'[p].status \in {"consumed", "revoked"} /\ tokens'[p].user = tokens[p].user
      BY <1>1, <3>3, <3>4
    <3>6. d \in Children(r) => tokens'[d].parent # p
      BY <1>1, <3>3
    <3>7. d \notin Children(r) => tokens'[d].parent = tokens[d].parent
      BY <1>1
    <3> QED
      BY <3>1, <3>2, <3>3, <3>5, <3>6, <3>7
  <2> QED
    BY <2>1, <2>2
<1>6. PICK touched \in SUBSET Tokens : touched = Held(r) \cup Children(r)
  BY <1>2
<1>7. /\ \A s \in touched : Private(r, s)
      /\ \A s \in Tokens \ touched : tokens'[s] = tokens[s]
  BY <1>1, <1>6, OwnRowsArePrivate
<1>8. work' = [work EXCEPT ![r] = Idle] /\ UNCHANGED <<account, challenges>>
  BY DEF RevocationCommits
<1>9. tokens' \in [Tokens -> Row]
  BY <1>1
<1> QED
  BY <1>3, <1>4, <1>5, <1>7, <1>8, <1>9, RequestCommits

LEMMA ExpiryKeepsInv ==
  ASSUME SessionsInv, NEW t \in Tokens, TokenExpires(t)
  PROVE  SessionsInv'
<1>1. tokens \in [Tokens -> Row]
  BY DEF SessionsInv, TypeOK
<1>2. tokens' = [tokens EXCEPT ![t].expired = TRUE] /\ UNCHANGED <<account, challenges, work>>
  BY DEF TokenExpires
<1>3. tokens' \in [Tokens -> Row]
  BY <1>1, <1>2 DEF Row
<1>4. \A s \in Tokens : /\ tokens'[s].status = tokens[s].status
                        /\ tokens'[s].user = tokens[s].user
                        /\ tokens'[s].parent = tokens[s].parent
  BY <1>1, <1>2 DEF Row
<1>5. RowsMoveOn /\ RowsAreCoherent'
  BY <1>4 DEF RowsMoveOn, SessionsInv, RowsAreCoherent
<1>6. RotatedOnce'
  <2>1. \A s \in Tokens : tokens[s].parent # NoToken => tokens[s].parent \in Tokens
    BY <1>1 DEF Row
  <2> QED
    BY <1>4, <2>1 DEF SessionsInv, RotatedOnce
<1>7. \A q \in Requests :
         RequestInv(q)' /\ Held(q)' = Held(q) /\ Children(q)' = Children(q)
  <2>1. \A q \in Requests : Held(q) \cup Children(q) \subseteq Tokens
    BY KindOfWork DEF SessionsInv
  <2> QED
    BY <1>2, <1>4, <1>5, <2>1, OthersKeepTheirRows
<1>8. LocksAreExclusive'
  BY <1>7 DEF SessionsInv, LocksAreExclusive
<1>9. TypeOK'
  BY <1>2, <1>3 DEF SessionsInv, TypeOK
<1> QED
  BY <1>5, <1>6, <1>7, <1>8, <1>9 DEF SessionsInv

LEMMA EnvironmentKeepsInv ==
  ASSUME SessionsInv, NEW u \in Users, BeginRegistration(u) \/ BeginLogin(u) \/ Ban(u)
  PROVE  SessionsInv'
<1>1. account \in [Users -> AccountStatus] /\ challenges \subseteq Challenge
  BY DEF SessionsInv, TypeOK
<1>2. account' \in [Users -> AccountStatus] /\ challenges' \subseteq Challenge
  BY <1>1 DEF BeginRegistration, BeginLogin, Ban, AccountStatus, Challenge
<1> QED
  BY <1>2, AccountsChange DEF BeginRegistration, BeginLogin, Ban

-----------------------------------------------------------------------------
(***************************************************************************)
(* The theorems.                                                           *)
(***************************************************************************)

LEMMA SessionsInit == Init => SessionsInv
<1> SUFFICES ASSUME Init PROVE SessionsInv
  OBVIOUS
<1>1. TypeOK
  BY DEF Init, TypeOK, AccountStatus, Absent, Row, TokenStatus
<1>2. RowsAreCoherent /\ RotatedOnce
  BY DEF Init, Absent, RowsAreCoherent, RotatedOnce
<1>3. \A r \in Requests : Held(r) = {} /\ Children(r) = {} /\ work[r].kind = "idle"
  BY DEF Init, Idle, Held, Children
<1>4. LocksAreExclusive /\ \A r \in Requests : RequestInv(r)
  BY <1>3 DEF LocksAreExclusive, RequestInv, HoldsWhatItFound, RotatesAnActiveToken,
              TracksWhatItSaw
<1> QED
  BY <1>1, <1>2, <1>4 DEF SessionsInv

LEMMA SessionsIsInvariant == Spec => []SessionsInv
<1>1. ASSUME SessionsInv, Next PROVE SessionsInv'
  <2>1. ASSUME NEW ch \in challenges, ChallengeExpires(ch) PROVE SessionsInv'
    <3>1. account' \in [Users -> AccountStatus] /\ challenges' \subseteq Challenge
      BY <1>1, <2>1 DEF ChallengeExpires, SessionsInv, TypeOK
    <3> QED
      BY <1>1, <2>1, <3>1, AccountsChange DEF ChallengeExpires
  <2>2. ASSUME NEW r \in Requests,
               \/ \E u \in Users : VerifyRegistration(r, u) \/ CompleteLogin(r, u)
               \/ StoreUser(r) \/ DeadlockVictim(r)
        PROVE  SessionsInv'
    <3>1. \A u \in Users : StoreUser(r) \/ DeadlockVictim(r) => SessionsInv'
      BY <1>1, AdmissionKeepsInv
    <3>2. CASE Users = {}
      <4>1. work[r].kind \notin {"register", "rotate", "revoke", "issue"}
        BY <1>1, <3>2, KindOfWork DEF SessionsInv, Admission, Rotation, Revocation
      <4>2. WaitsFor(r) = {}
        BY <4>1 DEF WaitsFor
      <4> QED
        BY <2>2, <3>2, <4>1, <4>2 DEF StoreUser, DeadlockVictim
    <3> QED
      BY <1>1, <2>2, <3>1, <3>2, AdmissionKeepsInv
  <2>3. ASSUME NEW r \in Requests, RefuseInactive(r) PROVE SessionsInv'
    <3>1. work[r].token \in Tokens
      BY <1>1, <2>3, KindOfWork DEF RefuseInactive, SessionsInv, Rotation
    <3> QED
      BY <1>1, <2>3, <3>1, RevocationStartsKeepInv
  <2> QED
    BY <1>1, <2>1, <2>2, <2>3, EnvironmentKeepsInv, ExpiryKeepsInv, RefreshKeepsInv,
       RevocationKeepsInv, IssueKeepsInv, RevocationStartsKeepInv, RevokeRowKeepsInv,
       RotateKeepsInv DEF Next
<1>2. ASSUME SessionsInv, UNCHANGED vars PROVE SessionsInv'
  <2>1. account' \in [Users -> AccountStatus] /\ challenges' \subseteq Challenge
    BY <1>2 DEF vars, SessionsInv, TypeOK
  <2> QED
    BY <1>2, <2>1, AccountsChange DEF vars
<1> QED
  BY <1>1, <1>2, SessionsInit, PTL DEF Spec

\* Accounts, challenges, token rows and requests keep their types.
THEOREM SessionsTypeCorrect == Spec => []TypeOK
<1>1. SessionsInv => TypeOK
  BY DEF SessionsInv
<1> QED
  BY <1>1, SessionsIsInvariant, PTL

\* A token is rotated at most once, into a token of the same user, and is no
\* longer good when its successor exists.
THEOREM TokensRotateOnce == Spec => []RotatedOnce
<1>1. SessionsInv => RotatedOnce
  BY DEF SessionsInv
<1> QED
  BY <1>1, SessionsIsInvariant, PTL

\* A revocation that is stored has revoked every token it saw when it began.
THEOREM RevocationsAreThorough == Spec => RevokesWhatItSaw
<1>1. ASSUME SessionsInv, [Next]_vars
      PROVE  [\A r \in Requests :
                work[r].kind = "revoke" /\ work'[r] = Idle =>
                   \/ \A t \in work[r].seen : tokens'[t].status = "revoked"
                   \/ tokens' = tokens]_vars
  <2> SUFFICES ASSUME NEW r \in Requests, work[r].kind = "revoke", work'[r] = Idle,
                      tokens' # tokens
               PROVE  \A t \in work[r].seen : tokens'[t].status = "revoked"
    OBVIOUS
  <2>1. work[r] # Idle /\ work \in [Requests -> Work \cup {Idle}]
    BY <1>1 DEF Idle, SessionsInv, TypeOK
  <2>2. RevocationCommits(r)
    <3>1. work' # work
      BY <2>1
    <3>2. Next
      BY <1>1, <3>1 DEF vars
    <3>3. ASSUME NEW q \in Requests \ {r} PROVE work' # [work EXCEPT ![q] = Idle]
      BY <2>1, <3>3
    <3>4. PICK q \in Requests :
             \/ RefreshAccessToken(q) \/ RevocationCommits(q)
             \/ \E t \in Tokens : IssueToken(q, t)
      BY <3>1, <3>2 DEF Next, BeginRegistration, BeginLogin, Ban, ChallengeExpires,
            TokenExpires, VerifyRegistration, CompleteLogin, StoreUser, RefuseInactive,
            DeadlockVictim, DetectReuse, RevokeRow, Rotate
    <3>5. q = r
      BY <3>3, <3>4 DEF RefreshAccessToken, RevocationCommits, IssueToken
    <3> QED
      BY <3>4, <3>5 DEF RefreshAccessToken, IssueToken
  <2>3. /\ work[r] \in Revocation /\ work[r].todo = {} /\ Held(r) = work[r].held
        /\ \A t \in Held(r) : tokens'[t].status = "revoked"
        /\ \A t \in Tokens \ (Held(r) \cup Children(r)) : tokens'[t] = tokens[t]
    BY <1>1, <2>2, RevocationStores
  <2>4. ASSUME NEW t \in work[r].seen PROVE tokens'[t].status = "revoked"
    <3>1. t \in Tokens
      BY <2>3 DEF Revocation
    <3>2. /\ tokens[t].status # "none"
          /\ t \in work[r].held \/ tokens[t].status = "revoked"
      BY <1>1, <2>3 DEF SessionsInv, RequestInv, TracksWhatItSaw
    <3>3. t \notin Children(r)
      BY <1>1, <3>2 DEF SessionsInv, RequestInv, HoldsWhatItFound
    <3> QED
      BY <2>3, <3>1, <3>2, <3>3
  <2> QED
    BY <2>4
<1> QED
  BY <1>1, SessionsIsInvariant, PTL DEF Spec, RevokesWhatItSaw

=============================================================================
