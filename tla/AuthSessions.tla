---------------------------- MODULE AuthSessions ----------------------------
(***************************************************************************)
(* The refresh sessions of the auth service: table auth_sessions, the      *)
(* is_active flag of users, and the request handlers that read and write   *)
(* them (apps/auth/internal/store/db/auth.go, user.go, oidc.go).           *)
(*                                                                         *)
(* A request is a slot of Tx.  It runs one SQL statement per step, at      *)
(* PostgreSQL's READ COMMITTED level:                                      *)
(*   - SELECT ... FOR UPDATE waits for the row, then reads its committed   *)
(*     version;                                                            *)
(*   - an UPDATE of several rows fixes its candidates from the rows        *)
(*     committed when the statement starts ("snapshot"), then locks them   *)
(*     one by one in an unspecified order, and re-evaluates its WHERE on   *)
(*     the version it locked;                                              *)
(*   - writes become visible, and locks are released, at commit.           *)
(* A row that a transaction has locked cannot change until it ends, so the *)
(* writes of a transaction are applied when it commits.                    *)
(*                                                                         *)
(* NOW() is the time of BEGIN for every statement of a transaction, and    *)
(* created_at defaults to it.  A request keeps the rows whose created_at   *)
(* is later than its own NOW() in the field "younger": revoking such a row *)
(* violates CHECK (revoked_at >= created_at) and rolls back.               *)
(***************************************************************************)
EXTENDS Integers, Sequences, FiniteSets

CONSTANTS
    Subject,      \* user-backed subjects
    Client,       \* OAuth clients
    Browser,      \* oauth_client_id IS NULL: a session of the login cookie
    Tx,           \* requests in flight
    Calls,        \* bound: the operations that requests of an instance call
    MaxSessions   \* bound: no request that could insert a row beyond it starts

ASSUME ConstantsAssumption == Browser \notin Client

VARIABLES
    sess,     \* auth_sessions, in insertion order; a row is named by its index
    active,   \* users.is_active
    tx,       \* the requests in flight
    closed    \* history: families that reuse detection or /oauth2/revoke closed

vars == <<sess, active, tx, closed>>

-----------------------------------------------------------------------------
Ids == Nat \ {0}
Binding == Client \cup {Browser}

Reason == {"rotated", "reuse_detected", "expired", "logout",
           "oauth_client_revoke", "user_deactivated"}

\* reason is "none" while revoked_at IS NULL; replacedBy is 0 while NULL.
\* A family is named by the row of the login that opened it.
Session == [subject : Subject, family : Ids, client : Binding,
            reason : Reason \cup {"none"}, expired : BOOLEAN,
            replacedBy : Nat]

NewSession(s, f, c) ==
    [subject |-> s, family |-> f, client |-> c, reason |-> "none",
     expired |-> FALSE, replacedBy |-> 0]

Op == {"login", "exchange", "refresh", "revokeFamily", "revokeOne",
       "revokeAll", "deactivate"}
PC == {"liveChecked", "lockUser", "insertSession", "lockSession", "lockSubject",
       "checkUser", "rotate", "markExpired", "snapshot", "update"}

\* held, todo: session rows locked, and candidates of the UPDATE not yet locked.
\* elders: the transactions in flight that began before this one.
Request == [op : Op, pc : PC, subject : Subject, client : Binding, row : Nat,
            held : SUBSET Ids, todo : SUBSET Ids,
            elders : SUBSET Tx, younger : SUBSET Ids]
Idle == [pc |-> "idle", held |-> {}]

TypeOK ==
    /\ sess \in Seq(Session)
    /\ active \in [Subject -> BOOLEAN]
    /\ tx \in [Tx -> Request \cup {Idle}]
    /\ closed \in [{"reuse_detected", "oauth_client_revoke"} -> SUBSET Ids]

-----------------------------------------------------------------------------
(* Rows and locks *)

Rows == DOMAIN sess
Unrevoked(i) == sess[i].reason = "none"
\* requireLiveSessionMiddleware and is_live_session
Live(i) == Unrevoked(i) /\ ~sess[i].expired

FamilyOf(i) == {j \in Rows : sess[j].family = sess[i].family}

RowFree(t, i) == \A u \in Tx \ {t} : i \notin tx[u].held

\* The SELECT of a refresh joins subjects, so FOR UPDATE locks that row too.
HoldsSubject(t, s) ==
    /\ tx[t].pc \in {"snapshot", "update", "checkUser", "rotate", "markExpired"}
    /\ tx[t].op = "refresh"
    /\ tx[t].subject = s
\* Mutant: FOR UPDATE OF a.
SubjectFreeMutant(t, s) == TRUE

SubjectFree(t, s) == \A u \in Tx \ {t} : ~HoldsSubject(u, s)

HoldsUser(t, s) ==
    /\ tx[t].pc \in {"snapshot", "update", "insertSession"}
    /\ tx[t].op \in {"deactivate", "exchange"}
    /\ tx[t].subject = s
\* Mutant: the exchange reads users without FOR UPDATE.
UserFreeMutant(t, s) == TRUE

UserFree(t, s) == \A u \in Tx \ {t} : ~HoldsUser(u, s)

-----------------------------------------------------------------------------
(* Requests *)

Begun(t) ==
    /\ tx[t].pc \notin {"idle", "liveChecked"}
    /\ tx[t].op # "login"

Start(t, o, p, s, c, i) ==
    /\ o \in Calls
    /\ tx[t] = Idle
    /\ tx' = [tx EXCEPT ![t] =
                [op |-> o, pc |-> p, subject |-> s, client |-> c, row |-> i,
                 held |-> {}, todo |-> {}, younger |-> {},
                 elders |-> IF p \in {"lockUser", "lockSession"}
                            THEN {u \in Tx : Begun(u)} ELSE {}]]
At(t, o, p) == tx[t].pc = p /\ tx[t].op = o
Goto(t, p) == tx' = [tx EXCEPT ![t].pc = p]

\* End of a request; the rows it created are younger than its elders.
Finish(t, rows) ==
    tx' = [u \in Tx |->
             IF u = t \/ tx[u] = Idle THEN Idle
             ELSE [tx[u] EXCEPT !.elders = @ \ {t},
                                !.younger = IF u \in tx[t].elders THEN @ \cup rows ELSE @]]

\* The bound.  Requests already started are never held back by it.
MayInsert(t) ==
    \/ tx[t].pc = "insertSession" \/ At(t, "exchange", "lockUser")
    \/ /\ tx[t].pc \in {"lockSession", "lockSubject", "checkUser", "rotate"}
       /\ Unrevoked(tx[t].row)
Room == Len(sess) + Cardinality({t \in Tx : MayInsert(t)}) < MaxSessions

Revoke(S, why) ==
    [i \in Rows |-> IF i \in S THEN [sess[i] EXCEPT !.reason = why] ELSE sess[i]]

-----------------------------------------------------------------------------
(* Login: GetUser and the password check, then the INSERT, in autocommit. *)

LoginVerified(t, s) ==
    /\ Room
    /\ active[s]
    /\ Start(t, "login", "insertSession", s, Browser, 0)
    /\ UNCHANGED <<sess, active, closed>>

\* The foreign key makes the INSERT share-lock the subjects row.
InsertLoginSession(t) ==
    LET new == Len(sess) + 1 IN
    /\ At(t, "login", "insertSession")
    /\ SubjectFree(t, tx[t].subject)
    /\ sess' = Append(sess, NewSession(tx[t].subject, new, Browser))
    /\ tx' = [u \in Tx |-> IF u = t THEN Idle
                           ELSE IF Begun(u) THEN [tx[u] EXCEPT !.younger = @ \cup {new}]
                           ELSE tx[u]]
    /\ UNCHANGED <<active, closed>>

(* Code exchange: the users row is locked FOR UPDATE and must be active.   *)
(* The authorization request and its code are the subject of OidcCodes.    *)

ExchangeBegin(t, s, c) ==
    /\ Room
    /\ Start(t, "exchange", "lockUser", s, c, 0)
    /\ UNCHANGED <<sess, active, closed>>

ExchangeLock(t) ==
    /\ At(t, "exchange", "lockUser")
    /\ UserFree(t, tx[t].subject)
    /\ IF active[tx[t].subject] THEN Goto(t, "insertSession") ELSE Finish(t, {})
    /\ UNCHANGED <<sess, active, closed>>

InsertOAuthSession(t) ==
    LET new == Len(sess) + 1 IN
    /\ At(t, "exchange", "insertSession")
    /\ SubjectFree(t, tx[t].subject)
    /\ sess' = Append(sess, NewSession(tx[t].subject, new, tx[t].client))
    /\ Finish(t, {new})
    /\ UNCHANGED <<active, closed>>

-----------------------------------------------------------------------------
(* Refresh: rotation, reuse detection and expiry. *)

RefreshBegin(t, i, c) ==
    /\ Live(i) => Room
    /\ Start(t, "refresh", "lockSession", sess[i].subject, c, i)
    /\ UNCHANGED <<sess, active, closed>>

\* Mutant: a plain SELECT.
LockSessionMutant(t) ==
    /\ At(t, "refresh", "lockSession")
    /\ Goto(t, "lockSubject")
    /\ UNCHANGED <<sess, active, closed>>

\* SELECT ... WHERE refresh_token_hash = $1 FOR UPDATE locks the session row ...
LockSession(t) ==
    /\ At(t, "refresh", "lockSession")
    /\ RowFree(t, tx[t].row)
    /\ tx' = [tx EXCEPT ![t] = [@ EXCEPT !.pc = "lockSubject", !.held = {tx[t].row}]]
    /\ UNCHANGED <<sess, active, closed>>

\* ... and then the subjects row; the row it returns selects the branch.
LockSubject(t) ==
    LET i == tx[t].row IN
    /\ At(t, "refresh", "lockSubject")
    /\ SubjectFree(t, tx[t].subject)
    /\ \/ sess[i].client # tx[t].client /\ Finish(t, {})
       \/ /\ sess[i].client = tx[t].client
          /\ Goto(t, IF ~Unrevoked(i) THEN "snapshot"
                     ELSE IF sess[i].expired THEN "markExpired" ELSE "checkUser")
    /\ UNCHANGED <<sess, active, closed>>

MarkExpired(t) ==
    /\ At(t, "refresh", "markExpired")
    /\ sess' = Revoke({tx[t].row} \cap {i \in Rows : Unrevoked(i)}, "expired")
    /\ Finish(t, {})
    /\ UNCHANGED <<active, closed>>

\* A plain SELECT of is_active: it neither locks nor waits.
CheckUser(t) ==
    /\ At(t, "refresh", "checkUser")
    /\ IF active[tx[t].subject] THEN Goto(t, "rotate") ELSE Finish(t, {})
    /\ UNCHANGED <<sess, active, closed>>

\* Mutant: the old row is left unrevoked.
RotateKeepsOld(t) ==
    LET i == tx[t].row
        new == Len(sess) + 1
    IN
    /\ At(t, "refresh", "rotate")
    /\ Unrevoked(i)
    /\ sess' = Append([sess EXCEPT ![i].replacedBy = new],
                      NewSession(sess[i].subject, sess[i].family, sess[i].client))
    /\ Finish(t, {new})
    /\ UNCHANGED <<active, closed>>

\* Mutant: family_id takes its default.
RotateNewFamily(t) ==
    LET i == tx[t].row
        new == Len(sess) + 1
    IN
    /\ At(t, "refresh", "rotate")
    /\ Unrevoked(i)
    /\ sess' = Append([sess EXCEPT ![i] = [@ EXCEPT !.reason = "rotated", !.replacedBy = new]],
                      NewSession(sess[i].subject, new, sess[i].client))
    /\ Finish(t, {new})
    /\ UNCHANGED <<active, closed>>

\* Mutant: replaced_by is not back-filled.
RotateNoBackfill(t) ==
    LET i == tx[t].row
        new == Len(sess) + 1
    IN
    /\ At(t, "refresh", "rotate")
    /\ Unrevoked(i)
    /\ sess' = Append([sess EXCEPT ![i].reason = "rotated"],
                      NewSession(sess[i].subject, sess[i].family, sess[i].client))
    /\ Finish(t, {new})
    /\ UNCHANGED <<active, closed>>

Rotate(t) ==
    LET i == tx[t].row
        new == Len(sess) + 1
    IN
    /\ At(t, "refresh", "rotate")
    /\ Unrevoked(i)
    /\ sess' = Append([sess EXCEPT ![i] = [@ EXCEPT !.reason = "rotated", !.replacedBy = new]],
                      NewSession(sess[i].subject, sess[i].family, sess[i].client))
    /\ Finish(t, {new})
    /\ UNCHANGED <<active, closed>>

-----------------------------------------------------------------------------
(* Revocation by the client or the user, and deactivation. *)

RevokeFamilyBegin(t, i, c) ==
    /\ Start(t, "revokeFamily", "lockSession", sess[i].subject, c, i)
    /\ UNCHANGED <<sess, active, closed>>

\* POST /oauth2/revoke locks the presented row, and not the subject.
RevokeFamilyLock(t) ==
    LET i == tx[t].row IN
    /\ At(t, "revokeFamily", "lockSession")
    /\ RowFree(t, i)
    /\ IF sess[i].client = tx[t].client
       THEN tx' = [tx EXCEPT ![t] = [@ EXCEPT !.pc = "snapshot", !.held = {i}]]
       ELSE Finish(t, {})
    /\ UNCHANGED <<sess, active, closed>>

\* requireLiveSessionMiddleware runs before the handler's own statement; i is
\* the session of the access token.
RequireLiveSession(t, i, o, target) ==
    /\ Live(i)
    /\ Start(t, o, "liveChecked", sess[i].subject, Browser, target)
    /\ UNCHANGED <<sess, active, closed>>

\* Logout names its own session; revoke-one any session of the subject.
RevokeOneBegin(t, i, j) ==
    /\ sess[j].subject = sess[i].subject
    /\ RequireLiveSession(t, i, "revokeOne", j)

\* Logout and revoke-one: a single UPDATE with COALESCE, in autocommit.
RevokeOne(t) ==
    LET i == tx[t].row IN
    /\ At(t, "revokeOne", "liveChecked")
    /\ RowFree(t, i)
    /\ sess' = Revoke({i} \cap {j \in Rows : Unrevoked(j)}, "logout")
    /\ Finish(t, {})
    /\ UNCHANGED <<active, closed>>

\* NOW() of RevokeAllAuthSessions, or BEGIN of DeactivateUser.
BeginLiveChecked(t, o, p) ==
    /\ At(t, o, "liveChecked")
    /\ tx' = [tx EXCEPT ![t] = [@ EXCEPT !.pc = p, !.elders = {u \in Tx : Begun(u)}]]
    /\ UNCHANGED <<sess, active, closed>>
RevokeAllBegin(t) == BeginLiveChecked(t, "revokeAll", "snapshot")
DeactivateBegin(t) == BeginLiveChecked(t, "deactivate", "lockUser")

\* Mutant: the early return leaves the transaction open.
DeactivateLockLeak(t) ==
    /\ At(t, "deactivate", "lockUser")
    /\ UserFree(t, tx[t].subject)
    /\ active[tx[t].subject]
    /\ Goto(t, "snapshot")
    /\ UNCHANGED <<sess, active, closed>>

\* UPDATE users SET is_active = false WHERE is_active: 0 rows ends the request.
DeactivateLock(t) ==
    /\ At(t, "deactivate", "lockUser")
    /\ UserFree(t, tx[t].subject)
    /\ IF active[tx[t].subject] THEN Goto(t, "snapshot") ELSE Finish(t, {})
    /\ UNCHANGED <<sess, active, closed>>

-----------------------------------------------------------------------------
(* The multi-row UPDATEs of reuse detection, /oauth2/revoke, revoke-all    *)
(* and deactivation.                                                       *)

Matches(t, i) ==
    CASE tx[t].op = "refresh"      -> i \in FamilyOf(tx[t].row) /\ Unrevoked(i)
      [] tx[t].op = "revokeFamily" -> i \in FamilyOf(tx[t].row)
      [] OTHER                     -> sess[i].subject = tx[t].subject /\ Unrevoked(i)

UpdateReason(t) ==
    CASE tx[t].op = "refresh"      -> "reuse_detected"
      [] tx[t].op = "revokeFamily" -> "oauth_client_revoke"
      [] tx[t].op = "deactivate"   -> "user_deactivated"
      [] OTHER                     -> "logout"

Snapshot(t) ==
    /\ tx[t].pc = "snapshot"
    /\ tx' = [tx EXCEPT ![t] =
                [@ EXCEPT !.pc = "update",
                          !.todo = {i \in Rows : Matches(t, i)} \ tx[t].held]]
    /\ UNCHANGED <<sess, active, closed>>

LockRow(t, i) ==
    /\ tx[t].pc = "update"
    /\ i \in tx[t].todo
    /\ RowFree(t, i)
    /\ tx' = [tx EXCEPT ![t] = [@ EXCEPT !.held = tx[t].held \cup {i},
                                         !.todo = tx[t].todo \ {i}]]
    /\ UNCHANGED <<sess, active, closed>>

\* Mutant: neither COALESCE nor WHERE revoked_at IS NULL.
RevokedMutant(t) == tx[t].held

\* COALESCE(revoke_reason, ...) and WHERE revoked_at IS NULL both keep the
\* reason of a row that is revoked already.
Revoked(t) == {i \in tx[t].held : Matches(t, i) /\ Unrevoked(i)}

UpdateDone(t) == tx[t].pc = "update" /\ tx[t].todo = {}

CommitUpdate(t) ==
    /\ UpdateDone(t)
    /\ Revoked(t) \cap tx[t].younger = {}
    /\ sess' = Revoke(Revoked(t), UpdateReason(t))
    /\ active' = IF tx[t].op = "deactivate"
                 THEN [active EXCEPT ![tx[t].subject] = FALSE] ELSE active
    /\ closed' = IF tx[t].op \in {"refresh", "revokeFamily"}
                 THEN [closed EXCEPT ![UpdateReason(t)] = @ \cup {sess[tx[t].row].family}]
                 ELSE closed
    /\ Finish(t, {})

\* ck_auth_sess_rev_aft_created fails: an error, and a rollback.
UpdateViolatesCheck(t) ==
    /\ UpdateDone(t)
    /\ Revoked(t) \cap tx[t].younger # {}
    /\ Finish(t, {})
    /\ UNCHANGED <<sess, active, closed>>

-----------------------------------------------------------------------------
(* The environment: time, lost connections, PostgreSQL's deadlock detector *)

\* expires_at passes.  Of a revoked row nothing reads it any more.
Expire(i) ==
    /\ Live(i)
    /\ sess' = [sess EXCEPT ![i].expired = TRUE]
    /\ UNCHANGED <<active, tx, closed>>

\* The request context is cancelled or the connection breaks: a rollback.
Abort(t) ==
    /\ tx[t] # Idle
    /\ Finish(t, {})
    /\ UNCHANGED <<sess, active, closed>>

WaitsFor(t, u) ==
    /\ t # u
    /\ \/ /\ tx[t].pc \in {"lockSubject", "insertSession"}
          /\ HoldsSubject(u, tx[t].subject)
       \/ /\ tx[t].pc = "update"
          /\ tx[t].todo \cap tx[u].held # {}

Blocked(S) == S # {} /\ \A t \in S : \E u \in S : WaitsFor(t, u)
OnWaitCycle(t) ==
    \E S \in SUBSET Tx : /\ t \in S /\ Blocked(S)
                         /\ \A R \in SUBSET S : Blocked(R) => R = S

DeadlockAbort(t) ==
    /\ OnWaitCycle(t)
    /\ Finish(t, {})
    /\ UNCHANGED <<sess, active, closed>>

-----------------------------------------------------------------------------
(* The specification *)

Init ==
    /\ sess = << >>
    /\ active = [s \in Subject |-> TRUE]
    /\ tx = [t \in Tx |-> Idle]
    /\ closed = [w \in {"reuse_detected", "oauth_client_revoke"} |-> {}]

Begin(t) ==
    \/ \E s \in Subject : LoginVerified(t, s)
    \/ \E s \in Subject, c \in Client : ExchangeBegin(t, s, c)
    \/ \E i \in Rows, c \in Binding : RefreshBegin(t, i, c)
    \/ \E i \in Rows, c \in Client : RevokeFamilyBegin(t, i, c)
    \/ \E i, j \in Rows : RevokeOneBegin(t, i, j)
    \/ \E i \in Rows, o \in {"revokeAll", "deactivate"} : RequireLiveSession(t, i, o, 0)

Progress(t) ==
    \/ InsertLoginSession(t)
    \/ ExchangeLock(t) \/ InsertOAuthSession(t)
    \/ LockSession(t) \/ LockSubject(t) \/ MarkExpired(t) \/ CheckUser(t) \/ Rotate(t)
    \/ RevokeFamilyLock(t) \/ RevokeOne(t)
    \/ RevokeAllBegin(t) \/ DeactivateBegin(t) \/ DeactivateLock(t)
    \/ Snapshot(t) \/ (\E i \in Rows : LockRow(t, i))
    \/ CommitUpdate(t) \/ UpdateViolatesCheck(t)

Next ==
    \/ \E t \in Tx : Begin(t) \/ Progress(t) \/ Abort(t) \/ DeadlockAbort(t)
    \/ \E i \in Rows : Expire(i)

Spec == Init /\ [][Next]_vars

\* PostgreSQL queues the waiters of a lock in order of arrival and breaks every
\* cycle of waiters; a running request sends its next statement, or fails.
Fairness ==
    /\ \A t \in Tx : SF_vars(Progress(t))
    /\ WF_vars(\E t \in Tx : DeadlockAbort(t))

FairSpec == Spec /\ Fairness

-----------------------------------------------------------------------------
(* Properties of the state *)

Families == {sess[i].family : i \in Rows}
UnrevokedOf(f) == {i \in Rows : sess[i].family = f /\ Unrevoked(i)}

(* A family never has two unrevoked rows, whatever the interleaving of its *)
(* refreshes: refreshAuthSession never meets an error of the partial       *)
(* unique index uq_auth_sess_family_active, which the model does not       *)
(* enforce.                                                                *)
OneUnrevokedPerFamily ==
    \A i, j \in Rows : /\ sess[i].family = sess[j].family
                       /\ Unrevoked(i)
                       /\ Unrevoked(j)
                       => i = j

(* What a refresh read of its row under SELECT ... FOR UPDATE still holds  *)
(* at the statement that acts on it: RowsAffected() # 1 at auth.go:242 is  *)
(* unreachable, and reuse is never punished in a row that is current.      *)
BranchStaysCurrent ==
    \A t \in Tx : tx[t] # Idle /\ tx[t].op = "refresh" =>
        /\ tx[t].pc \in {"checkUser", "rotate", "markExpired"} => Unrevoked(tx[t].row)
        /\ tx[t].pc \in {"snapshot", "update"} => ~Unrevoked(tx[t].row)

(* replaced_by links the rows of a family into one chain: it is set in     *)
(* exactly the rows revoked as rotated, leads to a later row of the same   *)
(* family, subject and client, and never twice to the same row; every row  *)
(* but the one of the login has a predecessor.                             *)
LinkIsSound(i) ==
    LET j == sess[i].replacedBy IN
    /\ i < j
    /\ j \in Rows
    /\ sess[j].family = sess[i].family
    /\ sess[j].subject = sess[i].subject
    /\ sess[j].client = sess[i].client

RotationChain ==
    /\ \A i \in Rows : sess[i].replacedBy # 0 <=> sess[i].reason = "rotated"
    /\ \A i \in Rows : sess[i].replacedBy # 0 => LinkIsSound(i)
    /\ \A i, j \in Rows : /\ sess[i].replacedBy # 0
                          /\ sess[i].replacedBy = sess[j].replacedBy
                          => i = j
    /\ \A j \in Rows : sess[j].family # j => \E i \in Rows : sess[i].replacedBy = j

(* The recursive query of ResolveBrowserSession and of                     *)
(* GetOIDCSessionAuthenticationTime: the rows from which replaced_by leads *)
(* to a given row.  MIN(created_at) over them is the authentication time.  *)
WalkBack[i \in Ids] ==
    {i} \cup UNION {WalkBack[j] : j \in {j \in Rows : /\ j < i
                                                  /\ sess[j].replacedBy = i
                                                  /\ sess[j].family = sess[i].family
                                                  /\ sess[j].subject = sess[i].subject}}

(* auth_time survives rotation: the walk back from any row of a family     *)
(* ends at the row of the login that opened it, and nothing is older.      *)
AuthTimeIsLogin ==
    \A i \in Rows : /\ sess[i].family \in WalkBack[i]
                    /\ \A j \in WalkBack[i] : sess[i].family <= j

(* A refresh that committed its answer to a reused token leaves no usable  *)
(* row in the family, whatever rotation ran beside it: the lock on the     *)
(* subjects row, which the join of the SELECT takes, orders the two.       *)
ReuseEndsFamily ==
    \A f \in closed["reuse_detected"] : UnrevokedOf(f) = {}

(* The reuse of a replaced token revokes its family: the UPDATE of reuse   *)
(* detection never fails.  Stated by apps/auth/docs/oidc-oauth.md; CHECK   *)
(* ck_auth_sess_rev_aft_created makes it fail.                             *)
ReuseAlwaysRevokes ==
    \A t \in Tx : UpdateDone(t) /\ tx[t].op = "refresh"
                  => Revoked(t) \cap tx[t].younger = {}

-----------------------------------------------------------------------------
(* Properties of the steps *)

RowIsFinal(i) ==
    ~Unrevoked(i)
    => /\ i \in DOMAIN sess'
       /\ sess'[i].reason = sess[i].reason
       /\ sess'[i].replacedBy = sess[i].replacedBy

(* A revoked row stays revoked, for its first reason: the revocations that *)
(* race (logout, reuse, deactivation, rotation) never overwrite or undo    *)
(* each other.                                                             *)
RevocationIsFinal == [][\A i \in Rows : RowIsFinal(i)]_vars

\* No login or refresh that has passed its check of is_active is in flight.
Settled(s) ==
    /\ ~active[s]
    /\ \A t \in Tx :
        /\ tx[t] # Idle
        /\ tx[t].op \in {"login", "refresh"}
        /\ tx[t].subject = s
        => tx[t].pc \notin {"insertSession", "rotate"}

(* Once the logins and refreshes that checked is_active before the         *)
(* deactivation are over, the user gets no session any more, by no route;  *)
(* an exchange holds the users row and needs no such allowance.            *)
InactiveCannotRenew ==
    [][\A s \in Subject :
        Settled(s) => /\ Settled(s)'
                      /\ \A i \in DOMAIN sess' \ Rows : sess'[i].subject # s]_vars

(* Every request ends, by an answer, an error or the deadlock detector.    *)
EveryRequestEnds == \A t \in Tx : tx[t] # Idle ~> tx[t] = Idle

-----------------------------------------------------------------------------
(* The promise to the clients: sess implements SessionFamilies. *)

(* Every step, of any interleaving, opens a family, replaces the one       *)
(* usable session of a family by a fresh one, or closes families for good. *)
Promise == INSTANCE SessionFamilies WITH
    Session <- Ids,
    heads <- [f \in Families |-> UnrevokedOf(f)],
    issued <- Rows

FamiliesSpec == Promise!Spec

=============================================================================
