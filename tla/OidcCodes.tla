------------------------------ MODULE OidcCodes -----------------------------
(***************************************************************************)
(* The authorization requests of the OIDC provider and their one-time      *)
(* codes: table oidc_auth_requests (apps/auth/internal/store/db/oidc.go)   *)
(* and the handlers /oauth2/authorize, /oauth2/login/continue and          *)
(* /oauth2/token (apps/auth/internal/transport/oidc/handler.go).           *)
(*                                                                         *)
(* As in AuthSessions, a handler is a slot of Tx that runs one SQL         *)
(* statement per step; the writes of a transaction are applied when it     *)
(* commits.  The session that an exchange inserts lives in AuthSessions;   *)
(* here it is counted.  clock_timestamp() is read by each statement, so a  *)
(* row may expire between any two of them.                                 *)
(***************************************************************************)
EXTENDS Integers, Sequences, FiniteSets

CONSTANTS
    Grant,        \* authorization requests: the rows of oidc_auth_requests
    User,
    Nobody,       \* user_id IS NULL
    Tx,           \* handlers in flight
    MaxCode       \* bound: codes generated

ASSUME ConstantsAssumption == Nobody \notin User /\ MaxCode \in Nat

VARIABLES
    account,   \* is_active and email_verified_at of users
    row,       \* oidc_auth_requests
    tx,        \* the handlers in flight
    lastCode,  \* codes are random; a code is named by its number
    answers,   \* redirects to the client, per request: a code, or Denied
    issued     \* sessions inserted by exchanges, per request

vars == <<account, row, tx, lastCode, answers, issued>>

-----------------------------------------------------------------------------
Code == 1..MaxCode
Denied == 0     \* an error redirect; also code_hash IS NULL
Account == {"unverified", "verified", "inactive"}
Status == {"unborn", "pending", "authorized", "consumed", "deleted"}

\* user_id, auth_time, code_hash and authorized_at are written together, and
\* so are code_hash = NULL and consumed_at: status says which are set.
\* shown: a browser was given the sealed request ID.
Row == [status : Status, user : User \cup {Nobody}, code : Code \cup {Denied},
        expired : BOOLEAN, shown : BOOLEAN]
Unborn == [status |-> "unborn", user |-> Nobody, code |-> Denied,
           expired |-> FALSE, shown |-> FALSE]
Pending(b) == [Unborn EXCEPT !.status = "pending", !.shown = b]

PC == {"checkUser", "authorize", "cancel", "lock", "validate", "consume"}

\* fits: client, redirect URI and PKCE verifier are those of the request.
Request == [pc : PC, grant : Grant, user : User \cup {Nobody},
            code : Code \cup {Denied}, fits : BOOLEAN]
Idle == [pc |-> "idle"]

TypeOK ==
    /\ account \in [User -> Account]
    /\ row \in [Grant -> Row]
    /\ \A g \in Grant :
          /\ row[g].status = "authorized" <=> row[g].code # Denied
          /\ row[g].status \in {"authorized", "consumed"} => row[g].user # Nobody
    /\ tx \in [Tx -> Request \cup {Idle}]
    /\ lastCode \in 0..MaxCode
    /\ answers \in [Grant -> Seq(Code \cup {Denied})]
    /\ issued \in [Grant -> Nat]

-----------------------------------------------------------------------------
(* Rows, locks and answers *)

Exists(g) == row[g].status \in {"pending", "authorized", "consumed"}

Holds(t, g) == tx[t].pc \in {"validate", "consume"} /\ tx[t].grant = g
GrantFree(g) == \A t \in Tx : ~Holds(t, g)

\* Mutant: FOR UPDATE OF request, without users.
UserFreeMutant(u) == TRUE

UserFree(u) == \A t \in Tx : tx[t].pc \in {"validate", "consume"} => tx[t].user # u

At(t, p) == tx[t].pc = p
Goto(t, p) == tx' = [tx EXCEPT ![t].pc = p]
Finish(t) == tx' = [tx EXCEPT ![t] = Idle]

Start(t, p, g, u, c, f) ==
    /\ tx[t] = Idle
    /\ tx' = [tx EXCEPT ![t] = [pc |-> p, grant |-> g, user |-> u, code |-> c, fits |-> f]]

\* Only GET /oauth2/authorize with a browser session continues a request that
\* was not shown; its failures are redirected to the client.
Direct(t) == ~row[tx[t].grant].shown
Answer(g, a) == answers' = [answers EXCEPT ![g] = Append(@, a)]
Fail(t) ==
    /\ Finish(t)
    /\ IF tx[t].pc \in {"checkUser", "authorize", "cancel"} /\ Direct(t)
       THEN Answer(tx[t].grant, Denied)
       ELSE UNCHANGED answers

-----------------------------------------------------------------------------
(* GET /oauth2/authorize *)

\* CreateOIDCPending also deletes expired rows that nobody has locked: the 100
\* oldest of the table, whose other rows may leave any of these for later.
Stale == {h \in Grant : Exists(h) /\ row[h].expired /\ GrantFree(h)}
Create(g, shown) ==
    /\ row[g] = Unborn
    /\ \E gone \in SUBSET Stale :
          row' = [h \in Grant |->
                    IF h = g THEN Pending(shown)
                    ELSE IF h \in gone THEN [row[h] EXCEPT !.status = "deleted", !.code = Denied]
                    ELSE row[h]]

\* Without a browser session: the login page gets the sealed request ID.
AuthorizeAnonymous(g) ==
    /\ Create(g, TRUE)
    /\ UNCHANGED <<account, tx, lastCode, answers, issued>>

\* With one: the handler completes the authorization itself.
AuthorizeSignedIn(t, g, u) ==
    /\ Create(g, FALSE)
    /\ Start(t, "checkUser", g, u, Denied, FALSE)
    /\ UNCHANGED <<account, lastCode, answers, issued>>

-----------------------------------------------------------------------------
(* completeAuthorization *)

\* GET or POST /oauth2/login/continue, by whoever holds the sealed request ID.
Continue(t, g, u) ==
    /\ row[g].shown
    /\ Start(t, "checkUser", g, u, Denied, FALSE)
    /\ UNCHANGED <<account, row, lastCode, answers, issued>>

\* GetOIDCActiveUser, and a fresh code for a user who may be authorized.  That
\* the browser session has ended, or that a statement fails, is in Abort.
CheckUser(t) ==
    /\ At(t, "checkUser")
    /\ \/ /\ account[tx[t].user] = "verified"
          /\ lastCode < MaxCode
          /\ lastCode' = lastCode + 1
          /\ tx' = [tx EXCEPT ![t] = [@ EXCEPT !.pc = "authorize", !.code = lastCode + 1]]
       \/ /\ account[tx[t].user] # "verified"
          /\ Goto(t, "cancel")
          /\ UNCHANGED lastCode
    /\ UNCHANGED <<account, row, answers, issued>>

\* Mutant: the WHERE clause only looks at the expiry.
MayBindMutant(t) ==
    LET g == tx[t].grant IN Exists(g) /\ ~row[g].expired /\ account[tx[t].user] # "inactive"

\* The WHERE clause of AuthorizeOIDC.
MayBind(t) ==
    LET g == tx[t].grant IN
    /\ row[g].status = "pending"
    /\ ~row[g].expired
    /\ account[tx[t].user] # "inactive"

Bound(t) ==
    [row EXCEPT ![tx[t].grant].status = "authorized",
                ![tx[t].grant].user = tx[t].user,
                ![tx[t].grant].code = tx[t].code]

\* AuthorizeOIDC.  When the answer of PostgreSQL is lost the row is written
\* and the handler fails.
Authorize(t) ==
    /\ At(t, "authorize")
    /\ \/ /\ MayBind(t)
          /\ row' = Bound(t)
          /\ \/ Answer(tx[t].grant, tx[t].code) /\ Finish(t)
             \/ Fail(t)
       \/ ~MayBind(t) /\ Fail(t) /\ UNCHANGED row
    /\ UNCHANGED <<account, lastCode, issued>>

\* rejectAuthorization: CancelOIDC deletes the row if it is still pending.
Cancel(t) ==
    LET g == tx[t].grant IN
    /\ At(t, "cancel")
    /\ \/ /\ row[g].status = "pending"
          /\ row' = [row EXCEPT ![g].status = "deleted"]
          /\ \/ Answer(g, Denied) /\ Finish(t)
             \/ Fail(t)
       \/ row[g].status # "pending" /\ Fail(t) /\ UNCHANGED row
    /\ UNCHANGED <<account, lastCode, issued>>

-----------------------------------------------------------------------------
(* POST /oauth2/token with grant_type=authorization_code *)

\* Any code that was sent, any number of times.  Other codes do not open.
Exchange(t, g, c, f) ==
    /\ answers[g] = <<c>>
    /\ Start(t, "lock", g, Nobody, c, f)
    /\ UNCHANGED <<account, row, lastCode, answers, issued>>

Has(g, c) == row[g].status = "authorized" /\ row[g].code = c

\* SELECT ... WHERE code_hash = $1 FOR UPDATE OF request, users waits for both
\* rows; only an exchange of the same code wants the first one.
LockCode(t) ==
    /\ At(t, "lock")
    /\ \/ /\ \E g \in Grant :
                /\ Has(g, tx[t].code)
                /\ GrantFree(g)
                /\ UserFree(row[g].user)
                /\ tx' = [tx EXCEPT ![t] = [@ EXCEPT !.pc = "validate", !.grant = g,
                                                     !.user = row[g].user]]
       \/ (\A g \in Grant : ~Has(g, tx[t].code)) /\ Finish(t)
    /\ UNCHANGED <<account, row, lastCode, answers, issued>>

\* Mutant: a failed attempt consumes the code.
ValidateMutant(t) ==
    LET g == tx[t].grant
        valid == tx[t].fits /\ ~row[g].expired /\ account[tx[t].user] = "verified"
    IN
    /\ At(t, "validate")
    /\ IF valid THEN Goto(t, "consume") /\ UNCHANGED row
       ELSE /\ Finish(t)
            /\ row' = [row EXCEPT ![g].status = "consumed", ![g].code = Denied]
    /\ UNCHANGED <<account, lastCode, answers, issued>>

\* The clock is read, and the row and the verifier are checked.
Validate(t) ==
    LET valid == /\ tx[t].fits
                 /\ ~row[tx[t].grant].expired
                 /\ account[tx[t].user] = "verified"
    IN
    /\ At(t, "validate")
    /\ IF valid THEN Goto(t, "consume") ELSE Finish(t)
    /\ UNCHANGED <<account, row, lastCode, answers, issued>>

\* Mutant: code_hash and consumed_at are not written.
ConsumeMutant(t) ==
    LET g == tx[t].grant IN
    /\ At(t, "consume")
    /\ Finish(t)
    /\ issued' = [issued EXCEPT ![g] = @ + 1]
    /\ UNCHANGED <<account, row, lastCode, answers>>

\* INSERT of the session, signing, UPDATE that consumes the code, COMMIT.
\* Whether the answer reaches the client changes nothing here.
Consume(t) ==
    LET g == tx[t].grant IN
    /\ At(t, "consume")
    /\ IF Has(g, tx[t].code) /\ ~row[g].expired
       THEN /\ row' = [row EXCEPT ![g].status = "consumed", ![g].code = Denied]
            /\ issued' = [issued EXCEPT ![g] = @ + 1]
       ELSE UNCHANGED <<row, issued>>
    /\ Finish(t)
    /\ UNCHANGED <<account, lastCode, answers>>

\* A statement fails, or the connection is lost: PostgreSQL rolls back.
Abort(t) ==
    /\ tx[t] # Idle
    /\ Fail(t)
    /\ UNCHANGED <<account, row, lastCode, issued>>

-----------------------------------------------------------------------------
(* Users and time *)

\* email_verified_at is written by a service outside the repository.
VerifyEmail(u) ==
    /\ account[u] = "unverified"
    /\ UserFree(u)
    /\ account' = [account EXCEPT ![u] = "verified"]
    /\ UNCHANGED <<row, tx, lastCode, answers, issued>>

\* Commit of DeactivateUser; AuthSessions has its statements.
Deactivate(u) ==
    /\ account[u] # "inactive"
    /\ UserFree(u)
    /\ account' = [account EXCEPT ![u] = "inactive"]
    /\ UNCHANGED <<row, tx, lastCode, answers, issued>>

\* expires_at passes: 15 minutes after creation, 2 after authorization.
Expire(g) ==
    /\ Exists(g)
    /\ ~row[g].expired
    /\ row' = [row EXCEPT ![g].expired = TRUE]
    /\ UNCHANGED <<account, tx, lastCode, answers, issued>>

-----------------------------------------------------------------------------
Init ==
    /\ account \in [User -> {"unverified", "verified"}]
    /\ row = [g \in Grant |-> Unborn]
    /\ tx = [t \in Tx |-> Idle]
    /\ lastCode = 0
    /\ answers = [g \in Grant |-> <<>>]
    /\ issued = [g \in Grant |-> 0]

Browse(t) ==
    \/ \E g \in Grant, u \in User : AuthorizeSignedIn(t, g, u) \/ Continue(t, g, u)
    \/ CheckUser(t) \/ Authorize(t) \/ Cancel(t)

Redeem(t) ==
    \/ \E g \in Grant, c \in Code, f \in BOOLEAN : Exchange(t, g, c, f)
    \/ LockCode(t) \/ Validate(t) \/ Consume(t)

Next ==
    \/ \E t \in Tx : Browse(t) \/ Redeem(t) \/ Abort(t)
    \/ \E g \in Grant : AuthorizeAnonymous(g) \/ Expire(g)
    \/ \E u \in User : VerifyEmail(u) \/ Deactivate(u)

Spec == Init /\ [][Next]_vars

-----------------------------------------------------------------------------
(* Properties *)

\* The client of an authorization request is answered once, with a code or an
\* error, however many browsers continue the request (handler.go
\* completeAuthorization); and at most one session is issued, only where the
\* answer was a code, whatever exchanges race or are retried (oidc.go
\* ExchangeOIDCCode).
OneAnswer ==
    \A g \in Grant :
        /\ Len(answers[g]) <= 1
        /\ issued[g] <= 1
        /\ issued[g] # 0 => \E c \in Code : answers[g] = <<c>>

\* A code ends by issuing a session or by the deletion of its expired row: a
\* failed exchange, or a later continuation, leaves it (oidc.go:232).
FailureKeepsCode ==
    [][\A g \in Grant :
          row[g].status = "authorized" /\ row'[g].code # row[g].code
             => \/ issued'[g] = issued[g] + 1 /\ row'[g].status = "consumed"
                \/ row[g].expired /\ row'[g].status = "deleted"]_vars

\* A session is issued to a user who is active and verified at that moment,
\* not only when the code was sent or validated (oidc.go FOR UPDATE).
IssuedToActive ==
    [][\A g \in Grant :
          issued'[g] # issued[g] => account[row[g].user] = "verified"]_vars

-----------------------------------------------------------------------------
(* The promise to the clients: the rows and the redirects implement        *)
(* OneTimeGrants.                                                          *)

\* A code is open while its row stores it.
Stage(g) ==
    CASE row[g].status = "unborn" -> "new"
      [] row[g].status # "unborn" /\ answers[g] = <<>> -> "asked"
      [] row[g].status # "unborn" /\ answers[g] = <<Denied>> -> "refused"
      [] OTHER -> IF issued[g] # 0 THEN "redeemed"
                  ELSE IF row[g].status = "authorized" THEN "open" ELSE "lapsed"

ClientView(g) ==
    IF Stage(g) \in {"new", "asked", "refused"} THEN [stage |-> Stage(g)]
    ELSE [stage |-> Stage(g), code |-> answers[g][1], user |-> row[g].user]

Promise == INSTANCE OneTimeGrants WITH
    grant <- [g \in Grant |-> ClientView(g)],
    sessions <- issued,
    eligible <- {u \in User : account[u] = "verified"}

(* Every step, of any interleaving of browsers, exchanges and deletions,   *)
(* makes a request, answers it, redeems its code or lets codes lapse, as   *)
(* OneTimeGrants allows, or is invisible to the client.                    *)
GrantsSpec == Promise!Spec

=============================================================================
