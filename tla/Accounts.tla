------------------------------ MODULE Accounts ------------------------------
(***************************************************************************)
(* The accounts of apps/auth: registration, profile, password, login and   *)
(* deactivation of users, several requests at a time on the table users.   *)
(*                                                                         *)
(* A handler reads the row, decides on the copy it read (validation, the   *)
(* hash of the password) and writes in a later statement; a registration   *)
(* holds its unique keys from the INSERT to the COMMIT.  A request is a    *)
(* slot of Req.  The phone is left out: it is a third unique name.  What   *)
(* happens to a session after its INSERT is AuthSessions, which also takes *)
(* the deactivation apart.                                                 *)
(***************************************************************************)
EXTENDS Naturals

CONSTANTS
    User,       \* bound: the accounts ever created, and their subjects
    Name,       \* usernames
    Address,    \* emails
    Password,
    Omitted,    \* a field that a body leaves out
    Req         \* requests in flight

ASSUME OmittedAssumption == Omitted \notin Name \cup Address

VARIABLES
    users,      \* the rows of users
    had,        \* history: the passwords that each account has had
    req         \* the requests in flight

vars == <<users, had, req>>

-----------------------------------------------------------------------------
Row == [is_active : BOOLEAN, username : Name, email : Address, password_hash : Password]
NoRow == [is_active |-> FALSE]

\* pc names the statement that is next; row is what the request will insert or
\* write, verified the password that the row had when the request compared it.
Request ==
    [pc : {"insert", "provision", "updateUser"}, user : User, username : Name, email : Address,
     password : Password]
    \cup [pc : {"createSession"}, user : User, verified : Password]
    \cup [pc : {"updatePassword"}, user : User, verified : Password, password : Password]
Idle == [pc |-> "idle"]

TypeOK ==
    /\ users \in [User -> Row \cup {NoRow}]
    /\ had \in [User -> SUBSET Password]
    /\ req \in [Req -> Request \cup {Idle}]
    /\ \A r \in Req : req[r].pc \in {"insert", "provision"} => users[req[r].user] = NoRow

-----------------------------------------------------------------------------
At(r, pc) == req[r].pc = pc
Finish(r) == req' = [req EXCEPT ![r] = Idle]
Becomes(r, request) == At(r, "idle") /\ req' = [req EXCEPT ![r] = request]

\* GetUser and the handlers see active users only.
GetUser(u) == users[u].is_active

\* An index entry of another account: committed, or inserted by a transaction
\* that has not ended, for which a statement with the same key waits.
Same(a, b) == a.username = b.username \/ a.email = b.email
Taken(u, row) == \E v \in User \ {u} : users[v] # NoRow /\ Same(users[v], row)
KeysFree(r) == \A q \in Req \ {r} : At(q, "provision") => ~Same(req[q], req[r])

\* A body that does not validate, a token or a session that is not live, a hook
\* that refuses, a failed statement, a crash: what is open is rolled back.
Fail(r) ==
    /\ req[r] # Idle
    /\ Finish(r)
    /\ UNCHANGED <<users, had>>

-----------------------------------------------------------------------------
(* Registration *)

RegisterUser(r, u, n, e, w) ==
    /\ users[u] = NoRow
    /\ \A q \in Req : At(q, "insert") \/ At(q, "provision") => req[q].user # u
    /\ Becomes(r, [pc |-> "insert", user |-> u, username |-> n, email |-> e, password |-> w])
    /\ UNCHANGED <<users, had>>

\* Mutant: the unique keys concern active users only.
CreateUserMutant(r) ==
    /\ At(r, "insert")
    /\ KeysFree(r)
    /\ IF \E v \in User : GetUser(v) /\ Same(users[v], req[r])
       THEN Finish(r) ELSE req' = [req EXCEPT ![r].pc = "provision"]
    /\ UNCHANGED <<users, had>>

\* The INSERTs of CreateUser: a key that is taken is a conflict.
CreateUser(r) ==
    /\ At(r, "insert")
    /\ KeysFree(r)
    /\ IF Taken(req[r].user, req[r])
       THEN Finish(r) ELSE req' = [req EXCEPT ![r].pc = "provision"]
    /\ UNCHANGED <<users, had>>

\* The invite hook agrees and the transaction commits.
Provision(r) ==
    /\ At(r, "provision")
    /\ users' = [users EXCEPT ![req[r].user] =
         [is_active |-> TRUE, username |-> req[r].username, email |-> req[r].email,
          password_hash |-> req[r].password]]
    /\ had' = [had EXCEPT ![req[r].user] = {req[r].password}]
    /\ Finish(r)

-----------------------------------------------------------------------------
(* Login *)

\* GetUser by username, by email, or by both.
Named(u, n, e) ==
    /\ GetUser(u)
    /\ n = Omitted \/ users[u].username = n
    /\ e = Omitted \/ users[u].email = e

AuthLogin(r, n, e, w) ==
    /\ n # Omitted \/ e # Omitted
    /\ \E u \in User :
          /\ Named(u, n, e)
          /\ users[u].password_hash = w
          /\ Becomes(r, [pc |-> "createSession", user |-> u, verified |-> w])
    /\ UNCHANGED <<users, had>>

\* The row of auth_sessions; from here AuthSessions follows it.
CreateAuthSession(r) ==
    /\ At(r, "createSession")
    /\ Finish(r)
    /\ UNCHANGED <<users, had>>

-----------------------------------------------------------------------------
(* Requests of a signed-in user *)

\* The profile, of /auth/subject too: the answer is the row.
GetProfile(u) == GetUser(u) /\ UNCHANGED vars

Given(value, old) == IF value = Omitted THEN old ELSE value

\* Every field is written, with the value that was read if the body has none; a
\* body with the phone alone omits both.
UserPatch(r, u, n, e) ==
    /\ GetUser(u)
    /\ Becomes(r, [pc |-> "updateUser", user |-> u, username |-> Given(n, users[u].username),
                   email |-> Given(e, users[u].email), password |-> users[u].password_hash])
    /\ UNCHANGED <<users, had>>

\* Mutant: the UPDATE names the row by its id alone.
UpdateUserMutant(r) ==
    /\ At(r, "updateUser")
    /\ KeysFree(r)
    /\ users' = IF Taken(req[r].user, req[r]) THEN users
                ELSE [users EXCEPT ![req[r].user].username = req[r].username,
                                   ![req[r].user].email = req[r].email]
    /\ Finish(r)
    /\ UNCHANGED had

\* Mutant: the row that was read is written back whole, with its password_hash.
UpdateWholeUserMutant(r) ==
    LET u == req[r].user IN
    /\ At(r, "updateUser")
    /\ GetUser(u) => KeysFree(r)
    /\ users' = IF ~GetUser(u) \/ Taken(u, req[r]) THEN users
                ELSE [users EXCEPT ![u].username = req[r].username, ![u].email = req[r].email,
                                   ![u].password_hash = req[r].password]
    /\ Finish(r)
    /\ UNCHANGED had

UpdateUser(r) ==
    LET u == req[r].user IN
    /\ At(r, "updateUser")
    /\ GetUser(u) => KeysFree(r)
    /\ users' = IF ~GetUser(u) \/ Taken(u, req[r]) THEN users
                ELSE [users EXCEPT ![u].username = req[r].username, ![u].email = req[r].email]
    /\ Finish(r)
    /\ UNCHANGED had

UserPasswordUpdate(r, u, current, new) ==
    /\ GetUser(u)
    /\ users[u].password_hash = current
    /\ Becomes(r, [pc |-> "updatePassword", user |-> u, verified |-> current, password |-> new])
    /\ UNCHANGED <<users, had>>

UpdateUserPassword(r) ==
    LET u == req[r].user
        w == req[r].password IN
    /\ At(r, "updatePassword")
    /\ IF GetUser(u)
       THEN /\ users' = [users EXCEPT ![u].password_hash = w]
            /\ had' = [had EXCEPT ![u] = @ \cup {w}]
       ELSE UNCHANGED <<users, had>>
    /\ Finish(r)

DeactivateUser(u) ==
    /\ GetUser(u)
    /\ users' = [users EXCEPT ![u].is_active = FALSE]
    /\ UNCHANGED <<had, req>>

-----------------------------------------------------------------------------
(* The specification *)

Init ==
    /\ users = [u \in User |-> NoRow]
    /\ had = [u \in User |-> {}]
    /\ req = [r \in Req |-> Idle]

Begin(r) ==
    \/ \E u \in User, n \in Name, e \in Address, w \in Password : RegisterUser(r, u, n, e, w)
    \/ \E n \in Name \cup {Omitted}, e \in Address \cup {Omitted} :
          \/ \E w \in Password : AuthLogin(r, n, e, w)
          \/ \E u \in User : UserPatch(r, u, n, e)
    \/ \E u \in User, current, new \in Password : UserPasswordUpdate(r, u, current, new)

Progress(r) ==
    \/ CreateUser(r) \/ Provision(r) \/ CreateAuthSession(r)
    \/ UpdateUser(r) \/ UpdateUserPassword(r)

Next ==
    \/ \E r \in Req : Begin(r) \/ Progress(r) \/ Fail(r)
    \/ \E u \in User : GetProfile(u) \/ DeactivateUser(u)

Spec == Init /\ [][Next]_vars

-----------------------------------------------------------------------------
(* Properties *)

(* No two accounts, deactivated ones included, ever have a username or an  *)
(* email in common, though no handler looks before it writes and a stale   *)
(* PATCH may put back a name that was released and taken meanwhile.        *)
NamesAreUnique ==
    \A u, v \in User :
      u # v /\ users[u] # NoRow /\ users[v] # NoRow => ~Same(users[u], users[v])

(* A deactivated account stays as it is: a PATCH or a change of password   *)
(* that read the row while it was active writes nothing after.             *)
InactiveIsFrozen ==
    [][\A u \in User :
         users[u] # NoRow /\ ~users[u].is_active => users'[u] = users[u]]_vars

(* PATCHes and changes of password work on copies of the row that carry    *)
(* its hash, and overlap.  Of two changes in flight the later one wins;    *)
(* but whatever is in flight, a password is set, or set again, only by a   *)
(* change that was asked for it and had proved a password of that very     *)
(* account: no PATCH that read the row before a change undoes the change.  *)
PasswordNeedsProof ==
    [][\A u \in User :
         users[u] # NoRow /\ users'[u].password_hash # users[u].password_hash =>
           \E r \in Req : /\ At(r, "updatePassword") /\ At(r, "idle")'
                          /\ req[r].user = u
                          /\ req[r].password = users'[u].password_hash
                          /\ req[r].verified \in had[u]]_vars
=============================================================================
