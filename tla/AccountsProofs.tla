--------------------------- MODULE AccountsProofs ---------------------------
(***************************************************************************)
(* Proofs about Accounts, for any number of users, names and requests.     *)
(***************************************************************************)
EXTENDS Accounts, TLAPS

\* Two registrations in flight never create the same user.
Registering(r) == req[r].pc \in {"insert", "provision"}
UsersApart ==
    \A q, r \in Req : q # r /\ Registering(q) /\ Registering(r) => req[q].user # req[r].user

\* What a registration has inserted collides with nothing, committed or not.
KeysHeld ==
    \A r \in Req : At(r, "provision") =>
        /\ \A v \in User : users[v] # NoRow => ~Same(users[v], req[r])
        /\ \A q \in Req : q # r /\ At(q, "provision") => ~Same(req[q], req[r])

IInv == TypeOK /\ UsersApart /\ KeysHeld /\ NamesAreUnique

LEMMA RowsExist == \A x \in Row : x # NoRow
BY DEF Row, NoRow

LEMMA IdleIsNoRequest == \A x \in Request : x # Idle /\ x.pc # "idle"
BY DEF Request, Idle

LEMMA RequestFields ==
    ASSUME NEW x \in Request \cup {Idle}
    PROVE  /\ x.pc \in {"insert", "provision", "updateUser"} =>
                x.user \in User /\ x.username \in Name /\ x.email \in Address
                /\ x.password \in Password
           /\ x.pc = "createSession" => x.user \in User /\ x.verified \in Password
           /\ x.pc = "updatePassword" =>
                x.user \in User /\ x.verified \in Password /\ x.password \in Password
BY DEF Request, Idle

LEMMA ActiveIsRow ==
    ASSUME TypeOK, NEW u \in User, GetUser(u)
    PROVE  users[u] \in Row
BY DEF TypeOK, GetUser, NoRow

\* The types
-----------------------------------------------------------------------------
LEMMA TypeStep == TypeOK /\ UsersApart /\ [Next]_vars => TypeOK'
<1> SUFFICES ASSUME TypeOK, UsersApart, [Next]_vars PROVE TypeOK'
  OBVIOUS
<1> USE DEF TypeOK, Finish, Becomes, At
<1>1. ASSUME NEW r \in Req, Begin(r) PROVE TypeOK'
  <2>1. ASSUME NEW u \in User, NEW n \in Name, NEW e \in Address, NEW w \in Password,
               RegisterUser(r, u, n, e, w)
        PROVE  TypeOK'
    BY <2>1 DEF RegisterUser, Request
  <2>2. ASSUME NEW n, NEW e, NEW w \in Password, AuthLogin(r, n, e, w)
        PROVE  TypeOK'
    BY <2>2 DEF AuthLogin, Request
  <2>3. ASSUME NEW u \in User, NEW n \in Name \cup {Omitted}, NEW e \in Address \cup {Omitted},
               UserPatch(r, u, n, e)
        PROVE  TypeOK'
    <3>1. users[u] \in Row
      BY <2>3, ActiveIsRow DEF UserPatch
    <3>2. Given(n, users[u].username) \in Name /\ Given(e, users[u].email) \in Address
      BY <3>1 DEF Given, Row
    <3> QED
      BY <2>3, <3>1, <3>2 DEF UserPatch, Request, Row
  <2>4. ASSUME NEW u \in User, NEW w \in Password, NEW new \in Password,
               UserPasswordUpdate(r, u, w, new)
        PROVE  TypeOK'
    BY <2>4 DEF UserPasswordUpdate, Request
  <2> QED
    BY <1>1, <2>1, <2>2, <2>3, <2>4 DEF Begin
<1>2. ASSUME NEW r \in Req, Progress(r) PROVE TypeOK'
  <2>1. CASE CreateUser(r)
    BY <2>1 DEF CreateUser, Request, Idle
  <2>2. CASE Provision(r)
    <3>1. /\ req[r].user \in User /\ req[r].username \in Name /\ req[r].email \in Address
          /\ req[r].password \in Password
      BY <2>2, RequestFields DEF Provision
    <3>2. users' \in [User -> Row \cup {NoRow}]
      BY <2>2, <3>1 DEF Provision, Row
    <3>3. ASSUME NEW q \in Req, req'[q].pc \in {"insert", "provision"}
          PROVE  users'[req'[q].user] = NoRow
      <4>1. q # r /\ req'[q] = req[q]
        BY <2>2, <3>3 DEF Provision, Idle
      <4>2. req[q].user # req[r].user
        BY <2>2, <3>3, <4>1 DEF Provision, UsersApart, Registering
      <4> QED
        BY <2>2, <3>1, <3>3, <4>1, <4>2, RequestFields DEF Provision
    <3>4. had' \in [User -> SUBSET Password]
      BY <2>2, <3>1 DEF Provision
    <3> QED
      BY <2>2, <3>2, <3>3, <3>4 DEF Provision
  <2>3. CASE CreateAuthSession(r)
    BY <2>3 DEF CreateAuthSession, Idle
  <2>4. CASE UpdateUser(r) \/ UpdateUserPassword(r)
    <3>1. req' \in [Req -> Request \cup {Idle}] /\ \A q \in Req : q # r => req'[q] = req[q]
      BY <2>4 DEF UpdateUser, UpdateUserPassword
    <3>2. req'[r] = Idle
      BY <2>4 DEF UpdateUser, UpdateUserPassword
    <3>3. ASSUME ~GetUser(req[r].user) PROVE users' = users
      BY <2>4, <3>3 DEF UpdateUser, UpdateUserPassword
    <3>4. ASSUME GetUser(req[r].user) PROVE users' \in [User -> Row \cup {NoRow}]
      <4>1. req[r].user \in User
        BY <2>4, RequestFields DEF UpdateUser, UpdateUserPassword
      <4>2. users[req[r].user] \in Row
        BY <3>4, <4>1, ActiveIsRow
      <4>3. CASE UpdateUser(r)
        <5>1. req[r].username \in Name /\ req[r].email \in Address
          BY <4>3, RequestFields DEF UpdateUser
        <5> QED
          BY <4>1, <4>2, <4>3, <5>1 DEF UpdateUser, Row
      <4>4. CASE UpdateUserPassword(r)
        <5>1. req[r].password \in Password
          BY <4>4, RequestFields DEF UpdateUserPassword
        <5> QED
          BY <4>1, <4>2, <4>4, <5>1 DEF UpdateUserPassword, Row
      <4> QED
        BY <2>4, <4>3, <4>4
    <3>5. ASSUME NEW v \in User, users[v] = NoRow PROVE users'[v] = NoRow
      <4>1. v # req[r].user \/ ~GetUser(req[r].user)
        BY <3>5 DEF GetUser, NoRow
      <4> QED
        BY <2>4, <3>3, <3>5, <4>1 DEF UpdateUser, UpdateUserPassword
    <3>6. had' \in [User -> SUBSET Password]
      <4>1. UpdateUserPassword(r) => req[r].password \in Password
        BY RequestFields DEF UpdateUserPassword
      <4> QED
        BY <2>4, <4>1 DEF UpdateUser, UpdateUserPassword
    <3> QED
      BY <3>1, <3>2, <3>3, <3>4, <3>5, <3>6, RequestFields DEF Idle
  <2> QED
    BY <1>2, <2>1, <2>2, <2>3, <2>4 DEF Progress
<1>3. ASSUME NEW r \in Req, Fail(r) PROVE TypeOK'
  BY <1>3 DEF Fail, Idle
<1>4. ASSUME NEW u \in User, DeactivateUser(u) PROVE TypeOK'
  <2>1. users[u] \in Row /\ users[u] # NoRow
    BY <1>4, ActiveIsRow, RowsExist DEF DeactivateUser
  <2>2. users' \in [User -> Row \cup {NoRow}]
    BY <1>4, <2>1 DEF DeactivateUser, Row
  <2>3. \A v \in User : users[v] = NoRow => users'[v] = NoRow
    BY <1>4, <2>1 DEF DeactivateUser
  <2>4. \A r \in Req : req[r].pc \in {"insert", "provision"} => req[r].user \in User
    BY RequestFields
  <2> QED
    BY <1>4, <2>2, <2>3, <2>4 DEF DeactivateUser
<1> QED
  BY <1>1, <1>2, <1>3, <1>4 DEF Next, vars, GetProfile

\* Names and registrations
-----------------------------------------------------------------------------
LEMMA ApartStep == TypeOK /\ UsersApart /\ [Next]_vars => UsersApart'
<1> SUFFICES ASSUME TypeOK, UsersApart, [Next]_vars PROVE UsersApart'
  OBVIOUS
<1> USE DEF Registering
<1>1. ASSUME NEW r \in Req, Begin(r) PROVE UsersApart'
  <2>1. ASSUME NEW u \in User, NEW n \in Name, NEW e \in Address, NEW w \in Password,
               RegisterUser(r, u, n, e, w)
        PROVE  UsersApart'
    BY <2>1 DEF RegisterUser, UsersApart, TypeOK, At, Becomes
  <2>2. CASE \A q \in Req : Registering(q)' => q # r /\ req'[q] = req[q]
    BY <2>2 DEF UsersApart
  <2>3. ASSUME NEW n, NEW e, NEW w, AuthLogin(r, n, e, w)
        PROVE  \A q \in Req : Registering(q)' => q # r /\ req'[q] = req[q]
    BY <2>3 DEF AuthLogin, TypeOK, Becomes
  <2>4. ASSUME NEW u, NEW n, NEW e, UserPatch(r, u, n, e)
        PROVE  \A q \in Req : Registering(q)' => q # r /\ req'[q] = req[q]
    BY <2>4 DEF UserPatch, TypeOK, Becomes
  <2>5. ASSUME NEW u, NEW w, NEW new, UserPasswordUpdate(r, u, w, new)
        PROVE  \A q \in Req : Registering(q)' => q # r /\ req'[q] = req[q]
    BY <2>5 DEF UserPasswordUpdate, TypeOK, Becomes
  <2> QED
    BY <1>1, <2>1, <2>2, <2>3, <2>4, <2>5 DEF Begin
<1>2. CASE \A q \in Req : Registering(q)' => Registering(q) /\ req'[q].user = req[q].user
  BY <1>2 DEF UsersApart
<1>3. ASSUME NEW r \in Req, Progress(r) \/ Fail(r)
      PROVE  \A q \in Req : Registering(q)' => Registering(q) /\ req'[q].user = req[q].user
  <2>1. CASE CreateUser(r)
    BY <2>1, IdleIsNoRequest DEF CreateUser, TypeOK, At, Finish, Idle, Request
  <2>2. CASE Finish(r)
    BY <2>2 DEF Finish, TypeOK, Idle
  <2> QED
    BY <1>3, <2>1, <2>2
       DEF Progress, Fail, Provision, CreateAuthSession, UpdateUser, UpdateUserPassword
<1> QED
  BY <1>1, <1>2, <1>3 DEF Next, vars, GetProfile, DeactivateUser

\* A step that renames nobody, and one that makes no registration hold a key.
NamesStay ==
    \A v \in User : users'[v] # NoRow =>
        /\ users[v] # NoRow
        /\ users'[v].username = users[v].username
        /\ users'[v].email = users[v].email
HeldStay == \A q \in Req : At(q, "provision")' => At(q, "provision") /\ req'[q] = req[q]

LEMMA NamesStayKeep == NamesStay /\ NamesAreUnique => NamesAreUnique'
BY DEF NamesStay, NamesAreUnique, Same

LEMMA HeldStayKeep == NamesStay /\ HeldStay /\ KeysHeld => KeysHeld'
BY DEF NamesStay, HeldStay, KeysHeld, Same

\* A change that keeps the names of a row and leaves the other rows alone.
LEMMA SameNames ==
    ASSUME TypeOK, NEW u \in User, users[u] \in Row,
           NEW row, users' = [users EXCEPT ![u] = row],
           row.username = users[u].username, row.email = users[u].email
    PROVE  NamesStay
BY RowsExist DEF TypeOK, NamesStay

LEMMA OtherSteps ==
    ASSUME TypeOK, [Next]_vars,
           \A r \in Req : ~CreateUser(r) /\ ~Provision(r) /\ ~UpdateUser(r)
    PROVE  NamesStay /\ HeldStay
<1>1. CASE UNCHANGED vars
  BY <1>1 DEF vars, NamesStay, HeldStay, At
<1>2. ASSUME NEW u \in User, GetProfile(u) \/ DeactivateUser(u) PROVE NamesStay /\ HeldStay
  <2>1. CASE GetProfile(u)
    BY <2>1, <1>1 DEF GetProfile
  <2>2. CASE DeactivateUser(u)
    <3>1. users[u] \in Row
      BY <2>2, ActiveIsRow DEF DeactivateUser
    <3>2. users' = [users EXCEPT ![u] = [users[u] EXCEPT !.is_active = FALSE]]
      BY <2>2 DEF DeactivateUser
    <3>3. NamesStay
      BY <3>1, <3>2, SameNames DEF Row
    <3> QED
      BY <2>2, <3>3 DEF DeactivateUser, HeldStay, At
  <2> QED
    BY <1>2, <2>1, <2>2
<1>3. ASSUME NEW r \in Req, Begin(r) PROVE NamesStay /\ HeldStay
  <2>1. users' = users
    BY <1>3 DEF Begin, RegisterUser, AuthLogin, UserPatch, UserPasswordUpdate
  <2>2. ASSUME NEW u, NEW n, NEW e, NEW w, RegisterUser(r, u, n, e, w) PROVE HeldStay
    BY <2>2 DEF RegisterUser, Becomes, TypeOK, HeldStay, At
  <2>3. ASSUME NEW n, NEW e, NEW w, AuthLogin(r, n, e, w) PROVE HeldStay
    BY <2>3 DEF AuthLogin, Becomes, TypeOK, HeldStay, At
  <2>4. ASSUME NEW u, NEW n, NEW e, UserPatch(r, u, n, e) PROVE HeldStay
    BY <2>4 DEF UserPatch, Becomes, TypeOK, HeldStay, At
  <2>5. ASSUME NEW u, NEW w, NEW new, UserPasswordUpdate(r, u, w, new) PROVE HeldStay
    BY <2>5 DEF UserPasswordUpdate, Becomes, TypeOK, HeldStay, At
  <2> QED
    BY <1>3, <2>1, <2>2, <2>3, <2>4, <2>5 DEF Begin, NamesStay
<1>4. ASSUME NEW r \in Req, CreateAuthSession(r) \/ Fail(r) \/ UpdateUserPassword(r)
      PROVE  NamesStay /\ HeldStay
  <2>1. HeldStay
    BY <1>4 DEF CreateAuthSession, Fail, UpdateUserPassword, Finish, TypeOK, HeldStay, At, Idle
  <2>2. CASE users' = users
    BY <2>1, <2>2 DEF NamesStay
  <2>3. CASE UpdateUserPassword(r) /\ users' # users
    <3> DEFINE u == req[r].user
    <3>1. u \in User /\ GetUser(u)
      BY <2>3, RequestFields DEF UpdateUserPassword, At, TypeOK
    <3>2. users[u] \in Row
      BY <3>1, ActiveIsRow
    <3>3. users' = [users EXCEPT ![u] = [users[u] EXCEPT !.password_hash = req[r].password]]
      BY <2>3, <3>1 DEF UpdateUserPassword
    <3> QED
      BY <2>1, <3>1, <3>2, <3>3, SameNames DEF Row
  <2> QED
    BY <1>4, <2>2, <2>3 DEF CreateAuthSession, Fail
<1> QED
  BY <1>1, <1>2, <1>3, <1>4 DEF Next, Progress

LEMMA CreateUserStep ==
    ASSUME TypeOK, KeysHeld, NEW r \in Req, CreateUser(r)
    PROVE  NamesStay /\ KeysHeld'
<1>1. NamesStay
  BY DEF CreateUser, NamesStay
<1>2. CASE Finish(r)
  <2>1. HeldStay
    BY <1>2 DEF Finish, TypeOK, HeldStay, At, Idle
  <2> QED
    BY <1>1, <2>1, HeldStayKeep
<1>3. CASE req' = [req EXCEPT ![r].pc = "provision"] /\ ~Taken(req[r].user, req[r])
  <2>1. req[r].user \in User /\ users[req[r].user] = NoRow
    BY RequestFields DEF CreateUser, TypeOK, At
  <2>2. /\ req'[r].username = req[r].username
        /\ req'[r].email = req[r].email
        /\ \A q \in Req : q # r => req'[q] = req[q]
    BY <1>3, IdleIsNoRequest DEF TypeOK, Request, Idle
  <2>3. \A v \in User : users'[v] # NoRow => ~Same(users'[v], req'[r])
    BY <1>3, <2>1, <2>2 DEF CreateUser, Taken, Same
  <2>4. \A q \in Req \ {r} : At(q, "provision") => ~Same(req[q], req'[r]) /\ ~Same(req'[r], req[q])
    BY <2>2 DEF CreateUser, KeysFree, Same
  <2>5. ASSUME NEW q \in Req, At(q, "provision")', q # r
        PROVE  /\ \A v \in User : users'[v] # NoRow => ~Same(users'[v], req'[q])
               /\ \A p \in Req : p # q /\ At(p, "provision")' => ~Same(req'[p], req'[q])
    <3>1. At(q, "provision") /\ req'[q] = req[q]
      BY <2>2, <2>5 DEF At
    <3>2. \A p \in Req : p # r /\ p # q /\ At(p, "provision")' => ~Same(req'[p], req'[q])
      BY <2>2, <3>1 DEF KeysHeld, At
    <3> QED
      BY <2>4, <2>5, <3>1, <3>2 DEF KeysHeld, CreateUser
  <2>6. \A q \in Req : q # r /\ At(q, "provision")' => ~Same(req'[q], req'[r])
    BY <2>2, <2>4 DEF At
  <2> QED
    BY <1>1, <2>3, <2>5, <2>6 DEF KeysHeld
<1> QED
  BY <1>1, <1>2, <1>3 DEF CreateUser

LEMMA ProvisionStep ==
    ASSUME TypeOK, KeysHeld, NamesAreUnique, NEW r \in Req, Provision(r)
    PROVE  KeysHeld' /\ NamesAreUnique'
<1> DEFINE u == req[r].user
<1>1. u \in User
  BY RequestFields DEF Provision, TypeOK, At
<1>2. /\ users'[u].username = req[r].username
      /\ users'[u].email = req[r].email
      /\ \A v \in User : v # u => users'[v] = users[v]
  BY <1>1 DEF Provision, TypeOK
<1>3. HeldStay
  BY DEF Provision, Finish, TypeOK, HeldStay, At, Idle
<1>4. \A q \in Req : At(q, "provision")' => q # r
  BY DEF Provision, Finish, TypeOK, At, Idle
<1>5. KeysHeld'
  BY <1>2, <1>3, <1>4 DEF KeysHeld, Same, HeldStay, Provision
<1>6. \A v \in User : v # u /\ users[v] # NoRow => ~Same(users[v], users'[u]) /\ ~Same(users'[u], users[v])
  BY <1>2 DEF KeysHeld, Same, Provision
<1> QED
  BY <1>2, <1>5, <1>6 DEF NamesAreUnique

LEMMA UpdateUserStep ==
    ASSUME TypeOK, KeysHeld, NamesAreUnique, NEW r \in Req, UpdateUser(r)
    PROVE  KeysHeld' /\ NamesAreUnique'
<1> DEFINE u == req[r].user
<1>1. HeldStay /\ \A q \in Req : At(q, "provision")' => q # r
  BY DEF UpdateUser, Finish, TypeOK, HeldStay, At, Idle
<1>2. CASE users' = users
  BY <1>1, <1>2, NamesStayKeep, HeldStayKeep DEF NamesStay
<1>3. CASE users' # users
  <2>1. u \in User /\ GetUser(u) /\ KeysFree(r) /\ ~Taken(u, req[r])
    BY <1>3, RequestFields DEF UpdateUser, TypeOK, At
  <2>2. users[u] \in Row
    BY <2>1, ActiveIsRow
  <2>3. /\ users'[u].username = req[r].username
        /\ users'[u].email = req[r].email
        /\ \A v \in User : v # u => users'[v] = users[v]
    BY <1>3, <2>1, <2>2 DEF UpdateUser, TypeOK, Row
  <2>4. KeysHeld'
    BY <1>1, <2>1, <2>2, <2>3, RowsExist DEF KeysHeld, KeysFree, Same, HeldStay
  <2>5. \A v \in User : v # u /\ users[v] # NoRow => ~Same(users[v], users'[u]) /\ ~Same(users'[u], users[v])
    BY <2>1, <2>3 DEF Taken, Same
  <2> QED
    BY <2>1, <2>2, <2>3, <2>4, <2>5, RowsExist DEF NamesAreUnique
<1> QED
  BY <1>2, <1>3

LEMMA InvInit == Init => IInv
BY DEF Init, IInv, TypeOK, UsersApart, Registering, KeysHeld, NamesAreUnique, At, Idle

LEMMA InvStep == IInv /\ [Next]_vars => IInv'
<1> SUFFICES ASSUME IInv, [Next]_vars PROVE IInv'
  OBVIOUS
<1>1. TypeOK' /\ UsersApart'
  BY TypeStep, ApartStep DEF IInv
<1>2. KeysHeld' /\ NamesAreUnique'
  <2>1. CASE \E r \in Req : CreateUser(r)
    BY <2>1, CreateUserStep, NamesStayKeep DEF IInv
  <2>2. CASE \E r \in Req : Provision(r)
    BY <2>2, ProvisionStep DEF IInv
  <2>3. CASE \E r \in Req : UpdateUser(r)
    BY <2>3, UpdateUserStep DEF IInv
  <2>4. CASE \A r \in Req : ~CreateUser(r) /\ ~Provision(r) /\ ~UpdateUser(r)
    BY <2>4, OtherSteps, NamesStayKeep, HeldStayKeep DEF IInv
  <2> QED
    BY <2>1, <2>2, <2>3, <2>4
<1> QED
  BY <1>1, <1>2 DEF IInv

LEMMA Invariant == Spec => []IInv
BY InvInit, InvStep, PTL DEF Spec

\* Theorems
-----------------------------------------------------------------------------
\* The rows and the requests keep their types, and the user that a registration
\* is creating has no row until it commits.
THEOREM Typing == Spec => []TypeOK
<1>1. IInv => TypeOK
  BY DEF IInv
<1> QED
  BY <1>1, Invariant, PTL

\* No two accounts share a username or an email, whatever registrations and
\* PATCHes overlap: a row whose transaction is open holds its keys.
THEOREM NamesUnique == Spec => []NamesAreUnique
<1>1. IInv => NamesAreUnique
  BY DEF IInv
<1> QED
  BY <1>1, Invariant, PTL

\* Every write after a read names an active row, so a deactivated account never
\* changes.
THEOREM Frozen == Spec => InactiveIsFrozen
<1> DEFINE Action == \A u \in User :
                       users[u] # NoRow /\ ~users[u].is_active => users'[u] = users[u]
<1>1. IInv /\ [Next]_vars => [Action]_vars
  <2> SUFFICES ASSUME TypeOK, Next PROVE Action
    BY DEF IInv
  <2>1. ASSUME NEW r \in Req, Provision(r) PROVE Action
    BY <2>1 DEF Provision, TypeOK, At
  <2>2. ASSUME NEW r \in Req, UpdateUser(r) \/ UpdateUserPassword(r) PROVE Action
    BY <2>2 DEF UpdateUser, UpdateUserPassword, TypeOK, GetUser
  <2>3. ASSUME NEW u \in User, DeactivateUser(u) PROVE Action
    BY <2>3 DEF DeactivateUser, TypeOK, GetUser
  <2>4. CASE users' = users
    BY <2>4
  <2> QED
    BY <2>1, <2>2, <2>3, <2>4
       DEF Next, Begin, Progress, Fail, GetProfile, vars, RegisterUser, AuthLogin, UserPatch,
           UserPasswordUpdate, CreateUser, CreateAuthSession
<1> QED
  BY <1>1, Invariant, PTL DEF Spec, InactiveIsFrozen

\* What the account has now it has had, and what a request in flight proved the
\* account has had: had only grows, except for a user who has no row yet.
CurrentWasHad == \A u \in User : users[u] # NoRow => users[u].password_hash \in had[u]
Proved(r) == req[r].pc = "updatePassword" =>
                 req[r].user \in User /\ users[req[r].user] # NoRow
                 /\ req[r].verified \in had[req[r].user]
ProofsStand == CurrentWasHad /\ \A r \in Req : Proved(r)

LEMMA ProofsInit == Init => ProofsStand
BY DEF Init, ProofsStand, CurrentWasHad, Proved, Idle

\* A step that keeps the passwords, and after which request r, if it still rests
\* on a proof, rests on one that stands.
LEMMA PasswordsStay ==
    ASSUME ProofsStand, had' = had, NEW r \in Req,
           \A u \in User : users'[u] # NoRow =>
               users[u] # NoRow /\ users'[u].password_hash = users[u].password_hash,
           \A u \in User : users[u] # NoRow => users'[u] # NoRow,
           \A q \in Req : q # r => req'[q] = req[q],
           Proved(r)'
    PROVE  ProofsStand'
<1>1. CurrentWasHad'
  BY DEF ProofsStand, CurrentWasHad
<1>2. ASSUME NEW q \in Req, q # r PROVE Proved(q)'
  BY <1>2 DEF ProofsStand, Proved
<1> QED
  BY <1>1, <1>2 DEF ProofsStand

LEMMA ProofsBegin ==
    ASSUME TypeOK, ProofsStand, NEW r \in Req, Begin(r)
    PROVE  ProofsStand'
<1>1. UNCHANGED <<users, had>> /\ \A q \in Req : q # r => req'[q] = req[q]
  BY DEF Begin, RegisterUser, AuthLogin, UserPatch, UserPasswordUpdate, Becomes, TypeOK
<1>2. Proved(r)'
  <2>1. ASSUME NEW u, NEW n, NEW e, NEW w, RegisterUser(r, u, n, e, w) PROVE Proved(r)'
    BY <2>1 DEF RegisterUser, Becomes, TypeOK, Proved
  <2>2. ASSUME NEW n, NEW e, NEW w, AuthLogin(r, n, e, w) PROVE Proved(r)'
    BY <2>2 DEF AuthLogin, Becomes, TypeOK, Proved
  <2>3. ASSUME NEW u, NEW n, NEW e, UserPatch(r, u, n, e) PROVE Proved(r)'
    BY <2>3 DEF UserPatch, Becomes, TypeOK, Proved
  <2>4. ASSUME NEW u \in User, NEW w, NEW new, UserPasswordUpdate(r, u, w, new)
        PROVE  Proved(r)'
    <3>1. users[u] # NoRow /\ w \in had[u]
      BY <2>4, ActiveIsRow, RowsExist DEF UserPasswordUpdate, ProofsStand, CurrentWasHad
    <3> QED
      BY <2>4, <3>1 DEF UserPasswordUpdate, Becomes, TypeOK, Proved
  <2> QED
    BY <2>1, <2>2, <2>3, <2>4 DEF Begin
<1> QED
  BY <1>1, <1>2, PasswordsStay

\* A request that is over, and one that has no password to prove.
LEMMA NothingToProve ==
    ASSUME TypeOK, NEW r \in Req,
           Finish(r) \/ (req' = [req EXCEPT ![r].pc = "provision"] /\ req[r].pc = "insert")
    PROVE  Proved(r)' /\ \A q \in Req : q # r => req'[q] = req[q]
BY IdleIsNoRequest DEF Finish, TypeOK, Proved, Idle, Request

LEMMA ProofsProgress ==
    ASSUME TypeOK, ProofsStand, NEW r \in Req, Progress(r) \/ Fail(r)
    PROVE  ProofsStand'
<1> DEFINE u == req[r].user
<1>1. Proved(r)' /\ \A q \in Req : q # r => req'[q] = req[q]
  BY NothingToProve
     DEF Progress, Fail, At, CreateUser, Provision, CreateAuthSession, UpdateUser,
         UpdateUserPassword
<1>2. CASE UNCHANGED <<users, had>>
  BY <1>1, <1>2, PasswordsStay
<1>3. CASE Provision(r)
  <2>1. u \in User /\ users[u] = NoRow
    BY <1>3, RequestFields DEF Provision, At, TypeOK
  <2>2. CurrentWasHad'
    BY <1>3, <2>1 DEF Provision, TypeOK, ProofsStand, CurrentWasHad
  <2>3. ASSUME NEW q \in Req, q # r PROVE Proved(q)'
    BY <1>1, <1>3, <2>1, <2>3 DEF Provision, TypeOK, ProofsStand, Proved
  <2> QED
    BY <1>1, <2>2, <2>3 DEF ProofsStand
<1>4. CASE (UpdateUser(r) \/ UpdateUserPassword(r)) /\ GetUser(u)
  <2>1. u \in User
    BY <1>4, RequestFields DEF UpdateUser, UpdateUserPassword, At, TypeOK
  <2>2. users[u] \in Row /\ users[u] # NoRow
    BY <1>4, <2>1, ActiveIsRow, RowsExist
  <2>3. CASE UpdateUser(r)
    <3>1. /\ users'[u].password_hash = users[u].password_hash
          /\ users'[u].is_active
          /\ \A v \in User : v # u => users'[v] = users[v]
      BY <1>4, <2>1, <2>2, <2>3 DEF UpdateUser, TypeOK, Row, GetUser
    <3>2. users'[u] # NoRow
      BY <3>1 DEF NoRow
    <3> QED
      BY <1>1, <2>1, <2>2, <2>3, <3>1, <3>2, PasswordsStay DEF UpdateUser
  <2>4. CASE UpdateUserPassword(r)
    <3>1. /\ users'[u].password_hash \in had'[u]
          /\ users'[u].is_active
          /\ had[u] \subseteq had'[u]
          /\ \A v \in User : v # u => users'[v] = users[v] /\ had'[v] = had[v]
      BY <1>4, <2>1, <2>2, <2>4 DEF UpdateUserPassword, TypeOK, Row, GetUser
    <3>2. users'[u] # NoRow
      BY <3>1 DEF NoRow
    <3>3. CurrentWasHad'
      BY <2>1, <3>1 DEF ProofsStand, CurrentWasHad
    <3>4. ASSUME NEW q \in Req, q # r PROVE Proved(q)'
      BY <1>1, <2>1, <3>1, <3>2, <3>4 DEF ProofsStand, Proved
    <3> QED
      BY <1>1, <3>3, <3>4 DEF ProofsStand
  <2> QED
    BY <1>4, <2>3, <2>4
<1> QED
  BY <1>2, <1>3, <1>4
     DEF Progress, Fail, CreateUser, CreateAuthSession, UpdateUser, UpdateUserPassword

LEMMA ProofsStep == TypeOK /\ ProofsStand /\ [Next]_vars => ProofsStand'
<1> SUFFICES ASSUME TypeOK, ProofsStand, [Next]_vars PROVE ProofsStand'
  OBVIOUS
<1>1. ASSUME NEW u \in User, DeactivateUser(u) PROVE ProofsStand'
  <2>1. users[u] \in Row /\ users[u] # NoRow
    BY <1>1, ActiveIsRow, RowsExist DEF DeactivateUser
  <2>2. /\ users'[u] = [users[u] EXCEPT !.is_active = FALSE]
        /\ \A v \in User : v # u => users'[v] = users[v]
    BY <1>1 DEF DeactivateUser, TypeOK
  <2>3. users'[u] \in Row /\ users'[u].password_hash = users[u].password_hash
    BY <2>1, <2>2 DEF Row
  <2>4. users'[u] # NoRow
    BY <2>3, RowsExist
  <2>5. CurrentWasHad'
    BY <1>1, <2>1, <2>2, <2>3 DEF DeactivateUser, ProofsStand, CurrentWasHad
  <2>6. ASSUME NEW q \in Req PROVE Proved(q)'
    BY <1>1, <2>2, <2>4 DEF DeactivateUser, ProofsStand, Proved
  <2> QED
    BY <2>5, <2>6 DEF ProofsStand
<1>2. CASE UNCHANGED vars
  BY <1>2 DEF vars, ProofsStand, CurrentWasHad, Proved
<1> QED
  BY <1>1, <1>2, ProofsBegin, ProofsProgress DEF Next, GetProfile

\* Whatever copies of the row requests work on, its password is set only by a
\* change that proved, to this account, a password that the account had.
THEOREM PasswordsProved == Spec => PasswordNeedsProof
<1> DEFINE Action ==
      \A u \in User :
        users[u] # NoRow /\ users'[u].password_hash # users[u].password_hash =>
          \E r \in Req : /\ At(r, "updatePassword") /\ At(r, "idle")'
                         /\ req[r].user = u
                         /\ req[r].password = users'[u].password_hash
                         /\ req[r].verified \in had[u]
<1>1. IInv /\ ProofsStand /\ [Next]_vars => [Action]_vars
  <2> SUFFICES ASSUME TypeOK, ProofsStand, Next, NEW u \in User, users[u] # NoRow,
                      users'[u].password_hash # users[u].password_hash
               PROVE  \E r \in Req : /\ At(r, "updatePassword") /\ At(r, "idle")'
                                     /\ req[r].user = u
                                     /\ req[r].password = users'[u].password_hash
                                     /\ req[r].verified \in had[u]
    BY DEF IInv
  <2>1. users[u] \in Row
    BY DEF TypeOK
  <2>2. ASSUME NEW r \in Req PROVE ~Provision(r)
    BY <2>1 DEF Provision, TypeOK, At
  <2>3. ASSUME NEW r \in Req PROVE ~UpdateUser(r)
    BY <2>1 DEF UpdateUser, TypeOK, Row
  <2>4. ASSUME NEW v \in User PROVE ~DeactivateUser(v)
    BY <2>1 DEF DeactivateUser, TypeOK, Row
  <2>5. PICK r \in Req : UpdateUserPassword(r)
    BY <2>2, <2>3, <2>4
       DEF Next, Begin, Progress, Fail, GetProfile, vars, RegisterUser, AuthLogin, UserPatch,
           UserPasswordUpdate, CreateUser, CreateAuthSession
  <2>6. req[r].user = u /\ users'[u].password_hash = req[r].password
    BY <2>1, <2>5 DEF UpdateUserPassword, TypeOK, Row
  <2>7. req[r].verified \in had[u]
    BY <2>5, <2>6 DEF UpdateUserPassword, At, ProofsStand, Proved
  <2>8. At(r, "updatePassword") /\ At(r, "idle")'
    BY <2>5 DEF UpdateUserPassword, Finish, At, TypeOK, Idle
  <2> QED
    BY <2>6, <2>7, <2>8
<1>2. IInv => TypeOK
  BY DEF IInv
<1> QED
  BY <1>1, <1>2, Invariant, ProofsInit, ProofsStep, PTL DEF Spec, PasswordNeedsProof

=============================================================================
