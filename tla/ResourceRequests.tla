-------------------------- MODULE ResourceRequests --------------------------
(***************************************************************************)
(* The requests on the resources of projects, from the authorization to    *)
(* the answer: the handlers of databases, secrets, tags and telemetry of   *)
(* apps/api, several at a time and for several projects, while sessions    *)
(* are revoked and members change roles or are removed.                    *)
(*                                                                         *)
(* A request is a slot of Req.  Its first step is the check of the session *)
(* and of the role with the SELECT that follows it, if one does; then one  *)
(* SELECT or one transaction per step.  SecretVersions and                 *)
(* DatabaseLifecycle take these transactions apart.  Names, descriptions   *)
(* and colours are left out.                                               *)
(***************************************************************************)
EXTENDS ProjectAuthz, Integers, Sequences, FiniteSets

CONSTANTS
    Subject,       \* callers, each with one session
    Project,
    Db, Secret,    \* bound: the resources ever created
    Tag,           \* the tags users attach
    SystemTag,     \* the read-only tag that ties a database to its secret
    Req,           \* requests in flight
    Home,          \* the project in which a resource is created
    PasswordOf,    \* the secret that is created with a database
    Member,        \* the roles at the start
    Grade,         \* bound: the roles that members are given later
    Taggable,      \* bound: the resources that users tag
    MaxVersion     \* math.MaxInt32

Resource == Db \cup Secret

ASSUME MaxVersionAssumption == MaxVersion \in Nat \ {0}
ASSUME KindAssumption ==
    Db \cap Secret = {} /\ SystemTag \notin Tag /\ Taggable \subseteq Resource
ASSUME HomeAssumption ==
    /\ Home \in [Resource -> Project]
    /\ PasswordOf \in [Db -> Secret]
    /\ \A d, e \in Db : PasswordOf[d] = PasswordOf[e] => d = e
    /\ \A d \in Db : Home[PasswordOf[d]] = Home[d]
ASSUME RoleAssumption ==
    /\ Member \in [Project -> [Subject -> Role \cup {NoRole}]]
    /\ Grade \subseteq Role \ {"owner"}

VARIABLES
    session,    \* whether is_live_session still holds of the caller's session
    role,       \* project_members
    unused,     \* the ids that GenerateResourceID has not returned yet
    db,         \* dbis with their dbi_verifiers
    secret,     \* the states of a secret's versions; the last one is current
    tagged,     \* resource_tags
    req         \* the requests in flight

rows == <<unused, db, secret, tagged>>
vars == <<session, role, unused, db, secret, tagged, req>>

-----------------------------------------------------------------------------
VersionNo == 1..MaxVersion
Plain == Secret \ {PasswordOf[d] : d \in Db}

\* "running" stands for "suspended" too.
DbRow == [desired : {"running", "terminated"}, password : {"present", "absent"},
          version : VersionNo]
NoRow == [desired |-> "none", password |-> "none"]

\* StartDBInstance stands for StopDBInstance too: one route, one statement.
DbWrite == {"UpdateDBInstance", "StartDBInstance", "DeleteDBInstance"}

\* pc names the statement that is next.  What a request does not need is left
\* at version 0 or out.
Call(ops, places, targets, versions) ==
    [op : ops, pc : places, subject : Subject, project : Project,
     resource : targets, version : versions]

Request ==
    Call(DbWrite, {"write"}, Db, {0})
    \cup Call({"CreateDBInstance"}, {"create"}, Db, {0})
    \cup Call({"GetDBInstanceConnection", "RevealDBInstanceURI"},
              {"verifier", "secret"}, Db, {0})
    \cup Call({"RevealDBInstanceURI"}, {"desired", "authorize", "answer"}, Db, {0})
    \cup Call({"RevealDBInstanceURI"}, {"material"}, Db, VersionNo)
    \cup Call({"GetResourceMetricTimeseries"}, {"target", "upstream"}, Db, {0})
    \cup Call({"UpdateSecret", "DeleteSecret"}, {"write"}, Secret, {0})
    \cup Call({"DisableSecretVersion"}, {"write"}, Secret, VersionNo)
    \cup Call({"CreateSecret"}, {"create"}, Secret, {0})
    \cup Call({"GetSecret"}, {"versions"}, Secret, {0})
    \cup Call({"CreateSecretVersion"}, {"write"}, Secret, VersionNo)
    \cup Call({"RevealSecret", "RevealSecretVersion"}, {"material"}, Secret, VersionNo)
    \cup Call({"RevealSecret", "RevealSecretVersion"}, {"answer"}, Secret, {0})
    \cup Call({"ApplySecretVersion"}, {"material", "write"}, Secret, VersionNo)
    \cup [op : {"AttachResourceTag", "DetachResourceTag"}, pc : {"write"}, subject : Subject,
          project : Project, resource : Resource, tag : Tag \cup {SystemTag}]
Idle == [pc |-> "idle"]

Present(x) == IF x \in Db THEN db[x] # NoRow ELSE secret[x] # << >>

TypeOK ==
    /\ session \in [Subject -> BOOLEAN]
    /\ role \in [Project -> [Subject -> Role \cup {NoRole}]]
    /\ unused \subseteq {x \in Resource : ~Present(x)}
    /\ db \in [Db -> DbRow \cup {NoRow}]
    /\ secret \in [Secret -> Seq({"active", "disabled"})]
    /\ tagged \subseteq {x \in Resource : Present(x)} \X (Tag \cup {SystemTag})
    /\ req \in [Req -> Request \cup {Idle}]

-----------------------------------------------------------------------------
(* What the SELECTs find.  Each of them names the project of the caller.   *)

ResourcesOf(p) == {x \in Resource : Present(x) /\ Home[x] = p}
DatabasesOf(p) == Db \cap ResourcesOf(p)

\* Mutant: a resource is looked up by its id alone.
FoundMutant(p, x) == Present(x)

Found(p, x) == x \in ResourcesOf(p)

Current(k) == Len(secret[k])

\* dbi_verifiers of a secret that say its password is wanted.
VerifiersOf(k) == {d \in Db : db[d] # NoRow /\ PasswordOf[d] = k}
IsDatabasePasswordSecret(p, k) ==
    Found(p, k) /\ \E d \in VerifiersOf(k) : db[d].password = "present"

\* The numbers of the versions that a listing shows; none is a 404.
VersionsOf(p, k) == IF Found(p, k) THEN DOMAIN secret[k] ELSE {}
Material(p, k, v) == v \in VersionsOf(p, k)

TagsOf(x) == {t \in Tag \cup {SystemTag} : <<x, t>> \in tagged}

-----------------------------------------------------------------------------
(* A request begins: the middleware of its route asks for a live session   *)
(* if the route is a live one, the handler for a permission.               *)

\* Mutant: every route goes without the check of the session.
AuthorizedMutant(s, p, op) == Allows(role[p][s], ResourceRoute[op].action)

Authorized(s, p, op) ==
    /\ ResourceRoute[op].live => session[s]
    /\ Allows(role[p][s], ResourceRoute[op].action)

At(r, op, pc) == req[r].pc = pc /\ req[r].op = op
Finish(r) == req' = [req EXCEPT ![r] = Idle]
Goto(r, pc) == req' = [req EXCEPT ![r].pc = pc]
Learned(r, pc) == req' = [req EXCEPT ![r] = [@ EXCEPT !.pc = pc, !.version = 0]]
Reads == UNCHANGED <<session, role, unused, db, secret, tagged>>

Begin(r, s, p, op, pc, x, v) ==
    /\ Authorized(s, p, op)
    /\ req' = [req EXCEPT ![r] = [op |-> op, pc |-> pc, subject |-> s, project |-> p,
                                  resource |-> x, version |-> v]]
    /\ Reads

BeginTag(r, s, p, op, x, t) ==
    /\ Authorized(s, p, op)
    /\ req' = [req EXCEPT ![r] = [op |-> op, pc |-> "write", subject |-> s, project |-> p,
                                  resource |-> x, tag |-> t]]
    /\ Reads

\* A request whose one SELECT is its answer begins and ends in one step.
Shows(s, p, op) == Authorized(s, p, op) /\ UNCHANGED vars

\* A timeout, a lost connection, a crash, a body that does not parse, a hook
\* that refuses: the transaction, if any, is rolled back.
Fail(r) ==
    /\ Finish(r)
    /\ Reads

-----------------------------------------------------------------------------
(* Databases *)

\* The ids of the database and of its secret are generated before the
\* transaction; the password is encrypted for version 1.
CreateDBInstance(r, s, p, d) ==
    /\ {d, PasswordOf[d]} \subseteq unused
    /\ Home[d] = p
    /\ \A q \in Req : req[q].pc = "create" => req[q].resource # d
    /\ Begin(r, s, p, "CreateDBInstance", "create", d, 0)

CreateDatabase(r) ==
    LET d == req[r].resource
        k == PasswordOf[d]
    IN
    /\ At(r, "CreateDBInstance", "create")
    /\ unused' = unused \ {d, k}
    /\ db' = [db EXCEPT ![d] = [desired |-> "running", password |-> "present", version |-> 1]]
    /\ secret' = [secret EXCEPT ![k] = <<"active">>]
    /\ tagged' = tagged \cup {<<d, SystemTag>>, <<k, SystemTag>>}
    /\ Finish(r)
    /\ UNCHANGED <<session, role>>

Missing(r) == ~Found(req[r].project, req[r].resource)

\* One UPDATE; only the name and the description change.
UpdateDatabase(r) ==
    /\ At(r, "UpdateDBInstance", "write")
    /\ Finish(r)
    /\ Reads

SetDatabaseDesiredRuntimeState(r) ==
    /\ At(r, "StartDBInstance", "write")
    /\ db' = IF Missing(r) THEN db ELSE [db EXCEPT ![req[r].resource].desired = "running"]
    /\ Finish(r)
    /\ UNCHANGED <<session, role, unused, secret, tagged>>

ClaimDatabaseTermination(r) ==
    /\ At(r, "DeleteDBInstance", "write")
    /\ db' = IF Missing(r) THEN db
             ELSE [db EXCEPT ![req[r].resource].desired = "terminated",
                             ![req[r].resource].password = "absent"]
    /\ Finish(r)
    /\ UNCHANGED <<session, role, unused, secret, tagged>>

ListDBInstances(s, p) == Shows(s, p, "ListDBInstances")

GetDBInstance(s, p, d) == Shows(s, p, "GetDBInstance") /\ d \in DatabasesOf(p)

\* GetDatabaseConnParams: the database, its verifier, its secret.
GetDBInstanceConnection(r, s, p, d) ==
    /\ Found(p, d)
    /\ Begin(r, s, p, "GetDBInstanceConnection", "verifier", d, 0)

RevealDBInstanceURI(r, s, p, d) ==
    /\ Found(p, d)
    /\ Begin(r, s, p, "RevealDBInstanceURI", "verifier", d, 0)

ReadVerifier(r) ==
    /\ req[r].pc = "verifier"
    /\ IF Missing(r) THEN Finish(r) ELSE Goto(r, "secret")
    /\ Reads

ReadPasswordSecret(r) ==
    /\ req[r].pc = "secret"
    /\ IF req[r].op = "RevealDBInstanceURI" /\ Found(req[r].project, PasswordOf[req[r].resource])
       THEN Goto(r, "desired") ELSE Finish(r)
    /\ Reads

\* GetDatabasePasswordSecretMaterial
ReadDesiredVersion(r) ==
    LET d == req[r].resource IN
    /\ req[r].pc = "desired"
    /\ IF ~Missing(r) /\ db[d].password = "present"
       THEN req' = [req EXCEPT ![r] = [@ EXCEPT !.pc = "material", !.version = db[d].version]]
       ELSE Finish(r)
    /\ Reads

\* The state of the version is looked at after the second authorization; if it
\* is not active, the request ends there whatever the authorization says.
ReadPasswordMaterial(r) ==
    LET k == PasswordOf[req[r].resource] IN
    /\ At(r, "RevealDBInstanceURI", "material")
    /\ IF Material(req[r].project, k, req[r].version) /\ secret[k][req[r].version] = "active"
       THEN Learned(r, "authorize") ELSE Finish(r)
    /\ Reads

\* Mutant: the handler trusts its first authorization.
AuthorizeRevealMutant(r) ==
    /\ req[r].pc = "authorize"
    /\ Goto(r, "answer")
    /\ Reads

AuthorizeReveal(r) ==
    /\ req[r].pc = "authorize"
    /\ IF Allows(role[req[r].project][req[r].subject], "secret.reveal")
       THEN Goto(r, "answer") ELSE Finish(r)
    /\ Reads

-----------------------------------------------------------------------------
(* Telemetry: the name of the database is read again; if it is gone by     *)
(* then, the one that was found first serves.  Prometheus answers, fails   *)
(* or takes longer than requestTimeout.                                    *)

GetResourceMetricTimeseries(r, s, p, d) ==
    /\ Found(p, d)
    /\ Begin(r, s, p, "GetResourceMetricTimeseries", "target", d, 0)

ResolveTarget(r) ==
    /\ req[r].pc = "target"
    /\ Goto(r, "upstream")
    /\ Reads

QueryRange(r) ==
    /\ req[r].pc = "upstream"
    /\ Finish(r)
    /\ Reads

QueryResourceMetric(r) == ResolveTarget(r) \/ QueryRange(r)

-----------------------------------------------------------------------------
(* Secrets *)

CreateSecret(r, s, p, k) ==
    /\ k \in Plain \cap unused
    /\ Home[k] = p
    /\ \A q \in Req : req[q].pc = "create" => req[q].resource # k
    /\ Begin(r, s, p, "CreateSecret", "create", k, 0)

CreateSecretWithInitialVersion(r) ==
    /\ At(r, "CreateSecret", "create")
    /\ unused' = unused \ {req[r].resource}
    /\ secret' = [secret EXCEPT ![req[r].resource] = <<"active">>]
    /\ Finish(r)
    /\ UNCHANGED <<session, role, db, tagged>>

ListSecrets(s, p) == Shows(s, p, "ListSecrets")

GetSecret(r, s, p, k) ==
    /\ Found(p, k)
    /\ Begin(r, s, p, "GetSecret", "versions", k, 0)

UpdateSecret(r, s, p, k) == Begin(r, s, p, "UpdateSecret", "write", k, 0)

ListSecretVersions(s, p, k) == Shows(s, p, "ListSecretVersions") /\ VersionsOf(p, k) # {}

GetSecretVersion(s, p, k, v) == Shows(s, p, "GetSecretVersion") /\ Material(p, k, v)

BeginCreateSecretVersion(r, s, p, k) ==
    /\ Found(p, k)
    /\ Current(k) < MaxVersion
    /\ Begin(r, s, p, "CreateSecretVersion", "write", k, Current(k))

BeginDisableSecretVersion(r, s, p, k, v) ==
    Begin(r, s, p, "DisableSecretVersion", "write", k, v)

RevealSecret(r, s, p, k) ==
    /\ Found(p, k)
    /\ Begin(r, s, p, "RevealSecret", "material", k, Current(k))

RevealSecretVersion(r, s, p, k, v) ==
    Begin(r, s, p, "RevealSecretVersion", "material", k, v)

GetSecretVersions(r) ==
    /\ req[r].pc = "versions"
    /\ Finish(r)
    /\ Reads

UpdateSecretMeta(r) ==
    /\ At(r, "UpdateSecret", "write")
    /\ Finish(r)
    /\ Reads

\* The version is encrypted for the number that was read, plus one.
CreateSecretVersion(r) ==
    LET k == req[r].resource IN
    /\ At(r, "CreateSecretVersion", "write")
    /\ secret' = IF Found(req[r].project, k) /\ Current(k) = req[r].version
                 THEN [secret EXCEPT ![k] = Append(@, "active")] ELSE secret
    /\ Finish(r)
    /\ UNCHANGED <<session, role, unused, db, tagged>>

MayDisable(p, k, v) ==
    /\ Material(p, k, v)
    /\ secret[k][v] = "active"
    /\ v # Current(k)
    /\ \A d \in VerifiersOf(k) : db[d].version # v

DisableSecretVersion(r) ==
    LET k == req[r].resource
        v == req[r].version
    IN
    /\ At(r, "DisableSecretVersion", "write")
    /\ secret' = IF MayDisable(req[r].project, k, v)
                 THEN [secret EXCEPT ![k][v] = "disabled"] ELSE secret
    /\ Finish(r)
    /\ UNCHANGED <<session, role, unused, db, tagged>>

\* RevealSecret has read the number of the current version, RevealSecretVersion
\* has it from its path.  A version that is not active is a conflict.
ReadMaterial(r) ==
    LET k == req[r].resource
        v == req[r].version
    IN
    /\ At(r, "RevealSecret", "material") \/ At(r, "RevealSecretVersion", "material")
    /\ IF Material(req[r].project, k, v) /\ secret[k][v] = "active"
       THEN Learned(r, "answer") ELSE Finish(r)
    /\ Reads

\* The plaintext leaves the service.
Answer(r) ==
    /\ req[r].pc = "answer"
    /\ Finish(r)
    /\ Reads

ApplySecretVersion(r, s, p, k, v) ==
    /\ IsDatabasePasswordSecret(p, k)
    /\ Begin(r, s, p, "ApplySecretVersion", "material", k, v)

ApplyReadsMaterial(r) ==
    LET k == req[r].resource
        v == req[r].version
    IN
    /\ At(r, "ApplySecretVersion", "material")
    /\ IF Material(req[r].project, k, v) /\ secret[k][v] = "active"
       THEN Goto(r, "write") ELSE Finish(r)
    /\ Reads

SetDatabasePasswordSecretVerifier(r) ==
    LET k == req[r].resource
        wanted == {d \in VerifiersOf(k) : Home[d] = req[r].project /\ db[d].password = "present"}
    IN
    /\ At(r, "ApplySecretVersion", "write")
    /\ db' = [d \in Db |-> IF d \in wanted THEN [db[d] EXCEPT !.version = req[r].version] ELSE db[d]]
    /\ Finish(r)
    /\ UNCHANGED <<session, role, unused, secret, tagged>>

\* The check of DeleteSecret, outside its transaction.
DeletableSecret(r, s, p, k) ==
    /\ Found(p, k)
    /\ ~IsDatabasePasswordSecret(p, k)
    /\ Begin(r, s, p, "DeleteSecret", "write", k, 0)

\* Mutant: the foreign key of dbi_verifiers does not restrict.
RestrictedMutant(k) == FALSE

Restricted(k) == VerifiersOf(k) # {}

DeleteSecret(r) ==
    LET k == req[r].resource IN
    /\ At(r, "DeleteSecret", "write")
    /\ IF Missing(r) \/ Restricted(k) THEN UNCHANGED <<secret, tagged>>
       ELSE /\ secret' = [secret EXCEPT ![k] = << >>]
            /\ tagged' = {a \in tagged : a[1] # k}
    /\ Finish(r)
    /\ UNCHANGED <<session, role, unused, db>>

-----------------------------------------------------------------------------
(* Tags *)

\* Mutant: the resource of an attachment is not resolved in the project.
AttachResourceTagMutant(r) ==
    /\ At(r, "AttachResourceTag", "write")
    /\ tagged' = tagged \cup {<<req[r].resource, req[r].tag>>}
    /\ Finish(r)
    /\ UNCHANGED <<session, role, unused, db, secret>>

\* A tag that the upsert finds to be a system tag rolls the attachment back.
AttachResourceTag(r) ==
    LET x == req[r].resource
        t == req[r].tag
    IN
    /\ At(r, "AttachResourceTag", "write")
    /\ tagged' = IF Missing(r) \/ t = SystemTag THEN tagged ELSE tagged \cup {<<x, t>>}
    /\ Finish(r)
    /\ UNCHANGED <<session, role, unused, db, secret>>

ListProjectTags(s, p) == Shows(s, p, "ListProjectTags")

ListResourceTags(s, p, x) == Shows(s, p, "ListResourceTags") /\ Found(p, x)

Detachable(t) == t # SystemTag

DetachResourceTag(r) ==
    LET x == req[r].resource
        t == req[r].tag
    IN
    /\ At(r, "DetachResourceTag", "write")
    /\ tagged' = IF Missing(r) \/ ~Detachable(t) THEN tagged ELSE tagged \ {<<x, t>>}
    /\ Finish(r)
    /\ UNCHANGED <<session, role, unused, db, secret>>

-----------------------------------------------------------------------------
(* The rest of the system: the auth service revokes sessions, requests of  *)
(* ProjectAccess change and remove members, a drone collects.              *)

RevokeSession(s) ==
    /\ session[s]
    /\ session' = [session EXCEPT ![s] = FALSE]
    /\ UNCHANGED <<role, unused, db, secret, tagged, req>>

Regrade(p, s, g) ==
    /\ role[p][s] \notin {"owner", g}
    /\ role' = [role EXCEPT ![p][s] = g]
    /\ UNCHANGED <<session, unused, db, secret, tagged, req>>

Collect(d) ==
    /\ db[d] # NoRow
    /\ db[d].desired = "terminated"
    /\ db[d].password = "absent"
    /\ db' = [db EXCEPT ![d] = NoRow]
    /\ secret' = [secret EXCEPT ![PasswordOf[d]] = << >>]
    /\ tagged' = {a \in tagged : a[1] \notin {d, PasswordOf[d]}}
    /\ UNCHANGED <<session, role, unused, req>>

-----------------------------------------------------------------------------
(* The specification *)

Init ==
    /\ session = [s \in Subject |-> TRUE]
    /\ role = Member
    /\ unused = Resource
    /\ db = [d \in Db |-> NoRow]
    /\ secret = [k \in Secret |-> << >>]
    /\ tagged = {}
    /\ req = [r \in Req |-> Idle]

BeginDatabase(r, s, p, d) ==
    \/ \E op \in DbWrite : Begin(r, s, p, op, "write", d, 0)
    \/ CreateDBInstance(r, s, p, d)
    \/ GetDBInstance(s, p, d)
    \/ GetDBInstanceConnection(r, s, p, d)
    \/ RevealDBInstanceURI(r, s, p, d)
    \/ GetResourceMetricTimeseries(r, s, p, d)

BeginSecret(r, s, p, k) ==
    \/ CreateSecret(r, s, p, k) \/ GetSecret(r, s, p, k) \/ UpdateSecret(r, s, p, k)
    \/ ListSecretVersions(s, p, k)
    \/ BeginCreateSecretVersion(r, s, p, k)
    \/ RevealSecret(r, s, p, k)
    \/ DeletableSecret(r, s, p, k)
    \/ \E v \in VersionNo :
          \/ GetSecretVersion(s, p, k, v)
          \/ BeginDisableSecretVersion(r, s, p, k, v)
          \/ RevealSecretVersion(r, s, p, k, v)
          \/ ApplySecretVersion(r, s, p, k, v)

BeginTagRequest(r, s, p, x) ==
    \/ ListResourceTags(s, p, x)
    \/ \E t \in Tag \cup {SystemTag} :
          \/ BeginTag(r, s, p, "AttachResourceTag", x, t)
          \/ BeginTag(r, s, p, "DetachResourceTag", x, t)

BeginRequest(r, s, p) ==
    /\ req[r] = Idle
    /\ \/ \E d \in Db : BeginDatabase(r, s, p, d)
       \/ \E k \in Secret : BeginSecret(r, s, p, k)
       \/ \E x \in Taggable : BeginTagRequest(r, s, p, x)
       \/ ListDBInstances(s, p) \/ ListSecrets(s, p) \/ ListProjectTags(s, p)

Progress(r) ==
    \/ CreateDatabase(r) \/ UpdateDatabase(r)
    \/ SetDatabaseDesiredRuntimeState(r) \/ ClaimDatabaseTermination(r)
    \/ ReadVerifier(r) \/ ReadPasswordSecret(r) \/ ReadDesiredVersion(r)
    \/ ReadPasswordMaterial(r) \/ AuthorizeReveal(r)
    \/ QueryResourceMetric(r)
    \/ CreateSecretWithInitialVersion(r) \/ GetSecretVersions(r) \/ UpdateSecretMeta(r)
    \/ CreateSecretVersion(r) \/ DisableSecretVersion(r) \/ ReadMaterial(r) \/ Answer(r)
    \/ ApplyReadsMaterial(r) \/ SetDatabasePasswordSecretVerifier(r) \/ DeleteSecret(r)
    \/ AttachResourceTag(r) \/ DetachResourceTag(r)

Environment ==
    \/ \E s \in Subject : RevokeSession(s)
    \/ \E p \in Project, s \in Subject, g \in Grade \cup {NoRole} : Regrade(p, s, g)
    \/ \E d \in Db : Collect(d)

Next ==
    \/ \E r \in Req, s \in Subject, p \in Project : BeginRequest(r, s, p)
    \/ \E r \in Req : req[r] # Idle /\ (Progress(r) \/ Fail(r))
    \/ Environment

Spec == Init /\ [][Next]_vars

-----------------------------------------------------------------------------
(* Properties *)

\* The places from which the next step of a request may change a row or hand
\* out a plaintext, its last authorization being behind it.
Decided(r) ==
    \/ req[r].pc \in {"write", "create", "answer"}
    \/ req[r].pc = "material" /\ req[r].op # "RevealDBInstanceURI"

DecidedFor(s) == {r \in Req : Decided(r) /\ req[r].subject = s}

(* Once somebody is no member of a project and the requests that were      *)
(* authorized before have ended, no request of his writes to it or obtains *)
(* a plaintext from it: the URI of a database asks for the permission a    *)
(* second time after the password was read.                                *)
Outside(p, s) ==
    /\ role[p][s] = NoRole
    /\ \A r \in DecidedFor(s) : req[r].project # p
OutsidersAreOut ==
    [][\A p \in Project, s \in Subject :
         Outside(p, s) /\ role'[p][s] = NoRole => Outside(p, s)']_vars

(* Once a session is revoked and its requests on live routes have ended,   *)
(* that stays so, and nothing it still has in flight or sends until its    *)
(* access token expires changes a row or obtains a plaintext.              *)
SignedOut(s) ==
    /\ ~session[s]
    /\ \A r \in Req : req[r] # Idle /\ req[r].subject = s => ~ResourceRoute[req[r].op].live
SignedOutOnlyReads ==
    [][\A s \in Subject : SignedOut(s) => SignedOut(s)' /\ DecidedFor(s)' = {}]_vars

Row(x) == IF x \in Db THEN <<db[x]>> ELSE <<secret[x]>>

(* No request reads a plaintext of, or writes to, a resource of another    *)
(* project than the one it was authorized for, whatever identifiers its    *)
(* path holds and however many statements it takes.                        *)
TenantsStayApart ==
    [][/\ \A r \in Req : req'[r] # req[r] /\ req[r] # Idle =>
            \A x \in Resource : Home[x] # req[r].project =>
                Row(x)' = Row(x) /\ TagsOf(x)' = TagsOf(x)
       /\ \A r \in Req : req'[r].pc = "answer" => Home[req'[r].resource] = req'[r].project]_vars

(* A database always has its secret, the version its verifier names and    *)
(* the read-only tag that ties the two: its creation leaves all or none,   *)
(* and no deletion of the secret and no detachment takes them away.        *)
DatabaseIsWhole ==
    \A d \in Db : db[d] # NoRow =>
        /\ db[d].version \in DOMAIN secret[PasswordOf[d]]
        /\ {<<d, SystemTag>>, <<PasswordOf[d], SystemTag>>} \subseteq tagged
=============================================================================
