----------------------- MODULE ResourceRequestsProofs -----------------------
(***************************************************************************)
(* Proofs of the safety properties of ResourceRequests, for any number of  *)
(* callers, projects, resources, tags and requests in flight.              *)
(*                                                                         *)
(* Every step has one of four shapes (Begins, Goes, Ends, Elsewhere).  The *)
(* invariant and the action properties are proved of the shapes, and each  *)
(* action is shown to have one.  The invariant says what a request knows   *)
(* in flight: what its path names lies in its project once it is about to  *)
(* answer or to create; a database about to be created does not exist yet; *)
(* and the version that an application is about to write exists as long as *)
(* the database does.  The last part proves the types, which rest on it.   *)
(***************************************************************************)
EXTENDS ResourceRequests, SequenceTheorems, TLAPS

Quiet == {"GetDBInstanceConnection", "GetResourceMetricTimeseries", "GetSecret"}
Loud == {"UpdateDBInstance", "StartDBInstance", "DeleteDBInstance", "CreateDBInstance",
         "RevealDBInstanceURI", "UpdateSecret", "DeleteSecret", "DisableSecretVersion",
         "CreateSecret", "CreateSecretVersion", "RevealSecret", "RevealSecretVersion",
         "ApplySecretVersion", "AttachResourceTag", "DetachResourceTag"}
Places == {"write", "create", "verifier", "secret", "desired", "authorize", "answer",
           "material", "target", "upstream", "versions"}

Slot ==
    [op : Quiet \cup Loud, pc : Places, subject : Subject, project : Project,
     resource : Resource, version : Nat]
    \cup [op : Quiet \cup Loud, pc : Places, subject : Subject, project : Project,
          resource : Resource, tag : Tag \cup {SystemTag}]
States == {"active", "disabled"}
Base == [desired : {"running", "terminated"}, password : {"present", "absent"}, version : Nat]

Typed ==
    /\ session \in [Subject -> BOOLEAN]
    /\ role \in [Project -> [Subject -> Role \cup {NoRole}]]
    /\ db \in [Db -> Base \cup {NoRow}]
    /\ secret \in [Secret -> Seq(States)]
    /\ req \in [Req -> Slot \cup {Idle}]

\* The operation, the place and the resource of a request go together.
Fixed(q) ==
    /\ q.op \in Quiet => q.pc \in {"verifier", "secret", "target", "upstream", "versions"}
    /\ q.op \in DbWrite \cup {"CreateDBInstance", "RevealDBInstanceURI"} => q.resource \in Db
    /\ q.pc = "create" => /\ Home[q.resource] = q.project
                          /\ q.op = "CreateDBInstance" \/ q.resource \in Plain
    /\ q.pc \in {"verifier", "secret"} =>
          q.op \in {"GetDBInstanceConnection", "RevealDBInstanceURI"} /\ q.resource \in Db
    /\ q.pc \in {"desired", "authorize"} => q.op = "RevealDBInstanceURI"
    /\ q.op \in {"UpdateSecret", "DeleteSecret", "DisableSecretVersion", "CreateSecret",
                 "CreateSecretVersion", "RevealSecret", "RevealSecretVersion",
                 "ApplySecretVersion"}
          => q.resource \in Secret
    /\ q.pc \in {"authorize", "answer"} => Home[q.resource] = q.project

Fresh(q) == q.pc = "create" /\ q.op = "CreateDBInstance" => q.resource \in unused
Kept(q) ==
    q.op = "ApplySecretVersion" =>
        \A d \in Db : PasswordOf[d] = q.resource =>
            /\ d \notin unused
            /\ q.pc = "write" /\ db[d] # NoRow => q.version \in DOMAIN secret[q.resource]
Knows(q) == Fixed(q) /\ Fresh(q) /\ Kept(q)

Used == \A d \in Db : db[d] # NoRow => d \notin unused
CreatesApart ==
    \A r, q \in Req : req[r].pc = "create" /\ req[q].pc = "create"
                      /\ req[r].resource = req[q].resource => r = q

Inv == /\ Typed
       /\ Used
       /\ CreatesApart
       /\ DatabaseIsWhole
       /\ \A r \in Req : req[r] # Idle => Knows(req[r])

-----------------------------------------------------------------------------
(* The shapes of a step *)

Takes(r, v) == req' = [req EXCEPT ![r] = v]

Begins(r, v) ==
    /\ req[r] = Idle
    /\ Takes(r, v)
    /\ Reads
    /\ v \in Slot
    /\ Knows(v)
    /\ Authorized(v.subject, v.project, v.op)
    /\ v.pc = "create" => \A q \in Req : req[q].pc = "create" => req[q].resource # v.resource

Goes(r, v) ==
    /\ req[r] # Idle
    /\ Takes(r, v)
    /\ Reads
    /\ v \in Slot
    /\ Knows(v)
    /\ v.op = req[r].op /\ v.subject = req[r].subject /\ v.project = req[r].project
    /\ v.pc # "create"
    /\ Decided(r)' => \/ Decided(r)
                      \/ Allows(role[v.project][v.subject], "secret.reveal")

\* What the transactions do to the rows.
RowsMove ==
    /\ unused' \subseteq unused
    /\ db' \in [Db -> Base \cup {NoRow}]
    /\ secret' \in [Secret -> Seq(States)]
    /\ Used'
    /\ \A d \in Db : db'[d] # NoRow =>
          \/ db[d] = NoRow /\ d \in unused
          \/ db[d] # NoRow /\ DOMAIN secret[PasswordOf[d]] \subseteq DOMAIN secret'[PasswordOf[d]]
    /\ DatabaseIsWhole'
    /\ \A q \in Req : req'[q] # Idle => Fresh(req[q])'

Local(p) ==
    \A x \in Resource : Home[x] # p => Row(x)' = Row(x) /\ TagsOf(x)' = TagsOf(x)

Ends(r) ==
    /\ req[r] # Idle
    /\ Finish(r)
    /\ UNCHANGED <<session, role>>
    /\ RowsMove
    /\ Local(req[r].project)

Elsewhere ==
    /\ UNCHANGED req
    /\ session' \in [Subject -> BOOLEAN] /\ \A s \in Subject : session'[s] => session[s]
    /\ role' \in [Project -> [Subject -> Role \cup {NoRole}]]
    /\ RowsMove

Shaped ==
    \/ \E r \in Req : Ends(r) \/ \E v : Begins(r, v) \/ Goes(r, v)
    \/ Elsewhere

-----------------------------------------------------------------------------
(* Facts of the constants *)

LEMMA Kinds ==
    /\ \A d \in Db : PasswordOf[d] \in Secret /\ d \notin Secret /\ PasswordOf[d] \notin Plain
    /\ \A d, e \in Db : d # PasswordOf[e] /\ (PasswordOf[d] = PasswordOf[e] => d = e)
    /\ \A d \in Db : Home[PasswordOf[d]] = Home[d]
    /\ Plain \subseteq Secret
BY KindAssumption, HomeAssumption DEF Plain, Resource

LEMMA LiveRoutes == \A op \in Loud : ResourceRoute[op].live
BY DEF Loud, ResourceRoute, Live, TokenOnly

LEMMA NoRoleMayNothing == \A a : ~Allows(NoRole, a)
BY DEF Allows, rolePermissions, NoRole

LEMMA SlotFields ==
    ASSUME NEW q \in Slot
    PROVE  /\ q # Idle
           /\ q.op \in Quiet \cup Loud /\ q.pc \in Places /\ q.pc # "idle"
           /\ q.subject \in Subject /\ q.project \in Project /\ q.resource \in Resource
BY DEF Slot, Idle, Places

LEMMA BusySlot ==
    ASSUME Inv, NEW r \in Req, req[r].pc # "idle" \/ req[r] # Idle
    PROVE  req[r] \in Slot /\ Knows(req[r]) /\ req[r] # Idle
BY DEF Inv, Typed, Idle

-----------------------------------------------------------------------------
(* The shapes keep the invariant *)

LEMMA TakeSlot ==
    ASSUME Inv, NEW r \in Req, NEW v \in Slot \cup {Idle}, Takes(r, v)
    PROVE  /\ req' \in [Req -> Slot \cup {Idle}]
           /\ req'[r] = v
           /\ \A q \in Req \ {r} : req'[q] = req[q]
BY DEF Inv, Typed, Takes

LEMMA ReadKeeps ==
    ASSUME Inv, NEW r \in Req, NEW v \in Slot, Takes(r, v), Reads, Knows(v),
           v.pc = "create" => \A q \in Req : req[q].pc = "create" => req[q].resource # v.resource
    PROVE  Inv'
<1>1. /\ req' \in [Req -> Slot \cup {Idle}] /\ req'[r] = v
      /\ \A q \in Req \ {r} : req'[q] = req[q]
  BY TakeSlot
<1>2. Typed' /\ Used' /\ DatabaseIsWhole'
  BY <1>1 DEF Inv, Typed, Used, DatabaseIsWhole, Reads
<1>3. CreatesApart'
  BY <1>1 DEF Inv, CreatesApart
<1>4. ASSUME NEW q \in Req, req'[q] # Idle PROVE Knows(req[q])'
  <2>1. Knows(req'[q])
    BY <1>1, <1>4 DEF Inv
  <2> QED
    BY <2>1 DEF Knows, Fixed, Fresh, Kept, Reads
<1> QED
  BY <1>2, <1>3, <1>4 DEF Inv

LEMMA MoveKeeps ==
    ASSUME Inv, RowsMove, req' \in [Req -> Slot \cup {Idle}],
           \A q \in Req : req'[q] \in {req[q], Idle},
           session' \in [Subject -> BOOLEAN],
           role' \in [Project -> [Subject -> Role \cup {NoRole}]]
    PROVE  Inv'
<1>1. Typed' /\ Used' /\ DatabaseIsWhole'
  BY DEF RowsMove, Typed
<1>2. CreatesApart'
  BY DEF Inv, CreatesApart, Idle
<1>3. ASSUME NEW q \in Req, req'[q] # Idle PROVE Knows(req[q])'
  <2>1. req'[q] = req[q] /\ Knows(req[q]) /\ req[q] # Idle
    BY <1>3 DEF Inv
  <2>2. Fixed(req[q])'
    BY <2>1 DEF Knows, Fixed
  <2>3. Fresh(req[q])'
    BY <1>3 DEF RowsMove
  <2>4. Kept(req[q])'
    <3> SUFFICES ASSUME req[q].op = "ApplySecretVersion", NEW d \in Db,
                        PasswordOf[d] = req[q].resource
                 PROVE  /\ d \notin unused'
                        /\ req[q].pc = "write" /\ db'[d] # NoRow
                             => req[q].version \in DOMAIN secret'[req[q].resource]
      BY <2>1 DEF Kept
    <3>1. d \notin unused
      BY <2>1 DEF Knows, Kept
    <3>2. ASSUME req[q].pc = "write", db'[d] # NoRow
          PROVE  req[q].version \in DOMAIN secret'[req[q].resource]
      <4>1. db[d] # NoRow /\ DOMAIN secret[PasswordOf[d]] \subseteq DOMAIN secret'[PasswordOf[d]]
        BY <3>1, <3>2 DEF RowsMove
      <4>2. req[q].version \in DOMAIN secret[req[q].resource]
        BY <2>1, <3>2, <4>1 DEF Knows, Kept
      <4> QED
        BY <4>1, <4>2
    <3> QED
      BY <3>1, <3>2 DEF RowsMove
  <2> QED
    BY <2>2, <2>3, <2>4 DEF Knows
<1> QED
  BY <1>1, <1>2, <1>3 DEF Inv

LEMMA ShapesKeep ==
    ASSUME Inv, Shaped
    PROVE  Inv'
<1>1. ASSUME NEW r \in Req, NEW v, Begins(r, v) PROVE Inv'
  BY <1>1, ReadKeeps DEF Begins
<1>2. ASSUME NEW r \in Req, NEW v, Goes(r, v) PROVE Inv'
  BY <1>2, ReadKeeps DEF Goes
<1>3. ASSUME NEW r \in Req, Ends(r) PROVE Inv'
  <2>1. /\ req' \in [Req -> Slot \cup {Idle}] /\ req'[r] = Idle
        /\ \A q \in Req \ {r} : req'[q] = req[q]
    BY <1>3, TakeSlot DEF Ends, Finish, Takes
  <2> QED
    BY <1>3, <2>1, MoveKeeps DEF Ends, Inv, Typed
<1>4. CASE Elsewhere
  BY <1>4, MoveKeeps DEF Elsewhere, Inv, Typed
<1> QED
  BY <1>1, <1>2, <1>3, <1>4 DEF Shaped

-----------------------------------------------------------------------------
(* What the shapes mean for the action properties *)

LEMMA OutsidersStayOut ==
    ASSUME Inv, Shaped, NEW p \in Project, NEW s \in Subject, Outside(p, s),
           role'[p][s] = NoRole
    PROVE  Outside(p, s)'
<1> SUFFICES ASSUME NEW r \in Req, Decided(r)', req'[r].subject = s PROVE req'[r].project # p
  BY DEF Outside, DecidedFor
<1>1. ASSUME NEW x \in Req, NEW v, Begins(x, v) PROVE req'[r].project # p
  <2>1. req'[x] = v /\ \A q \in Req \ {x} : req'[q] = req[q]
    BY <1>1, TakeSlot DEF Begins
  <2>2. CASE r = x
    BY <1>1, <2>1, <2>2, NoRoleMayNothing DEF Begins, Authorized, Outside
  <2>3. CASE r # x
    BY <2>1, <2>3 DEF Outside, DecidedFor, Decided
  <2> QED
    BY <2>2, <2>3
<1>2. ASSUME NEW x \in Req, NEW v, Goes(x, v) PROVE req'[r].project # p
  <2>1. req'[x] = v /\ \A q \in Req \ {x} : req'[q] = req[q]
    BY <1>2, TakeSlot DEF Goes
  <2>2. CASE r = x
    <3>1. CASE Decided(r)
      BY <1>2, <2>1, <2>2, <3>1 DEF Goes, Outside, DecidedFor
    <3>2. CASE Allows(role[v.project][v.subject], "secret.reveal")
      BY <1>2, <2>1, <2>2, <3>2, NoRoleMayNothing DEF Outside
    <3> QED
      BY <1>2, <2>2, <3>1, <3>2 DEF Goes
  <2>3. CASE r # x
    BY <2>1, <2>3 DEF Outside, DecidedFor, Decided
  <2> QED
    BY <2>2, <2>3
<1>3. ASSUME \A q \in Req : req'[q] \in {req[q], Idle} PROVE req'[r].project # p
  BY <1>3 DEF Outside, DecidedFor, Decided, Idle
<1>4. ASSUME NEW x \in Req, Ends(x) PROVE req'[r].project # p
  <2>1. \A q \in Req : req'[q] \in {req[q], Idle}
    BY <1>4, TakeSlot DEF Ends, Finish, Takes
  <2> QED
    BY <1>3, <2>1
<1>5. CASE Elsewhere
  BY <1>3, <1>5 DEF Elsewhere
<1> QED
  BY <1>1, <1>2, <1>4, <1>5 DEF Shaped

LEMMA SignedOutStays ==
    ASSUME Inv, Shaped, NEW s \in Subject, SignedOut(s)
    PROVE  SignedOut(s)' /\ DecidedFor(s)' = {}
<1>1. SignedOut(s)'
  <2>1. ASSUME NEW x \in Req, NEW v \in Slot, Takes(x, v), session' = session,
               v.subject = s => ~ResourceRoute[v.op].live
        PROVE  SignedOut(s)'
    <3>1. req'[x] = v /\ \A q \in Req \ {x} : req'[q] = req[q]
      BY <2>1, TakeSlot
    <3> QED
      BY <2>1, <3>1 DEF SignedOut
  <2>2. ASSUME NEW x \in Req, NEW v, Begins(x, v) PROVE SignedOut(s)'
    BY <2>1, <2>2 DEF Begins, Reads, Authorized, SignedOut
  <2>3. ASSUME NEW x \in Req, NEW v, Goes(x, v) PROVE SignedOut(s)'
    BY <2>1, <2>3 DEF Goes, Reads, SignedOut
  <2>4. ASSUME \A q \in Req : req'[q] \in {req[q], Idle}, ~session'[s] PROVE SignedOut(s)'
    BY <2>4 DEF SignedOut
  <2>5. ASSUME NEW x \in Req, Ends(x) PROVE SignedOut(s)'
    <3>1. \A q \in Req : req'[q] \in {req[q], Idle}
      BY <2>5, TakeSlot DEF Ends, Finish, Takes
    <3> QED
      BY <2>4, <2>5, <3>1 DEF Ends, SignedOut
  <2>6. CASE Elsewhere
    BY <2>4, <2>6 DEF Elsewhere, SignedOut
  <2> QED
    BY <2>2, <2>3, <2>5, <2>6 DEF Shaped
<1>2. ASSUME NEW r \in Req, Decided(r)', req'[r].subject = s PROVE FALSE
  <2>1. Inv'
    BY ShapesKeep
  <2>2. req'[r] # Idle
    BY <1>2 DEF Decided, Idle
  <2>3. req'[r] \in Slot /\ Fixed(req'[r])
    BY <2>1, <2>2 DEF Inv, Typed, Knows, Fixed
  <2>4. req'[r].op \in Loud
    BY <1>2, <2>3, SlotFields DEF Decided, Fixed
  <2>5. ~ResourceRoute[req'[r].op].live
    BY <1>1, <1>2, <2>2 DEF SignedOut
  <2> QED
    BY <2>4, <2>5, LiveRoutes
<1> QED
  BY <1>1, <1>2 DEF DecidedFor

LEMMA TenantsApart ==
    ASSUME Inv, Shaped
    PROVE  /\ \A r \in Req : req'[r] # req[r] /\ req[r] # Idle => Local(req[r].project)
           /\ \A r \in Req : req'[r].pc = "answer" =>
                 Home[req'[r].resource] = req'[r].project
<1>1. ASSUME NEW r \in Req, req'[r] # req[r], req[r] # Idle PROVE Local(req[r].project)
  <2>1. ASSUME Reads PROVE Local(req[r].project)
    BY <2>1 DEF Reads, Local, Row, TagsOf
  <2>2. ASSUME NEW x \in Req, Ends(x) PROVE Local(req[r].project)
    <3>1. r = x
      BY <1>1, <2>2, TakeSlot DEF Ends, Finish, Takes
    <3> QED
      BY <2>2, <3>1 DEF Ends
  <2> QED
    BY <1>1, <2>1, <2>2 DEF Shaped, Begins, Goes, Elsewhere
<1>2. ASSUME NEW r \in Req, req'[r].pc = "answer" PROVE Home[req'[r].resource] = req'[r].project
  <2>1. Inv' /\ req'[r] # Idle
    BY <1>2, ShapesKeep DEF Idle
  <2> QED
    BY <1>2, <2>1 DEF Inv, Knows, Fixed
<1> QED
  BY <1>1, <1>2

-----------------------------------------------------------------------------
(* Every action has a shape: the requests that begin *)

StartsDb(op, pc) ==
    \/ pc = "write" /\ op \in DbWrite
    \/ pc = "verifier" /\ op \in {"GetDBInstanceConnection", "RevealDBInstanceURI"}
    \/ pc = "target" /\ op = "GetResourceMetricTimeseries"
StartsSecret(op, pc) ==
    \/ pc = "write" /\ op \in {"UpdateSecret", "DeleteSecret", "DisableSecretVersion",
                               "CreateSecretVersion"}
    \/ pc = "versions" /\ op = "GetSecret"
    \/ pc = "material" /\ op \in {"RevealSecret", "RevealSecretVersion", "ApplySecretVersion"}
StartsCreate(op, p, x) ==
    /\ Home[x] = p
    /\ \/ op = "CreateDBInstance" /\ x \in Db \cap unused
       \/ op = "CreateSecret" /\ x \in Plain
    /\ \A q \in Req : req[q].pc = "create" => req[q].resource # x

LEMMA BeginShape ==
    ASSUME Inv, NEW r \in Req, NEW s \in Subject, NEW p \in Project, NEW op, NEW pc,
           NEW x \in Resource, NEW n \in Nat,
           req[r] = Idle, Begin(r, s, p, op, pc, x, n),
           \/ StartsDb(op, pc) /\ x \in Db
           \/ StartsSecret(op, pc) /\ x \in Secret
           \/ pc = "create" /\ StartsCreate(op, p, x),
           op = "ApplySecretVersion" => \A d \in Db : PasswordOf[d] = x => d \notin unused
    PROVE  Shaped
<1> DEFINE v == [op |-> op, pc |-> pc, subject |-> s, project |-> p, resource |-> x,
                 version |-> n]
<1>1. op \in Quiet \cup Loud /\ pc \in Places
  BY DEF StartsDb, StartsSecret, StartsCreate, Quiet, Loud, Places, DbWrite
<1>2. /\ v \in Slot /\ v.op = op /\ v.pc = pc /\ v.subject = s /\ v.project = p
      /\ v.resource = x
  BY <1>1 DEF Slot
<1>3. Takes(r, v) /\ Reads /\ Authorized(s, p, op)
  BY DEF Begin, Takes
<1> HIDE DEF v
<1>4. Fixed(v)
  <2>1. CASE StartsDb(op, pc) /\ x \in Db
    BY <1>2, <2>1 DEF Fixed, StartsDb, Quiet, DbWrite
  <2>2. CASE StartsSecret(op, pc) /\ x \in Secret
    BY <1>2, <2>2 DEF Fixed, StartsSecret, Quiet, DbWrite
  <2>3. CASE pc = "create" /\ StartsCreate(op, p, x)
    BY <1>2, <2>3, Kinds DEF Fixed, StartsCreate, Quiet, DbWrite
  <2> QED
    BY <2>1, <2>2, <2>3
<1>5. Fresh(v)
  BY <1>2 DEF Fresh, StartsDb, StartsSecret, StartsCreate
<1>6. Kept(v)
  BY <1>2 DEF Kept, StartsDb, StartsSecret, StartsCreate, DbWrite
<1>7. v.pc = "create" => \A q \in Req : req[q].pc = "create" => req[q].resource # v.resource
  BY <1>2 DEF StartsDb, StartsSecret, StartsCreate
<1> QED
  BY <1>2, <1>3, <1>4, <1>5, <1>6, <1>7 DEF Begins, Shaped, Knows

LEMMA CreateShape ==
    ASSUME Inv, NEW r \in Req, NEW s \in Subject, NEW p \in Project, NEW op,
           NEW x \in Resource, req[r] = Idle, Begin(r, s, p, op, "create", x, 0),
           StartsCreate(op, p, x)
    PROVE  Shaped
<1>1. op # "ApplySecretVersion"
  BY DEF StartsCreate
<1> QED
  BY <1>1, BeginShape

LEMMA BeginTagShape ==
    ASSUME Inv, NEW r \in Req, NEW s \in Subject, NEW p \in Project,
           NEW op \in {"AttachResourceTag", "DetachResourceTag"}, NEW x \in Resource,
           NEW t \in Tag \cup {SystemTag}, req[r] = Idle, BeginTag(r, s, p, op, x, t)
    PROVE  Shaped
<1> DEFINE v == [op |-> op, pc |-> "write", subject |-> s, project |-> p, resource |-> x,
                 tag |-> t]
<1>1. v \in Slot /\ v.op = op /\ v.pc = "write" /\ v.subject = s /\ v.project = p
  BY DEF Slot, Places, Loud
<1>2. Takes(r, v) /\ Reads /\ Authorized(s, p, op)
  BY DEF BeginTag, Takes
<1> HIDE DEF v
<1>3. Knows(v)
  BY <1>1 DEF Knows, Fixed, Fresh, Kept, Quiet, DbWrite
<1> QED
  BY <1>1, <1>2, <1>3 DEF Begins, Shaped

LEMMA BeginDatabaseShape ==
    ASSUME Inv, NEW r \in Req, NEW s \in Subject, NEW p \in Project, NEW d \in Db,
           req[r] = Idle, BeginDatabase(r, s, p, d)
    PROVE  Shaped \/ UNCHANGED vars
<1>0. d \in Resource
  BY DEF Resource
<1>1. ASSUME NEW op, NEW pc, StartsDb(op, pc), op # "ApplySecretVersion",
             Begin(r, s, p, op, pc, d, 0)
      PROVE  Shaped
  BY <1>0, <1>1, BeginShape
<1>2. ASSUME NEW op \in DbWrite, Begin(r, s, p, op, "write", d, 0) PROVE Shaped
  <2>1. StartsDb(op, "write") /\ op # "ApplySecretVersion"
    BY DEF StartsDb, DbWrite
  <2> QED
    BY <1>1, <1>2, <2>1
<1>3. CASE CreateDBInstance(r, s, p, d)
  <2>1. StartsCreate("CreateDBInstance", p, d)
    BY <1>3 DEF CreateDBInstance, StartsCreate
  <2>2. Begin(r, s, p, "CreateDBInstance", "create", d, 0)
    BY <1>3 DEF CreateDBInstance
  <2> QED
    BY <1>0, <2>1, <2>2, CreateShape
<1>4. CASE GetDBInstance(s, p, d)
  BY <1>4 DEF GetDBInstance, Shows
<1>5. CASE GetDBInstanceConnection(r, s, p, d)
  <2>1. StartsDb("GetDBInstanceConnection", "verifier")
    BY DEF StartsDb
  <2> QED
    BY <1>1, <1>5, <2>1 DEF GetDBInstanceConnection
<1>6. CASE RevealDBInstanceURI(r, s, p, d)
  <2>1. StartsDb("RevealDBInstanceURI", "verifier")
    BY DEF StartsDb
  <2> QED
    BY <1>1, <1>6, <2>1 DEF RevealDBInstanceURI
<1>7. CASE GetResourceMetricTimeseries(r, s, p, d)
  <2>1. StartsDb("GetResourceMetricTimeseries", "target")
    BY DEF StartsDb
  <2> QED
    BY <1>1, <1>7, <2>1 DEF GetResourceMetricTimeseries
<1> QED
  BY <1>2, <1>3, <1>4, <1>5, <1>6, <1>7 DEF BeginDatabase

LEMMA BeginSecretShape ==
    ASSUME Inv, NEW r \in Req, NEW s \in Subject, NEW p \in Project, NEW k \in Secret,
           req[r] = Idle, BeginSecret(r, s, p, k)
    PROVE  Shaped \/ UNCHANGED vars
<1>0. k \in Resource /\ \A v \in VersionNo : v \in Nat
  BY DEF Resource, VersionNo
<1>1. ASSUME NEW op, NEW pc, NEW n \in Nat, StartsSecret(op, pc), op # "ApplySecretVersion",
             Begin(r, s, p, op, pc, k, n)
      PROVE  Shaped
  BY <1>0, <1>1, BeginShape
<1>2. Current(k) \in Nat
  BY DEF Inv, Typed, Current
<1>3. CASE CreateSecret(r, s, p, k)
  <2>1. StartsCreate("CreateSecret", p, k)
    BY <1>3 DEF CreateSecret, StartsCreate
  <2>2. Begin(r, s, p, "CreateSecret", "create", k, 0)
    BY <1>3 DEF CreateSecret
  <2> QED
    BY <1>0, <2>1, <2>2, CreateShape
<1>4. CASE GetSecret(r, s, p, k)
  <2>1. StartsSecret("GetSecret", "versions")
    BY DEF StartsSecret
  <2> QED
    BY <1>1, <1>4, <2>1 DEF GetSecret
<1>5. CASE UpdateSecret(r, s, p, k)
  <2>1. StartsSecret("UpdateSecret", "write")
    BY DEF StartsSecret
  <2> QED
    BY <1>1, <1>5, <2>1 DEF UpdateSecret
<1>6. CASE DeletableSecret(r, s, p, k)
  <2>1. StartsSecret("DeleteSecret", "write")
    BY DEF StartsSecret
  <2> QED
    BY <1>1, <1>6, <2>1 DEF DeletableSecret
<1>7. CASE BeginCreateSecretVersion(r, s, p, k)
  <2>1. StartsSecret("CreateSecretVersion", "write")
    BY DEF StartsSecret
  <2> QED
    BY <1>1, <1>2, <1>7, <2>1 DEF BeginCreateSecretVersion
<1>8. CASE RevealSecret(r, s, p, k)
  <2>1. StartsSecret("RevealSecret", "material")
    BY DEF StartsSecret
  <2> QED
    BY <1>1, <1>2, <1>8, <2>1 DEF RevealSecret
<1>9. ASSUME NEW v \in VersionNo, BeginDisableSecretVersion(r, s, p, k, v) PROVE Shaped
  <2>1. StartsSecret("DisableSecretVersion", "write")
    BY DEF StartsSecret
  <2> QED
    BY <1>0, <1>1, <1>9, <2>1 DEF BeginDisableSecretVersion
<1>10. ASSUME NEW v \in VersionNo, RevealSecretVersion(r, s, p, k, v) PROVE Shaped
  <2>1. StartsSecret("RevealSecretVersion", "material")
    BY DEF StartsSecret
  <2> QED
    BY <1>0, <1>1, <1>10, <2>1 DEF RevealSecretVersion
<1>11. ASSUME NEW v \in VersionNo, ApplySecretVersion(r, s, p, k, v) PROVE Shaped
  <2>1. PICK e \in Db : db[e] # NoRow /\ PasswordOf[e] = k
    BY <1>11 DEF ApplySecretVersion, IsDatabasePasswordSecret, VerifiersOf
  <2>2. \A d \in Db : PasswordOf[d] = k => d \notin unused
    BY <2>1, Kinds DEF Inv, Used
  <2>3. StartsSecret("ApplySecretVersion", "material")
    BY DEF StartsSecret
  <2> QED
    BY <1>0, <1>11, <2>2, <2>3, BeginShape DEF ApplySecretVersion
<1>12. ASSUME ListSecretVersions(s, p, k) \/ \E v \in VersionNo : GetSecretVersion(s, p, k, v)
       PROVE  UNCHANGED vars
  BY <1>12 DEF ListSecretVersions, GetSecretVersion, Shows
<1> QED
  BY <1>3, <1>4, <1>5, <1>6, <1>7, <1>8, <1>9, <1>10, <1>11, <1>12 DEF BeginSecret

LEMMA BeginRequestShape ==
    ASSUME Inv, NEW r \in Req, NEW s \in Subject, NEW p \in Project, BeginRequest(r, s, p)
    PROVE  Shaped \/ UNCHANGED vars
<1>1. ASSUME NEW x \in Taggable, BeginTagRequest(r, s, p, x) PROVE Shaped \/ UNCHANGED vars
  <2>1. x \in Resource
    BY KindAssumption
  <2>2. CASE ListResourceTags(s, p, x)
    BY <2>2 DEF ListResourceTags, Shows
  <2>3. ASSUME NEW t \in Tag \cup {SystemTag},
               NEW op \in {"AttachResourceTag", "DetachResourceTag"},
               BeginTag(r, s, p, op, x, t)
        PROVE  Shaped
    BY <2>1, <2>3, BeginTagShape DEF BeginRequest
  <2> QED
    BY <1>1, <2>2, <2>3 DEF BeginTagRequest
<1>2. CASE ListDBInstances(s, p) \/ ListSecrets(s, p) \/ ListProjectTags(s, p)
  BY <1>2 DEF ListDBInstances, ListSecrets, ListProjectTags, Shows
<1> QED
  BY <1>1, <1>2, BeginDatabaseShape, BeginSecretShape DEF BeginRequest

-----------------------------------------------------------------------------
(* The SELECTs of a request in flight *)

LEMMA EndShape ==
    ASSUME Inv, NEW r \in Req, req[r] # Idle, Finish(r), Reads
    PROVE  Shaped
<1>1. req'[r] = Idle /\ \A q \in Req \ {r} : req'[q] = req[q]
  BY TakeSlot DEF Finish, Takes
<1>2. \A q \in Req : req'[q] # Idle => Fresh(req[q])'
  BY <1>1 DEF Inv, Knows, Fresh, Reads
<1>3. RowsMove
  BY <1>2 DEF RowsMove, Reads, Inv, Typed, Used, DatabaseIsWhole
<1>4. Local(req[r].project)
  BY DEF Local, Row, TagsOf, Reads
<1> QED
  BY <1>3, <1>4 DEF Ends, Shaped, Reads

LEMMA GoShape ==
    ASSUME Inv, NEW r \in Req, req[r] # Idle, Reads,
           NEW pc \in Places \ {"create", "versions", "target"}, NEW n \in Nat,
           \/ req' = [req EXCEPT ![r] = [req[r] EXCEPT !.pc = pc]]
           \/ req' = [req EXCEPT ![r] = [req[r] EXCEPT !.pc = pc, !.version = n]],
           pc \in {"secret", "desired", "authorize", "answer", "material"} =>
              req[r].op # "ApplySecretVersion",
           pc \in {"write", "desired", "authorize", "answer", "material"} =>
              req[r].op \notin Quiet,
           pc \in {"desired", "authorize"} => req[r].op = "RevealDBInstanceURI",
           pc \in {"verifier", "secret"} => req[r].pc = "verifier",
           pc \in {"authorize", "answer"} => Home[req[r].resource] = req[r].project,
           pc = "write" /\ req[r].op = "ApplySecretVersion" =>
              /\ req' = [req EXCEPT ![r] = [req[r] EXCEPT !.pc = pc]]
              /\ req[r].version \in DOMAIN secret[req[r].resource],
           \/ Decided(r)
           \/ Allows(role[req[r].project][req[r].subject], "secret.reveal")
           \/ pc \notin {"write", "answer", "material"}
           \/ pc = "material" /\ req[r].op = "RevealDBInstanceURI"
    PROVE  Shaped
<1>1. PICK v \in {[req[r] EXCEPT !.pc = pc], [req[r] EXCEPT !.pc = pc, !.version = n]} :
        Takes(r, v)
  BY DEF Takes
<1>2. /\ v \in Slot /\ v.pc = pc /\ v.op = req[r].op /\ v.subject = req[r].subject
      /\ v.project = req[r].project /\ v.resource = req[r].resource
  <2>1. req[r] \in Slot
    BY BusySlot
  <2> QED
    BY <1>1, <2>1 DEF Slot
<1>3. Fixed(req[r]) /\ Kept(req[r]) /\ req[r] \in Slot
  BY BusySlot DEF Knows
<1>4. Fixed(v)
  BY <1>2, <1>3 DEF Fixed, Places, Quiet
<1>5. Fresh(v)
  BY <1>2 DEF Fresh
<1>6. Kept(v)
  <2>1. CASE v.op # "ApplySecretVersion" \/ pc # "write"
    BY <1>2, <1>3, <2>1 DEF Kept
  <2>2. CASE v.op = "ApplySecretVersion" /\ pc = "write"
    <3>1. v = req'[r] /\ v = [req[r] EXCEPT !.pc = pc]
      BY <1>1, <1>2, <2>2, TakeSlot DEF Inv, Typed
    <3>2. v.version = req[r].version
      BY <1>3, <3>1 DEF Slot
    <3> QED
      BY <1>2, <1>3, <2>2, <3>2 DEF Kept
  <2> QED
    BY <2>1, <2>2
<1>7. req'[r] = v
  BY <1>1, <1>2, TakeSlot
<1>8. Decided(r)' => Decided(r) \/ Allows(role[v.project][v.subject], "secret.reveal")
  BY <1>2, <1>7 DEF Decided
<1> QED
  BY <1>1, <1>2, <1>4, <1>5, <1>6, <1>8 DEF Goes, Shaped, Knows

LEMMA GotoShape ==
    ASSUME Inv, NEW r \in Req, NEW pc, Goto(r, pc)
    PROVE  req' = [req EXCEPT ![r] = [req[r] EXCEPT !.pc = pc]]
BY DEF Goto, Inv, Typed

LEMMA UriShape ==
    ASSUME Inv, NEW r \in Req, req[r] # Idle,
           \/ ReadVerifier(r) \/ ReadPasswordSecret(r) \/ ReadDesiredVersion(r)
           \/ ReadPasswordMaterial(r) \/ AuthorizeReveal(r)
    PROVE  Shaped
<1>0. req[r] \in Slot /\ Fixed(req[r])
  BY BusySlot DEF Knows
<1>1. CASE ReadVerifier(r)
  <2>1. CASE Finish(r)
    BY <1>1, <2>1, EndShape DEF ReadVerifier
  <2>2. CASE Goto(r, "secret")
    <3>1. req' = [req EXCEPT ![r] = [req[r] EXCEPT !.pc = "secret"]]
      BY <2>2, GotoShape
    <3>2. "secret" \in Places \ {"create", "versions", "target"} /\ 0 \in Nat
      BY DEF Places
    <3>3. req[r].pc = "verifier" /\ req[r].op # "ApplySecretVersion" /\ Reads
      BY <1>0, <1>1 DEF ReadVerifier, Fixed
    <3> QED
      BY <3>1, <3>2, <3>3, GoShape
  <2> QED
    BY <1>1, <2>1, <2>2 DEF ReadVerifier
<1>2. CASE ReadPasswordSecret(r)
  <2>1. CASE Finish(r)
    BY <1>2, <2>1, EndShape DEF ReadPasswordSecret
  <2>2. CASE Goto(r, "desired") /\ req[r].op = "RevealDBInstanceURI"
    <3>1. req' = [req EXCEPT ![r] = [req[r] EXCEPT !.pc = "desired"]]
      BY <2>2, GotoShape
    <3>2. "desired" \in Places \ {"create", "versions", "target"} /\ 0 \in Nat
      BY DEF Places
    <3>3. req[r].op \notin Quiet \cup {"ApplySecretVersion"} /\ Reads
      BY <1>2, <2>2 DEF ReadPasswordSecret, Quiet
    <3> QED
      BY <2>2, <3>1, <3>2, <3>3, GoShape
  <2> QED
    BY <1>2, <2>1, <2>2 DEF ReadPasswordSecret
<1>3. CASE ReadDesiredVersion(r)
  <2> DEFINE d == req[r].resource
  <2>1. req[r].op = "RevealDBInstanceURI" /\ d \in Db /\ Reads
    BY <1>0, <1>3 DEF ReadDesiredVersion, Fixed
  <2>2. CASE Finish(r)
    BY <2>1, <2>2, EndShape
  <2>3. CASE ~Missing(r) /\ req' = [req EXCEPT ![r] =
                                     [req[r] EXCEPT !.pc = "material", !.version = db[d].version]]
    <3>1. db[d] # NoRow
      BY <2>1, <2>3 DEF Missing, Found, ResourcesOf, Present
    <3>2. db[d].version \in Nat
      BY <2>1, <3>1 DEF Inv, Typed, Base
    <3>3. "material" \in Places \ {"create", "versions", "target"}
      BY DEF Places
    <3>4. req[r].op \notin Quiet \cup {"ApplySecretVersion"}
      BY <2>1 DEF Quiet
    <3> QED
      BY <2>1, <2>3, <3>2, <3>3, <3>4, GoShape
  <2> QED
    BY <1>3, <2>2, <2>3 DEF ReadDesiredVersion
<1>4. CASE ReadPasswordMaterial(r)
  <2> DEFINE d == req[r].resource
  <2>1. req[r].op = "RevealDBInstanceURI" /\ d \in Db /\ Reads
    BY <1>0, <1>4 DEF ReadPasswordMaterial, At, Fixed, DbWrite
  <2>2. CASE Finish(r)
    BY <2>1, <2>2, EndShape
  <2>3. CASE Material(req[r].project, PasswordOf[d], req[r].version) /\ Learned(r, "authorize")
    <3>1. Home[d] = req[r].project
      BY <2>1, <2>3, Kinds DEF Material, VersionsOf, Found, ResourcesOf
    <3>2. req' = [req EXCEPT ![r] = [req[r] EXCEPT !.pc = "authorize", !.version = 0]]
      BY <2>3 DEF Learned
    <3>3. "authorize" \in Places \ {"create", "versions", "target"} /\ 0 \in Nat
      BY DEF Places
    <3>4. req[r].op \notin Quiet \cup {"ApplySecretVersion"}
      BY <2>1 DEF Quiet
    <3> QED
      BY <2>1, <3>1, <3>2, <3>3, <3>4, GoShape
  <2> QED
    BY <1>4, <2>2, <2>3 DEF ReadPasswordMaterial
<1>5. CASE AuthorizeReveal(r)
  <2>1. Reads /\ req[r].op = "RevealDBInstanceURI" /\ Home[req[r].resource] = req[r].project
    BY <1>0, <1>5 DEF AuthorizeReveal, Fixed
  <2>2. CASE Finish(r)
    BY <2>1, <2>2, EndShape
  <2>3. CASE Allows(role[req[r].project][req[r].subject], "secret.reveal") /\ Goto(r, "answer")
    <3>1. req' = [req EXCEPT ![r] = [req[r] EXCEPT !.pc = "answer"]]
      BY <2>3, GotoShape
    <3>2. "answer" \in Places \ {"create", "versions", "target"} /\ 0 \in Nat
      BY DEF Places
    <3>3. req[r].op \notin Quiet \cup {"ApplySecretVersion"}
      BY <2>1 DEF Quiet
    <3> QED
      BY <2>1, <2>3, <3>1, <3>2, <3>3, GoShape
  <2> QED
    BY <1>5, <2>2, <2>3 DEF AuthorizeReveal
<1> QED
  BY <1>1, <1>2, <1>3, <1>4, <1>5

LEMMA SecretReadShape ==
    ASSUME Inv, NEW r \in Req, req[r] # Idle, ReadMaterial(r) \/ ApplyReadsMaterial(r)
    PROVE  Shaped
<1>1. CASE ReadMaterial(r)
  <2>1. Reads /\ req[r].pc = "material" /\ req[r].op \in {"RevealSecret", "RevealSecretVersion"}
    BY <1>1 DEF ReadMaterial, At
  <2>2. CASE Finish(r)
    BY <2>1, <2>2, EndShape
  <2>3. CASE Material(req[r].project, req[r].resource, req[r].version) /\ Learned(r, "answer")
    <3>1. Home[req[r].resource] = req[r].project
      BY <2>3 DEF Material, VersionsOf, Found, ResourcesOf
    <3>2. req' = [req EXCEPT ![r] = [req[r] EXCEPT !.pc = "answer", !.version = 0]]
      BY <2>3 DEF Learned
    <3>3. "answer" \in Places \ {"create", "versions", "target"} /\ 0 \in Nat
      BY DEF Places
    <3>4. req[r].op \notin Quiet \cup {"ApplySecretVersion"} /\ Decided(r)
      BY <2>1 DEF Quiet, Decided
    <3> QED
      BY <2>1, <3>1, <3>2, <3>3, <3>4, GoShape
  <2> QED
    BY <1>1, <2>2, <2>3 DEF ReadMaterial
<1>2. CASE ApplyReadsMaterial(r)
  <2>1. Reads /\ req[r].pc = "material" /\ req[r].op = "ApplySecretVersion"
    BY <1>2 DEF ApplyReadsMaterial, At
  <2>2. CASE Finish(r)
    BY <2>1, <2>2, EndShape
  <2>3. CASE Material(req[r].project, req[r].resource, req[r].version) /\ Goto(r, "write")
    <3>1. req[r].version \in DOMAIN secret[req[r].resource]
      BY <2>3 DEF Material, VersionsOf
    <3>2. req' = [req EXCEPT ![r] = [req[r] EXCEPT !.pc = "write"]]
      BY <2>3, GotoShape
    <3>3. "write" \in Places \ {"create", "versions", "target"} /\ 0 \in Nat
      BY DEF Places
    <3>4. req[r].op \notin Quiet /\ Decided(r)
      BY <2>1 DEF Quiet, Decided
    <3> QED
      BY <2>1, <3>1, <3>2, <3>3, <3>4, GoShape
  <2> QED
    BY <1>2, <2>2, <2>3 DEF ApplyReadsMaterial
<1> QED
  BY <1>1, <1>2

LEMMA QuietShape ==
    ASSUME Inv, NEW r \in Req, req[r] # Idle,
           \/ UpdateDatabase(r) \/ QueryResourceMetric(r) \/ GetSecretVersions(r)
           \/ UpdateSecretMeta(r) \/ Answer(r) \/ Fail(r)
    PROVE  Shaped
<1>1. CASE ResolveTarget(r)
  <2>1. req' = [req EXCEPT ![r] = [req[r] EXCEPT !.pc = "upstream"]]
    BY <1>1, GotoShape DEF ResolveTarget
  <2>2. "upstream" \in Places \ {"create", "versions", "target"} /\ 0 \in Nat
    BY DEF Places
  <2> QED
    BY <1>1, <2>1, <2>2, GoShape DEF ResolveTarget
<1>2. CASE Finish(r) /\ Reads
  BY <1>2, EndShape
<1> QED
  BY <1>1, <1>2 DEF UpdateDatabase, QueryResourceMetric, QueryRange, GetSecretVersions,
     UpdateSecretMeta, Answer, Fail

-----------------------------------------------------------------------------
(* The transactions *)

LEMMA OthersFresh ==
    ASSUME Inv, NEW r \in Req, req[r] # Idle, Finish(r),
           \A q \in Req \ {r} : req[q].pc = "create" /\ req[q].op = "CreateDBInstance"
                                /\ req[q].resource \in unused => req[q].resource \in unused'
    PROVE  \A q \in Req : req'[q] # Idle => Fresh(req[q])'
<1>1. req'[r] = Idle /\ \A q \in Req \ {r} : req'[q] = req[q]
  BY TakeSlot DEF Finish, Takes
<1> QED
  BY <1>1 DEF Inv, Knows, Fresh

\* A transaction that creates no database.
LEMMA WriteShape ==
    ASSUME Inv, NEW r \in Req, req[r] # Idle, Finish(r), UNCHANGED <<session, role>>,
           unused' \subseteq unused,
           \A q \in Req : req'[q] # Idle => Fresh(req[q])',
           db' \in [Db -> Base \cup {NoRow}], secret' \in [Secret -> Seq(States)],
           \A d \in Db : db'[d] # NoRow =>
              /\ db[d] # NoRow
              /\ db'[d].version \in {db[d].version} \cup DOMAIN secret[PasswordOf[d]]
              /\ DOMAIN secret[PasswordOf[d]] \subseteq DOMAIN secret'[PasswordOf[d]]
              /\ \A x \in {d, PasswordOf[d]} :
                    <<x, SystemTag>> \in tagged => <<x, SystemTag>> \in tagged',
           Local(req[r].project)
    PROVE  Shaped
<1>1. DatabaseIsWhole'
  BY DEF Inv, DatabaseIsWhole
<1>2. Used'
  BY DEF Inv, Used
<1>3. RowsMove
  BY <1>1, <1>2 DEF RowsMove
<1> QED
  BY <1>3 DEF Ends, Shaped

LEMMA CreateDatabaseShape ==
    ASSUME Inv, NEW r \in Req, req[r] # Idle, CreateDatabase(r)
    PROVE  Shaped
<1> DEFINE d == req[r].resource
           k == PasswordOf[d]
           row == [desired |-> "running", password |-> "present", version |-> 1]
<1>1. req[r] \in Slot /\ Knows(req[r]) /\ req[r].pc = "create"
      /\ req[r].op = "CreateDBInstance"
  BY BusySlot DEF CreateDatabase, At
<1>2. d \in Db /\ d \in unused /\ Home[d] = req[r].project /\ k \in Secret
  BY <1>1, Kinds DEF Knows, Fixed, Fresh, DbWrite
<1>3. /\ unused' = unused \ {d, k}
      /\ db' = [db EXCEPT ![d] = row]
      /\ secret' = [secret EXCEPT ![k] = <<"active">>]
      /\ tagged' = tagged \cup {<<d, SystemTag>>, <<k, SystemTag>>}
      /\ Finish(r) /\ UNCHANGED <<session, role>>
  BY DEF CreateDatabase
<1>4. row \in Base /\ row.version = 1
  BY DEF Base
<1>5. <<"active">> \in Seq(States) /\ DOMAIN <<"active">> = {1}
  BY DEF States
<1> HIDE DEF d, k, row
<1>6. /\ db' \in [Db -> Base \cup {NoRow}] /\ db'[d] = row
      /\ \A e \in Db \ {d} : db'[e] = db[e]
  BY <1>2, <1>3, <1>4 DEF Inv, Typed
<1>7. /\ secret' \in [Secret -> Seq(States)] /\ DOMAIN secret'[k] = {1}
      /\ \A x \in Secret \ {k} : secret'[x] = secret[x]
  BY <1>2, <1>3, <1>5 DEF Inv, Typed
<1>8. \A e \in Db \ {d} : PasswordOf[e] \in Secret \ {k}
  BY <1>2, Kinds DEF k
<1>9. db[d] = NoRow
  BY <1>2 DEF Inv, Used
<1>10. DatabaseIsWhole'
  <2>1. ASSUME NEW e \in Db \ {d}, db'[e] # NoRow
        PROVE  /\ db'[e].version \in DOMAIN secret'[PasswordOf[e]]
               /\ {<<e, SystemTag>>, <<PasswordOf[e], SystemTag>>} \subseteq tagged'
    BY <1>3, <1>6, <1>7, <1>8, <2>1 DEF Inv, DatabaseIsWhole
  <2>2. /\ db'[d].version \in DOMAIN secret'[k]
        /\ {<<d, SystemTag>>, <<k, SystemTag>>} \subseteq tagged'
    BY <1>3, <1>4, <1>6, <1>7
  <2> QED
    BY <2>1, <2>2 DEF DatabaseIsWhole, k
<1>11. Used'
  BY <1>3, <1>6 DEF Inv, Used
<1>12. \A q \in Req : req'[q] # Idle => Fresh(req[q])'
  <2>1. ASSUME NEW q \in Req \ {r}, req[q].pc = "create", req[q].op = "CreateDBInstance",
               req[q].resource \in unused
        PROVE  req[q].resource \in unused'
    <3>1. req[q].resource # d
      BY <1>1, <2>1 DEF Inv, CreatesApart, d
    <3>2. req[q].resource \in Db
      BY <2>1, BusySlot DEF Knows, Fixed
    <3>3. req[q].resource # k
      BY <1>2, <3>2, Kinds DEF k
    <3> QED
      BY <1>3, <2>1, <3>1, <3>3
  <2> QED
    BY <1>3, <2>1, OthersFresh
<1>13. RowsMove
  BY <1>2, <1>3, <1>6, <1>7, <1>8, <1>9, <1>10, <1>11, <1>12 DEF RowsMove
<1>14. Local(req[r].project)
  <2> SUFFICES ASSUME NEW x \in Resource, Home[x] # req[r].project
               PROVE  Row(x)' = Row(x) /\ TagsOf(x)' = TagsOf(x)
    BY DEF Local
  <2>1. x # d /\ x # k
    BY <1>2, Kinds DEF k
  <2>2. Row(x)' = Row(x)
    BY <1>6, <1>7, <2>1 DEF Row, Resource
  <2>3. TagsOf(x)' = TagsOf(x)
    BY <1>3, <2>1 DEF TagsOf
  <2> QED
    BY <2>2, <2>3
<1> QED
  BY <1>3, <1>13, <1>14 DEF Ends, Shaped

LEMMA CreateSecretShape ==
    ASSUME Inv, NEW r \in Req, req[r] # Idle, CreateSecretWithInitialVersion(r)
    PROVE  Shaped
<1> DEFINE k == req[r].resource
<1>1. req[r] \in Slot /\ Knows(req[r]) /\ req[r].pc = "create" /\ req[r].op = "CreateSecret"
  BY BusySlot DEF CreateSecretWithInitialVersion, At
<1>2. k \in Plain /\ k \in Secret /\ Home[k] = req[r].project
  BY <1>1, Kinds DEF Knows, Fixed
<1>3. /\ unused' = unused \ {k}
      /\ secret' = [secret EXCEPT ![k] = <<"active">>]
      /\ Finish(r) /\ UNCHANGED <<session, role, db, tagged>>
  BY DEF CreateSecretWithInitialVersion
<1>4. <<"active">> \in Seq(States)
  BY DEF States
<1> HIDE DEF k
<1>5. /\ secret' \in [Secret -> Seq(States)]
      /\ \A x \in Secret \ {k} : secret'[x] = secret[x]
  BY <1>2, <1>3, <1>4 DEF Inv, Typed
<1>6. \A d \in Db : PasswordOf[d] \in Secret \ {k}
  BY <1>2, Kinds
<1>7. \A q \in Req : req'[q] # Idle => Fresh(req[q])'
  <2>1. ASSUME NEW q \in Req \ {r}, req[q].pc = "create", req[q].op = "CreateDBInstance",
               req[q].resource \in unused
        PROVE  req[q].resource \in unused'
    <3>1. req[q].resource \in Db
      BY <2>1, BusySlot DEF Knows, Fixed
    <3> QED
      BY <1>2, <1>3, <2>1, <3>1, Kinds
  <2> QED
    BY <1>3, <2>1, OthersFresh
<1>8. Local(req[r].project)
  BY <1>2, <1>3, <1>5 DEF Local, Row, TagsOf, Resource
<1>9. db' \in [Db -> Base \cup {NoRow}]
  BY <1>3 DEF Inv, Typed
<1> QED
  BY <1>3, <1>5, <1>6, <1>7, <1>8, <1>9, WriteShape

\* A transaction that writes at most the row of a database of its project.
LEMMA DatabaseWriteShape ==
    ASSUME Inv, NEW r \in Req, req[r] # Idle, Finish(r),
           UNCHANGED <<session, role, unused, secret, tagged>>,
           db' \in [Db -> Base \cup {NoRow}],
           \A d \in Db : db'[d] # db[d] =>
              /\ db[d] # NoRow /\ Home[d] = req[r].project
              /\ db'[d].version \in {db[d].version} \cup DOMAIN secret[PasswordOf[d]]
    PROVE  Shaped
<1>1. \A q \in Req : req'[q] # Idle => Fresh(req[q])'
  BY OthersFresh
<1>2. Local(req[r].project)
  BY DEF Local, Row, TagsOf, Resource
<1> QED
  BY <1>1, <1>2, WriteShape DEF Inv, Typed

LEMMA DatabaseWritesShape ==
    ASSUME Inv, NEW r \in Req, req[r] # Idle,
           \/ SetDatabaseDesiredRuntimeState(r) \/ ClaimDatabaseTermination(r)
           \/ SetDatabasePasswordSecretVerifier(r)
    PROVE  Shaped
<1>1. req[r] \in Slot /\ Knows(req[r])
  BY BusySlot
<1>2. CASE SetDatabaseDesiredRuntimeState(r) \/ ClaimDatabaseTermination(r)
  <2> DEFINE d == req[r].resource
  <2>1. d \in Db
    BY <1>1, <1>2 DEF Knows, Fixed, DbWrite, At, SetDatabaseDesiredRuntimeState,
                      ClaimDatabaseTermination
  <2>2. CASE Missing(r)
    BY <1>2, <2>2, DatabaseWriteShape
       DEF SetDatabaseDesiredRuntimeState, ClaimDatabaseTermination, Inv, Typed
  <2>3. CASE ~Missing(r)
    <3>1. db[d] # NoRow /\ Home[d] = req[r].project /\ db[d] \in Base
      BY <2>1, <2>3 DEF Missing, Found, ResourcesOf, Present, Inv, Typed
    <3> DEFINE new == IF SetDatabaseDesiredRuntimeState(r)
                      THEN [db[d] EXCEPT !.desired = "running"]
                      ELSE [db[d] EXCEPT !.desired = "terminated", !.password = "absent"]
    <3>2. db' = [db EXCEPT ![d] = new]
      <4>1. CASE SetDatabaseDesiredRuntimeState(r)
        BY <2>1, <2>3, <4>1 DEF SetDatabaseDesiredRuntimeState, Inv, Typed
      <4>2. CASE ClaimDatabaseTermination(r) /\ ~SetDatabaseDesiredRuntimeState(r)
        BY <2>1, <2>3, <4>2 DEF ClaimDatabaseTermination, Inv, Typed
      <4> QED
        BY <1>2, <4>1, <4>2
    <3>3. new \in Base /\ new.version = db[d].version
      BY <3>1 DEF Base
    <3> HIDE DEF new
    <3>4. db' \in [Db -> Base \cup {NoRow}]
          /\ \A e \in Db : db'[e] # db[e] => e = d /\ db'[e].version = db[d].version
      BY <2>1, <3>2, <3>3 DEF Inv, Typed
    <3> QED
      BY <1>2, <3>1, <3>4, DatabaseWriteShape
         DEF SetDatabaseDesiredRuntimeState, ClaimDatabaseTermination
  <2> QED
    BY <2>2, <2>3
<1>3. CASE SetDatabasePasswordSecretVerifier(r)
  <2> DEFINE k == req[r].resource
             n == req[r].version
             wanted == {d \in VerifiersOf(k) :
                          Home[d] = req[r].project /\ db[d].password = "present"}
  <2>1. req[r].op = "ApplySecretVersion" /\ req[r].pc = "write" /\ k \in Secret
    BY <1>1, <1>3 DEF SetDatabasePasswordSecretVerifier, At, Knows, Fixed
  <2>2. db' = [d \in Db |-> IF d \in wanted THEN [db[d] EXCEPT !.version = n] ELSE db[d]]
    BY <1>3 DEF SetDatabasePasswordSecretVerifier
  <2>3. \A d \in wanted : /\ d \in Db /\ db[d] \in Base /\ db[d] # NoRow
                          /\ PasswordOf[d] = k /\ Home[d] = req[r].project
    BY DEF VerifiersOf, Inv, Typed
  <2>4. \A d \in wanted : n \in DOMAIN secret[k]
    BY <1>1, <2>1, <2>3 DEF Knows, Kept
  <2>5. DOMAIN secret[k] \subseteq Nat
    BY <2>1 DEF Inv, Typed
  <2>6. \A d \in wanted : /\ [db[d] EXCEPT !.version = n] \in Base
                          /\ [db[d] EXCEPT !.version = n].version = n
    BY <2>3, <2>4, <2>5 DEF Base
  <2> HIDE DEF wanted
  <2>7. db' \in [Db -> Base \cup {NoRow}]
    BY <2>2, <2>6 DEF Inv, Typed
  <2>8. \A d \in Db : db'[d] # db[d] => d \in wanted /\ db'[d].version = n
    BY <2>2, <2>6
  <2> QED
    BY <1>3, <2>3, <2>4, <2>7, <2>8, DatabaseWriteShape DEF SetDatabasePasswordSecretVerifier
<1> QED
  BY <1>2, <1>3

\* A transaction that writes at most a secret of its project.
LEMMA SecretWriteShape ==
    ASSUME Inv, NEW r \in Req, req[r] # Idle, Finish(r),
           UNCHANGED <<session, role, unused, db, tagged>>,
           secret' \in [Secret -> Seq(States)],
           \A k \in Secret : secret'[k] # secret[k] =>
              Home[k] = req[r].project /\ DOMAIN secret[k] \subseteq DOMAIN secret'[k]
    PROVE  Shaped
<1>1. \A q \in Req : req'[q] # Idle => Fresh(req[q])'
  BY OthersFresh
<1>2. Local(req[r].project)
  BY DEF Local, Row, TagsOf, Resource
<1>3. \A d \in Db : DOMAIN secret[PasswordOf[d]] \subseteq DOMAIN secret'[PasswordOf[d]]
  BY Kinds
<1> QED
  BY <1>1, <1>2, <1>3, WriteShape DEF Inv, Typed

LEMMA SecretWritesShape ==
    ASSUME Inv, NEW r \in Req, req[r] # Idle, CreateSecretVersion(r) \/ DisableSecretVersion(r)
    PROVE  Shaped
<1> DEFINE k == req[r].resource
           n == req[r].version
<1>1. k \in Secret
  BY BusySlot DEF CreateSecretVersion, DisableSecretVersion, At, Knows, Fixed
<1>2. Finish(r) /\ UNCHANGED <<session, role, unused, db, tagged>>
  BY DEF CreateSecretVersion, DisableSecretVersion
<1>3. secret[k] \in Seq(States) /\ "active" \in States /\ "disabled" \in States
  BY <1>1 DEF Inv, Typed, States
<1>4. CASE secret' = secret
  BY <1>2, <1>4, SecretWriteShape DEF Inv, Typed
<1>5. ASSUME NEW new \in Seq(States), DOMAIN secret[k] \subseteq DOMAIN new,
             Home[k] = req[r].project, secret' = [secret EXCEPT ![k] = new]
      PROVE  Shaped
  <2>1. /\ secret' \in [Secret -> Seq(States)] /\ secret'[k] = new
        /\ \A x \in Secret \ {k} : secret'[x] = secret[x]
    BY <1>1, <1>5 DEF Inv, Typed
  <2> QED
    BY <1>1, <1>2, <1>5, <2>1, SecretWriteShape
<1>6. CASE CreateSecretVersion(r) /\ secret' # secret
  <2>1. /\ secret' = [secret EXCEPT ![k] = Append(secret[k], "active")]
        /\ Home[k] = req[r].project
    BY <1>1, <1>6 DEF CreateSecretVersion, Found, ResourcesOf, Inv, Typed
  <2>2. /\ Append(secret[k], "active") \in Seq(States)
        /\ DOMAIN secret[k] \subseteq DOMAIN Append(secret[k], "active")
    BY <1>3
  <2> QED
    BY <1>5, <2>1, <2>2
<1>7. CASE DisableSecretVersion(r) /\ secret' # secret
  <2>1. /\ secret' = [secret EXCEPT ![k] = [secret[k] EXCEPT ![n] = "disabled"]]
        /\ MayDisable(req[r].project, k, n)
    BY <1>1, <1>7 DEF DisableSecretVersion, Inv, Typed
  <2>2. Home[k] = req[r].project /\ n \in DOMAIN secret[k]
    BY <2>1 DEF MayDisable, Material, VersionsOf, Found, ResourcesOf
  <2>3. /\ [secret[k] EXCEPT ![n] = "disabled"] \in Seq(States)
        /\ DOMAIN [secret[k] EXCEPT ![n] = "disabled"] = DOMAIN secret[k]
    BY <1>3, <2>2
  <2> QED
    BY <1>5, <2>1, <2>2, <2>3
<1> QED
  BY <1>4, <1>6, <1>7

LEMMA DeleteSecretShape ==
    ASSUME Inv, NEW r \in Req, req[r] # Idle, DeleteSecret(r)
    PROVE  Shaped
<1> DEFINE k == req[r].resource
<1>1. k \in Secret
  BY BusySlot DEF DeleteSecret, At, Knows, Fixed
<1>2. Finish(r) /\ UNCHANGED <<session, role, unused, db>>
  BY DEF DeleteSecret
<1>3. CASE UNCHANGED <<secret, tagged>>
  BY <1>2, <1>3, SecretWriteShape DEF Inv, Typed
<1>4. CASE ~Missing(r) /\ ~Restricted(k) /\ ~UNCHANGED <<secret, tagged>>
  <2>1. Home[k] = req[r].project
    BY <1>4 DEF Missing, Found, ResourcesOf
  <2>2. \A d \in Db : db[d] # NoRow => PasswordOf[d] # k
    BY <1>4 DEF Restricted, VerifiersOf
  <2>3. secret' = [secret EXCEPT ![k] = << >>] /\ tagged' = {a \in tagged : a[1] # k}
    BY <1>4 DEF DeleteSecret
  <2>4. << >> \in Seq(States)
    BY EmptySeq
  <2>5. /\ secret' \in [Secret -> Seq(States)]
        /\ \A x \in Secret \ {k} : secret'[x] = secret[x]
    BY <1>1, <2>3, <2>4 DEF Inv, Typed
  <2>6. Local(req[r].project)
    <3> SUFFICES ASSUME NEW x \in Resource, Home[x] # req[r].project
                 PROVE  Row(x)' = Row(x) /\ TagsOf(x)' = TagsOf(x)
      BY DEF Local
    <3>1. x # k
      BY <2>1
    <3>2. Row(x)' = Row(x)
      BY <1>2, <2>5, <3>1 DEF Row, Resource
    <3>3. TagsOf(x)' = TagsOf(x)
      BY <2>3, <3>1 DEF TagsOf
    <3> QED
      BY <3>2, <3>3
  <2>7. \A d \in Db : db[d] # NoRow =>
          /\ secret'[PasswordOf[d]] = secret[PasswordOf[d]]
          /\ \A x \in {d, PasswordOf[d]} :
                <<x, SystemTag>> \in tagged => <<x, SystemTag>> \in tagged'
    BY <1>1, <2>2, <2>3, <2>5, Kinds
  <2>8. \A q \in Req : req'[q] # Idle => Fresh(req[q])'
    BY <1>2, OthersFresh
  <2>9. db' \in [Db -> Base \cup {NoRow}]
    BY <1>2 DEF Inv, Typed
  <2> QED
    BY <1>2, <2>5, <2>6, <2>7, <2>8, <2>9, WriteShape
<1> QED
  BY <1>3, <1>4 DEF DeleteSecret

LEMMA TagShape ==
    ASSUME Inv, NEW r \in Req, req[r] # Idle, AttachResourceTag(r) \/ DetachResourceTag(r)
    PROVE  Shaped
<1> DEFINE x == req[r].resource
           t == req[r].tag
<1>1. Finish(r) /\ UNCHANGED <<session, role, unused, db, secret>>
  BY DEF AttachResourceTag, DetachResourceTag
<1>2. \/ tagged' = tagged
      \/ Home[x] = req[r].project /\ t # SystemTag
         /\ tagged' \in {tagged \cup {<<x, t>>}, tagged \ {<<x, t>>}}
  BY DEF AttachResourceTag, DetachResourceTag, Detachable, Missing, Found, ResourcesOf
<1>3. Local(req[r].project)
  BY <1>1, <1>2 DEF Local, Row, TagsOf
<1>4. \A y : <<y, SystemTag>> \in tagged => <<y, SystemTag>> \in tagged'
  BY <1>2
<1>5. \A q \in Req : req'[q] # Idle => Fresh(req[q])'
  BY <1>1, OthersFresh
<1> QED
  BY <1>1, <1>3, <1>4, <1>5, WriteShape DEF Inv, Typed

-----------------------------------------------------------------------------
(* The rest of the system *)

LEMMA CollectShape ==
    ASSUME Inv, NEW d \in Db, Collect(d)
    PROVE  Shaped
<1> DEFINE k == PasswordOf[d]
<1>1. /\ db' = [db EXCEPT ![d] = NoRow]
      /\ secret' = [secret EXCEPT ![k] = << >>]
      /\ tagged' = {a \in tagged : a[1] \notin {d, k}}
      /\ UNCHANGED <<session, role, unused, req>>
  BY DEF Collect
<1>2. k \in Secret /\ << >> \in Seq(States)
  BY Kinds, EmptySeq
<1>3. /\ db' \in [Db -> Base \cup {NoRow}] /\ db'[d] = NoRow
      /\ \A e \in Db \ {d} : db'[e] = db[e]
      /\ secret' \in [Secret -> Seq(States)]
      /\ \A x \in Secret \ {k} : secret'[x] = secret[x]
  BY <1>1, <1>2 DEF Inv, Typed
<1>4. \A e \in Db \ {d} : /\ PasswordOf[e] \in Secret \ {k}
                          /\ e \notin {d, k} /\ PasswordOf[e] \notin {d, k}
  BY Kinds
<1> HIDE DEF k
<1>5. DatabaseIsWhole'
  BY <1>1, <1>3, <1>4 DEF Inv, DatabaseIsWhole
<1>6. Used' /\ \A q \in Req : req'[q] # Idle => Fresh(req[q])'
  BY <1>1, <1>3 DEF Inv, Used, Knows, Fresh
<1>7. RowsMove
  BY <1>1, <1>3, <1>4, <1>5, <1>6 DEF RowsMove
<1> QED
  BY <1>1, <1>7 DEF Elsewhere, Shaped, Inv, Typed

LEMMA EnvironmentShape ==
    ASSUME Inv, Environment
    PROVE  Shaped
<1>1. ASSUME UNCHANGED <<unused, db, secret, tagged, req>> PROVE RowsMove
  BY <1>1 DEF RowsMove, Inv, Typed, Used, DatabaseIsWhole, Knows, Fresh
<1>2. ASSUME NEW s \in Subject, RevokeSession(s) PROVE Shaped
  BY <1>1, <1>2 DEF RevokeSession, Elsewhere, Shaped, Inv, Typed
<1>3. ASSUME NEW p \in Project, NEW s \in Subject, NEW g \in Grade \cup {NoRole},
             Regrade(p, s, g)
      PROVE  Shaped
  <2>1. role' \in [Project -> [Subject -> Role \cup {NoRole}]]
    BY <1>3, RoleAssumption DEF Regrade, Inv, Typed
  <2> QED
    BY <1>1, <1>3, <2>1 DEF Regrade, Elsewhere, Shaped, Inv, Typed
<1> QED
  BY <1>2, <1>3, CollectShape DEF Environment

-----------------------------------------------------------------------------
LEMMA NextShape ==
    ASSUME Inv, Next
    PROVE  Shaped \/ UNCHANGED vars
<1>1. ASSUME NEW r \in Req, req[r] # Idle, Progress(r) \/ Fail(r) PROVE Shaped
  BY <1>1, CreateDatabaseShape, CreateSecretShape, DatabaseWritesShape, SecretWritesShape,
     DeleteSecretShape, TagShape, UriShape, SecretReadShape, QuietShape DEF Progress
<1> QED
  BY <1>1, BeginRequestShape, EnvironmentShape DEF Next

LEMMA InitHolds == Init => Inv
<1> SUFFICES ASSUME Init PROVE Inv
  OBVIOUS
<1>1. << >> \in Seq(States)
  BY EmptySeq
<1>2. Typed
  BY <1>1, RoleAssumption DEF Init, Typed
<1> QED
  BY <1>2 DEF Init, Inv, Used, CreatesApart, DatabaseIsWhole, Idle

LEMMA StepKeeps == Inv /\ [Next]_vars => Inv'
<1>1. Inv /\ UNCHANGED vars => Inv'
  BY DEF Inv, vars, Typed, Used, CreatesApart, DatabaseIsWhole, Knows, Fixed, Fresh, Kept
<1> QED
  BY <1>1, NextShape, ShapesKeep

LEMMA Invariant == Spec => []Inv
BY InitHolds, StepKeeps, PTL DEF Spec

-----------------------------------------------------------------------------
\* A database has its secret, the version its verifier names and the tag that
\* ties the two, however creations, deletions, applications and collections
\* of any number of databases overlap.
THEOREM WholeDatabases == Spec => []DatabaseIsWhole
<1>1. Inv => DatabaseIsWhole
  BY DEF Inv
<1> QED
  BY <1>1, Invariant, PTL

\* Who is no member and has no authorized request left writes nothing to the
\* project and obtains no plaintext from it, however many requests he sends.
THEOREM OutsidersStay == Spec => OutsidersAreOut
<1>1. Inv /\ [Next]_vars =>
        [\A p \in Project, s \in Subject :
           Outside(p, s) /\ role'[p][s] = NoRole => Outside(p, s)']_vars
  BY NextShape, OutsidersStayOut
<1> QED
  BY <1>1, Invariant, PTL DEF Spec, OutsidersAreOut

\* Who is signed out and has no request on a live route left stays without
\* one, and no other request of his ever comes to write or to a plaintext.
THEOREM SignedOutForGood == Spec => SignedOutOnlyReads
<1>1. Inv /\ [Next]_vars =>
        [\A s \in Subject : SignedOut(s) => SignedOut(s)' /\ DecidedFor(s)' = {}]_vars
  BY NextShape, SignedOutStays
<1> QED
  BY <1>1, Invariant, PTL DEF Spec, SignedOutOnlyReads

\* No step of a request changes a row, or the tags, of a resource of another
\* project, and none is about to answer with a plaintext of another project.
THEOREM TenantsApartForGood == Spec => TenantsStayApart
<1>1. Inv /\ [Next]_vars =>
        [/\ \A r \in Req : req'[r] # req[r] /\ req[r] # Idle =>
              \A x \in Resource : Home[x] # req[r].project =>
                  Row(x)' = Row(x) /\ TagsOf(x)' = TagsOf(x)
         /\ \A r \in Req : req'[r].pc = "answer" =>
              Home[req'[r].resource] = req'[r].project]_vars
  BY NextShape, TenantsApart DEF Local
<1> QED
  BY <1>1, Invariant, PTL DEF Spec, TenantsStayApart

-----------------------------------------------------------------------------
(* Types.  A new version has a number within the range only because a      *)
(* request to create one has read a smaller number (Numbered).             *)

Numbered(q) == q.op = "CreateSecretVersion" => q.version < MaxVersion

\* The kinds of requests, one by one.
LEMMA RequestKinds ==
    /\ Call(DbWrite, {"write"}, Db, {0}) \subseteq Request
    /\ Call({"CreateDBInstance"}, {"create"}, Db, {0}) \subseteq Request
    /\ Call({"GetDBInstanceConnection", "RevealDBInstanceURI"},
            {"verifier", "secret"}, Db, {0}) \subseteq Request
    /\ Call({"RevealDBInstanceURI"}, {"desired", "authorize", "answer"}, Db, {0})
         \subseteq Request
    /\ Call({"RevealDBInstanceURI"}, {"material"}, Db, VersionNo) \subseteq Request
    /\ Call({"GetResourceMetricTimeseries"}, {"target", "upstream"}, Db, {0}) \subseteq Request
    /\ Call({"UpdateSecret", "DeleteSecret"}, {"write"}, Secret, {0}) \subseteq Request
    /\ Call({"DisableSecretVersion"}, {"write"}, Secret, VersionNo) \subseteq Request
    /\ Call({"CreateSecret"}, {"create"}, Secret, {0}) \subseteq Request
    /\ Call({"GetSecret"}, {"versions"}, Secret, {0}) \subseteq Request
    /\ Call({"CreateSecretVersion"}, {"write"}, Secret, VersionNo) \subseteq Request
    /\ Call({"RevealSecret", "RevealSecretVersion"}, {"material"}, Secret, VersionNo)
         \subseteq Request
    /\ Call({"RevealSecret", "RevealSecretVersion"}, {"answer"}, Secret, {0}) \subseteq Request
    /\ Call({"ApplySecretVersion"}, {"material", "write"}, Secret, VersionNo) \subseteq Request
BY DEF Request

\* What follows from the place of a request.
LEMMA AtVerifier ==
    ASSUME NEW q \in Request, q.pc \in {"verifier", "secret"}
    PROVE  q \in Call({"GetDBInstanceConnection", "RevealDBInstanceURI"},
                      {"verifier", "secret"}, Db, {0})
BY DEF Request, Call

LEMMA AtDesired ==
    ASSUME NEW q \in Request, q.pc \in {"desired", "authorize"}
    PROVE  q \in Call({"RevealDBInstanceURI"}, {"desired", "authorize", "answer"}, Db, {0})
BY DEF Request, Call

LEMMA AtMaterial ==
    ASSUME NEW q \in Request, q.pc = "material"
    PROVE  \/ q \in Call({"RevealDBInstanceURI"}, {"material"}, Db, VersionNo)
           \/ q \in Call({"RevealSecret", "RevealSecretVersion"}, {"material"},
                         Secret, VersionNo)
           \/ q \in Call({"ApplySecretVersion"}, {"material", "write"}, Secret, VersionNo)
BY DEF Request, Call

LEMMA AtTarget ==
    ASSUME NEW q \in Request, q.pc \in {"target", "upstream"}
    PROVE  q \in Call({"GetResourceMetricTimeseries"}, {"target", "upstream"}, Db, {0})
BY DEF Request, Call

LEMMA AtWrite ==
    ASSUME NEW q \in Request, q.pc = "write"
    PROVE  /\ q.op \in {"ApplySecretVersion", "CreateSecretVersion", "DisableSecretVersion"}
                => q.version \in VersionNo /\ q.resource \in Secret
           /\ q.op \in {"AttachResourceTag", "DetachResourceTag"}
                => q.resource \in Resource /\ q.tag \in Tag \cup {SystemTag}
           /\ q.op \in DbWrite => q.resource \in Db
           /\ q.op = "DeleteSecret" => q.resource \in Secret
BY DEF Request, Call, DbWrite

LEMMA AtCreate ==
    ASSUME NEW q \in Request, q.pc = "create"
    PROVE  /\ q.op = "CreateDBInstance" => q.resource \in Db
           /\ q.op = "CreateSecret" => q.resource \in Secret
BY DEF Request, Call, DbWrite

LEMMA RequestIsSlot ==
    ASSUME NEW q \in Request
    PROVE  q.pc # "idle" /\ q # Idle
<1>1. q.pc # "idle"
  BY DEF Request, Call
<1> QED
  BY <1>1 DEF Idle

\* The types that Typed leaves open.
RowTypes ==
    /\ unused \subseteq {x \in Resource : ~Present(x)}
    /\ db \in [Db -> DbRow \cup {NoRow}]
    /\ tagged \subseteq {x \in Resource : Present(x)} \X (Tag \cup {SystemTag})
    /\ \A k \in Secret : Len(secret[k]) <= MaxVersion
RequestTypes ==
    /\ req \in [Req -> Request \cup {Idle}]
    /\ \A r \in Req : req[r] # Idle => Numbered(req[r])

LEMMA RowsStay == RowTypes /\ UNCHANGED <<unused, db, secret, tagged>> => RowTypes'
BY DEF RowTypes, Present

LEMMA RequestsStay == RequestTypes /\ UNCHANGED req => RequestTypes'
BY DEF RequestTypes, Numbered

\* A request that is in flight is a request.
LEMMA InFlight ==
    ASSUME RequestTypes, NEW r \in Req, req[r] # Idle \/ req[r].pc # "idle"
    PROVE  req[r] \in Request /\ req[r] # Idle /\ Numbered(req[r])
BY DEF RequestTypes, Idle

LEMMA TakeTyped ==
    ASSUME RequestTypes, NEW r \in Req, NEW v \in Request, Numbered(v), Takes(r, v)
    PROVE  RequestTypes'
<1>1. /\ req' \in [Req -> Request \cup {Idle}] /\ req'[r] = v
      /\ \A q \in Req \ {r} : req'[q] = req[q]
  BY DEF RequestTypes, Takes
<1>2. ASSUME NEW q \in Req, req'[q] # Idle PROVE Numbered(req'[q])
  BY <1>1, <1>2 DEF RequestTypes
<1> QED
  BY <1>1, <1>2 DEF RequestTypes, Numbered

LEMMA FinishTyped ==
    ASSUME RequestTypes, NEW r \in Req, Finish(r)
    PROVE  RequestTypes'
<1>1. /\ req' \in [Req -> Request \cup {Idle}] /\ req'[r] = Idle
      /\ \A q \in Req \ {r} : req'[q] = req[q]
  BY DEF RequestTypes, Finish
<1>2. ASSUME NEW q \in Req, req'[q] # Idle PROVE Numbered(req'[q])
  BY <1>1, <1>2 DEF RequestTypes
<1> QED
  BY <1>1, <1>2 DEF RequestTypes, Numbered

\* The calls that a handler begins, by operation.
Starts(op, pc, x, v) ==
    \/ op \in DbWrite /\ pc = "write" /\ x \in Db /\ v = 0
    \/ op = "CreateDBInstance" /\ pc = "create" /\ x \in Db /\ v = 0
    \/ op \in {"GetDBInstanceConnection", "RevealDBInstanceURI"} /\ pc = "verifier"
       /\ x \in Db /\ v = 0
    \/ op = "GetResourceMetricTimeseries" /\ pc = "target" /\ x \in Db /\ v = 0
    \/ op \in {"UpdateSecret", "DeleteSecret"} /\ pc = "write" /\ x \in Secret /\ v = 0
    \/ op = "CreateSecret" /\ pc = "create" /\ x \in Secret /\ v = 0
    \/ op = "GetSecret" /\ pc = "versions" /\ x \in Secret /\ v = 0
    \/ op = "DisableSecretVersion" /\ pc = "write" /\ x \in Secret /\ v \in VersionNo
    \/ op = "CreateSecretVersion" /\ pc = "write" /\ x \in Secret /\ v \in VersionNo
       /\ v < MaxVersion
    \/ op \in {"RevealSecret", "RevealSecretVersion", "ApplySecretVersion"}
       /\ pc = "material" /\ x \in Secret /\ v \in VersionNo

LEMMA StartIsRequest ==
    ASSUME NEW op, NEW pc, NEW x, NEW v, NEW s \in Subject, NEW p \in Project,
           Starts(op, pc, x, v)
    PROVE  [op |-> op, pc |-> pc, subject |-> s, project |-> p, resource |-> x,
            version |-> v] \in Request
<1> DEFINE w == [op |-> op, pc |-> pc, subject |-> s, project |-> p, resource |-> x,
                 version |-> v]
<1>0. ASSUME NEW ops, NEW places, NEW targets, NEW versions,
             op \in ops, pc \in places, x \in targets, v \in versions
      PROVE  w \in Call(ops, places, targets, versions)
  BY <1>0 DEF Call
<1>1. CASE op \in DbWrite /\ pc = "write" /\ x \in Db /\ v = 0
  <2>1. w \in Call(DbWrite, {"write"}, Db, {0})
    BY <1>0, <1>1
  <2> QED
    BY <2>1, RequestKinds
<1>2. CASE op = "CreateDBInstance" /\ pc = "create" /\ x \in Db /\ v = 0
  <2>1. w \in Call({"CreateDBInstance"}, {"create"}, Db, {0})
    BY <1>0, <1>2
  <2> QED
    BY <2>1, RequestKinds
<1>3. CASE op \in {"GetDBInstanceConnection", "RevealDBInstanceURI"} /\ pc = "verifier"
           /\ x \in Db /\ v = 0
  <2>1. w \in Call({"GetDBInstanceConnection", "RevealDBInstanceURI"},
                   {"verifier", "secret"}, Db, {0})
    BY <1>0, <1>3
  <2> QED
    BY <2>1, RequestKinds
<1>4. CASE op = "GetResourceMetricTimeseries" /\ pc = "target" /\ x \in Db /\ v = 0
  <2>1. w \in Call({"GetResourceMetricTimeseries"}, {"target", "upstream"}, Db, {0})
    BY <1>0, <1>4
  <2> QED
    BY <2>1, RequestKinds
<1>5. CASE op \in {"UpdateSecret", "DeleteSecret"} /\ pc = "write" /\ x \in Secret /\ v = 0
  <2>1. w \in Call({"UpdateSecret", "DeleteSecret"}, {"write"}, Secret, {0})
    BY <1>0, <1>5
  <2> QED
    BY <2>1, RequestKinds
<1>6. CASE op = "CreateSecret" /\ pc = "create" /\ x \in Secret /\ v = 0
  <2>1. w \in Call({"CreateSecret"}, {"create"}, Secret, {0})
    BY <1>0, <1>6
  <2> QED
    BY <2>1, RequestKinds
<1>7. CASE op = "GetSecret" /\ pc = "versions" /\ x \in Secret /\ v = 0
  <2>1. w \in Call({"GetSecret"}, {"versions"}, Secret, {0})
    BY <1>0, <1>7
  <2> QED
    BY <2>1, RequestKinds
<1>8. CASE op = "DisableSecretVersion" /\ pc = "write" /\ x \in Secret /\ v \in VersionNo
  <2>1. w \in Call({"DisableSecretVersion"}, {"write"}, Secret, VersionNo)
    BY <1>0, <1>8
  <2> QED
    BY <2>1, RequestKinds
<1>9. CASE op = "CreateSecretVersion" /\ pc = "write" /\ x \in Secret /\ v \in VersionNo
           /\ v < MaxVersion
  <2>1. w \in Call({"CreateSecretVersion"}, {"write"}, Secret, VersionNo)
    BY <1>0, <1>9
  <2> QED
    BY <2>1, RequestKinds
<1>10. CASE op \in {"RevealSecret", "RevealSecretVersion", "ApplySecretVersion"}
            /\ pc = "material" /\ x \in Secret /\ v \in VersionNo
  <2>1. \/ w \in Call({"RevealSecret", "RevealSecretVersion"}, {"material"}, Secret, VersionNo)
        \/ w \in Call({"ApplySecretVersion"}, {"material", "write"}, Secret, VersionNo)
    BY <1>10 DEF Call
  <2> QED
    BY <2>1, RequestKinds
<1> QED
  BY <1>1, <1>2, <1>3, <1>4, <1>5, <1>6, <1>7, <1>8, <1>9, <1>10, Zenon DEF Starts

LEMMA BeginTyped ==
    ASSUME RequestTypes, NEW r \in Req, NEW s \in Subject, NEW p \in Project, NEW op, NEW pc,
           NEW x, NEW v, Starts(op, pc, x, v), Begin(r, s, p, op, pc, x, v)
    PROVE  RequestTypes' /\ Reads
<1> DEFINE w == [op |-> op, pc |-> pc, subject |-> s, project |-> p, resource |-> x,
                 version |-> v]
<1>1. w \in Request
  BY StartIsRequest
<1>2. Takes(r, w) /\ Reads /\ w.op = op /\ w.version = v
  BY DEF Begin, Takes
<1> HIDE DEF w
<1>3. Numbered(w)
  BY <1>2 DEF Starts, Numbered, DbWrite
<1> QED
  BY <1>1, <1>2, <1>3, TakeTyped

LEMMA BeginTagTyped ==
    ASSUME RequestTypes, NEW r \in Req, NEW s \in Subject, NEW p \in Project,
           NEW op \in {"AttachResourceTag", "DetachResourceTag"}, NEW x \in Resource,
           NEW t \in Tag \cup {SystemTag}, BeginTag(r, s, p, op, x, t)
    PROVE  RequestTypes' /\ Reads
<1> DEFINE w == [op |-> op, pc |-> "write", subject |-> s, project |-> p, resource |-> x,
                 tag |-> t]
<1>1. w \in Request
  BY DEF Request
<1>2. Takes(r, w) /\ Reads /\ w.op # "CreateSecretVersion"
  BY DEF BeginTag, Takes
<1> HIDE DEF w
<1>3. Numbered(w)
  BY <1>2 DEF Numbered
<1> QED
  BY <1>1, <1>2, <1>3, TakeTyped

\* The version that is current has a number as soon as there is one.
LEMMA CurrentIsNumber ==
    ASSUME Inv, RowTypes, NEW k \in Secret, NEW p, Found(p, k)
    PROVE  Current(k) \in VersionNo
<1>1. secret[k] # << >>
  BY Kinds, KindAssumption DEF Found, ResourcesOf, Present
<1>2. secret[k] \in Seq(States)
  BY DEF Inv, Typed
<1>3. Len(secret[k]) \in Nat /\ Len(secret[k]) # 0
  BY <1>1, <1>2, EmptySeq
<1>4. Len(secret[k]) <= MaxVersion /\ MaxVersion \in Nat
  BY MaxVersionAssumption DEF RowTypes
<1> QED
  BY <1>3, <1>4 DEF Current, VersionNo

LEMMA BeginDatabaseTyped ==
    ASSUME RequestTypes, NEW r \in Req, NEW s \in Subject, NEW p \in Project, NEW d \in Db,
           BeginDatabase(r, s, p, d)
    PROVE  (RequestTypes' /\ Reads) \/ UNCHANGED vars
<1>1. ASSUME NEW op \in DbWrite, Begin(r, s, p, op, "write", d, 0)
      PROVE  RequestTypes' /\ Reads
  <2>1. Starts(op, "write", d, 0)
    BY DEF Starts
  <2> QED
    BY <1>1, <2>1, BeginTyped
<1>2. CASE CreateDBInstance(r, s, p, d)
  <2>1. Starts("CreateDBInstance", "create", d, 0)
    BY DEF Starts
  <2> QED
    BY <1>2, <2>1, BeginTyped DEF CreateDBInstance
<1>3. CASE GetDBInstance(s, p, d)
  BY <1>3 DEF GetDBInstance, Shows
<1>4. CASE GetDBInstanceConnection(r, s, p, d)
  <2>1. Starts("GetDBInstanceConnection", "verifier", d, 0)
    BY DEF Starts
  <2> QED
    BY <1>4, <2>1, BeginTyped DEF GetDBInstanceConnection
<1>5. CASE RevealDBInstanceURI(r, s, p, d)
  <2>1. Starts("RevealDBInstanceURI", "verifier", d, 0)
    BY DEF Starts
  <2> QED
    BY <1>5, <2>1, BeginTyped DEF RevealDBInstanceURI
<1>6. CASE GetResourceMetricTimeseries(r, s, p, d)
  <2>1. Starts("GetResourceMetricTimeseries", "target", d, 0)
    BY DEF Starts
  <2> QED
    BY <1>6, <2>1, BeginTyped DEF GetResourceMetricTimeseries
<1> QED
  BY <1>1, <1>2, <1>3, <1>4, <1>5, <1>6 DEF BeginDatabase

LEMMA BeginSecretTyped ==
    ASSUME Inv, RowTypes, RequestTypes, NEW r \in Req, NEW s \in Subject, NEW p \in Project,
           NEW k \in Secret, BeginSecret(r, s, p, k)
    PROVE  (RequestTypes' /\ Reads) \/ UNCHANGED vars
<1>1. CASE CreateSecret(r, s, p, k)
  <2>1. Starts("CreateSecret", "create", k, 0)
    BY DEF Starts
  <2> QED
    BY <1>1, <2>1, BeginTyped DEF CreateSecret
<1>2. CASE GetSecret(r, s, p, k)
  <2>1. Starts("GetSecret", "versions", k, 0)
    BY DEF Starts
  <2> QED
    BY <1>2, <2>1, BeginTyped DEF GetSecret
<1>3. CASE UpdateSecret(r, s, p, k)
  <2>1. Starts("UpdateSecret", "write", k, 0)
    BY DEF Starts
  <2> QED
    BY <1>3, <2>1, BeginTyped DEF UpdateSecret
<1>4. CASE ListSecretVersions(s, p, k)
  BY <1>4 DEF ListSecretVersions, Shows
<1>5. CASE BeginCreateSecretVersion(r, s, p, k)
  <2>1. Current(k) \in VersionNo /\ Current(k) < MaxVersion
    BY <1>5, CurrentIsNumber DEF BeginCreateSecretVersion
  <2>2. Starts("CreateSecretVersion", "write", k, Current(k))
    BY <2>1 DEF Starts
  <2> QED
    BY <1>5, <2>2, BeginTyped DEF BeginCreateSecretVersion
<1>6. CASE RevealSecret(r, s, p, k)
  <2>1. Current(k) \in VersionNo
    BY <1>6, CurrentIsNumber DEF RevealSecret
  <2>2. Starts("RevealSecret", "material", k, Current(k))
    BY <2>1 DEF Starts
  <2> QED
    BY <1>6, <2>2, BeginTyped DEF RevealSecret
<1>7. CASE DeletableSecret(r, s, p, k)
  <2>1. Starts("DeleteSecret", "write", k, 0)
    BY DEF Starts
  <2> QED
    BY <1>7, <2>1, BeginTyped DEF DeletableSecret
<1>8. ASSUME NEW v \in VersionNo,
             \/ GetSecretVersion(s, p, k, v)
             \/ BeginDisableSecretVersion(r, s, p, k, v)
             \/ RevealSecretVersion(r, s, p, k, v)
             \/ ApplySecretVersion(r, s, p, k, v)
      PROVE  (RequestTypes' /\ Reads) \/ UNCHANGED vars
  <2>1. CASE GetSecretVersion(s, p, k, v)
    BY <2>1 DEF GetSecretVersion, Shows
  <2>2. CASE BeginDisableSecretVersion(r, s, p, k, v)
    <3>1. Starts("DisableSecretVersion", "write", k, v)
      BY DEF Starts
    <3> QED
      BY <2>2, <3>1, BeginTyped DEF BeginDisableSecretVersion
  <2>3. CASE RevealSecretVersion(r, s, p, k, v)
    <3>1. Starts("RevealSecretVersion", "material", k, v)
      BY DEF Starts
    <3> QED
      BY <2>3, <3>1, BeginTyped DEF RevealSecretVersion
  <2>4. CASE ApplySecretVersion(r, s, p, k, v)
    <3>1. Starts("ApplySecretVersion", "material", k, v)
      BY DEF Starts
    <3> QED
      BY <2>4, <3>1, BeginTyped DEF ApplySecretVersion
  <2> QED
    BY <1>8, <2>1, <2>2, <2>3, <2>4
<1> QED
  BY <1>1, <1>2, <1>3, <1>4, <1>5, <1>6, <1>7, <1>8 DEF BeginSecret

LEMMA BeginRequestTyped ==
    ASSUME Inv, RowTypes, RequestTypes, NEW r \in Req, NEW s \in Subject, NEW p \in Project,
           BeginRequest(r, s, p)
    PROVE  (RequestTypes' /\ Reads) \/ UNCHANGED vars
<1>1. ASSUME NEW x \in Taggable, BeginTagRequest(r, s, p, x)
      PROVE  (RequestTypes' /\ Reads) \/ UNCHANGED vars
  <2>1. x \in Resource
    BY KindAssumption
  <2>2. CASE ListResourceTags(s, p, x)
    BY <2>2 DEF ListResourceTags, Shows
  <2>3. ASSUME NEW t \in Tag \cup {SystemTag},
               \/ BeginTag(r, s, p, "AttachResourceTag", x, t)
               \/ BeginTag(r, s, p, "DetachResourceTag", x, t)
        PROVE  RequestTypes' /\ Reads
    BY <2>1, <2>3, BeginTagTyped
  <2> QED
    BY <1>1, <2>2, <2>3 DEF BeginTagRequest
<1>2. ListDBInstances(s, p) \/ ListSecrets(s, p) \/ ListProjectTags(s, p) => UNCHANGED vars
  BY DEF ListDBInstances, ListSecrets, ListProjectTags, Shows
<1> QED
  BY <1>1, <1>2, BeginDatabaseTyped, BeginSecretTyped DEF BeginRequest

-----------------------------------------------------------------------------
(* The steps of a request that only read *)

\* A request moves on: its place changes, or its version too.
LEMMA GotoTyped ==
    ASSUME RequestTypes, NEW r \in Req, NEW pc, Goto(r, pc), req[r] \in Request,
           [req[r] EXCEPT !.pc = pc] \in Request
    PROVE  RequestTypes'
<1> DEFINE v == [req[r] EXCEPT !.pc = pc]
<1>1. Takes(r, v)
  BY DEF Goto, Takes, RequestTypes
<1>2. v.op = req[r].op /\ v.version = req[r].version
  BY DEF Request, Call
<1>3. Numbered(req[r])
  BY RequestIsSlot DEF RequestTypes
<1> HIDE DEF v
<1>4. Numbered(v)
  BY <1>2, <1>3 DEF Numbered
<1>5. v \in Request
  BY DEF v
<1> QED
  BY <1>1, <1>4, <1>5, TakeTyped

LEMMA LearnedTyped ==
    ASSUME RequestTypes, NEW r \in Req, NEW pc, NEW n, NEW v \in Request, v.op = req[r].op,
           v.op # "CreateSecretVersion",
           req' = [req EXCEPT ![r] = [req[r] EXCEPT !.pc = pc, !.version = n]],
           v = [req[r] EXCEPT !.pc = pc, !.version = n]
    PROVE  RequestTypes'
<1>1. Takes(r, v) /\ Numbered(v)
  BY DEF Takes, Numbered
<1> QED
  BY <1>1, TakeTyped

LEMMA UriTyped ==
    ASSUME RowTypes, RequestTypes, NEW r \in Req, req[r] # Idle,
           \/ ReadVerifier(r) \/ ReadPasswordSecret(r) \/ ReadDesiredVersion(r)
           \/ ReadPasswordMaterial(r) \/ AuthorizeReveal(r)
    PROVE  RequestTypes' /\ Reads
<1> DEFINE q == req[r]
<1>0. q \in Request
  BY InFlight
<1> HIDE DEF q
<1>1. CASE ReadVerifier(r)
  <2>1. CASE Finish(r)
    BY <1>1, <2>1, FinishTyped DEF ReadVerifier
  <2>2. CASE Goto(r, "secret")
    <3>1. q \in Call({"GetDBInstanceConnection", "RevealDBInstanceURI"},
                     {"verifier", "secret"}, Db, {0})
      BY <1>0, <1>1, AtVerifier DEF ReadVerifier, q
    <3>2. [q EXCEPT !.pc = "secret"] \in
            Call({"GetDBInstanceConnection", "RevealDBInstanceURI"},
                 {"verifier", "secret"}, Db, {0})
      BY <3>1 DEF Call
    <3>3. [req[r] EXCEPT !.pc = "secret"] \in Request
      BY <3>2, RequestKinds DEF q
    <3> QED
      BY <1>0, <1>1, <2>2, <3>3, GotoTyped DEF ReadVerifier, q
  <2> QED
    BY <1>1, <2>1, <2>2 DEF ReadVerifier
<1>2. CASE ReadPasswordSecret(r)
  <2>1. CASE Finish(r)
    BY <1>2, <2>1, FinishTyped DEF ReadPasswordSecret
  <2>2. CASE Goto(r, "desired") /\ req[r].op = "RevealDBInstanceURI"
    <3>1. q \in Call({"GetDBInstanceConnection", "RevealDBInstanceURI"},
                     {"verifier", "secret"}, Db, {0})
      BY <1>0, <1>2, AtVerifier DEF ReadPasswordSecret, q
    <3>2. q.op = "RevealDBInstanceURI"
      BY <2>2 DEF q
    <3>3. [q EXCEPT !.pc = "desired"] \in
            Call({"RevealDBInstanceURI"}, {"desired", "authorize", "answer"}, Db, {0})
      BY <3>1, <3>2 DEF Call
    <3>4. [req[r] EXCEPT !.pc = "desired"] \in Request
      BY <3>3, RequestKinds DEF q
    <3> QED
      BY <1>0, <1>2, <2>2, <3>4, GotoTyped DEF ReadPasswordSecret, q
  <2> QED
    BY <1>2, <2>1, <2>2 DEF ReadPasswordSecret
<1>3. CASE ReadDesiredVersion(r)
  <2> DEFINE n == db[req[r].resource].version
             v == [q EXCEPT !.pc = "material", !.version = n]
  <2>1. CASE Finish(r)
    BY <1>3, <2>1, FinishTyped DEF ReadDesiredVersion
  <2>2. CASE /\ ~Missing(r)
             /\ req' = [req EXCEPT ![r] =
                         [req[r] EXCEPT !.pc = "material", !.version = n]]
    <3>1. q \in Call({"RevealDBInstanceURI"}, {"desired", "authorize", "answer"}, Db, {0})
      BY <1>0, <1>3, AtDesired DEF ReadDesiredVersion, q
    <3>2. req[r].resource \in Db
      BY <3>1 DEF Call, q
    <3>3. db[req[r].resource] # NoRow
      BY <2>2, <3>2 DEF Missing, Found, ResourcesOf, Present
    <3>4. n \in VersionNo
      BY <3>2, <3>3 DEF RowTypes, DbRow
    <3> HIDE DEF n
    <3>5. v \in Call({"RevealDBInstanceURI"}, {"material"}, Db, VersionNo) /\ v.op = q.op
          /\ q.op = "RevealDBInstanceURI"
      BY <3>1, <3>4 DEF Call
    <3>6. v \in Request
      BY <3>5, RequestKinds
    <3>7. v = [req[r] EXCEPT !.pc = "material", !.version = n]
      BY DEF q
    <3> HIDE DEF v
    <3>8. v.op = req[r].op /\ v.op # "CreateSecretVersion"
      BY <3>5 DEF q
    <3>9. RequestTypes'
      BY <2>2, <3>6, <3>7, <3>8, LearnedTyped
    <3> QED
      BY <1>3, <3>9 DEF ReadDesiredVersion
  <2> QED
    BY <1>3, <2>1, <2>2 DEF ReadDesiredVersion
<1>4. CASE ReadPasswordMaterial(r)
  <2> DEFINE v == [q EXCEPT !.pc = "authorize", !.version = 0]
  <2>1. CASE Finish(r)
    BY <1>4, <2>1, FinishTyped DEF ReadPasswordMaterial
  <2>2. CASE Learned(r, "authorize")
    <3>1. q.pc = "material" /\ q.op = "RevealDBInstanceURI"
      BY <1>4 DEF ReadPasswordMaterial, At, q
    <3>2. q \in Call({"RevealDBInstanceURI"}, {"material"}, Db, VersionNo)
      BY <1>0, <3>1 DEF Call, Request
    <3>3. v \in Call({"RevealDBInstanceURI"}, {"desired", "authorize", "answer"}, Db, {0})
          /\ v.op = q.op
      BY <3>2 DEF Call
    <3>4. v \in Request
      BY <3>3, RequestKinds
    <3>5. v = [req[r] EXCEPT !.pc = "authorize", !.version = 0]
      BY DEF q
    <3>6. req' = [req EXCEPT ![r] = [req[r] EXCEPT !.pc = "authorize", !.version = 0]]
      BY <2>2 DEF Learned
    <3> HIDE DEF v
    <3>7. v.op = req[r].op /\ v.op # "CreateSecretVersion"
      BY <3>1, <3>3 DEF q
    <3>8. RequestTypes'
      BY <3>4, <3>5, <3>6, <3>7, LearnedTyped
    <3> QED
      BY <1>4, <3>8 DEF ReadPasswordMaterial
  <2> QED
    BY <1>4, <2>1, <2>2 DEF ReadPasswordMaterial
<1>5. CASE AuthorizeReveal(r)
  <2>1. CASE Finish(r)
    BY <1>5, <2>1, FinishTyped DEF AuthorizeReveal
  <2>2. CASE Goto(r, "answer")
    <3>1. q \in Call({"RevealDBInstanceURI"}, {"desired", "authorize", "answer"}, Db, {0})
      BY <1>0, <1>5, AtDesired DEF AuthorizeReveal, q
    <3>2. [q EXCEPT !.pc = "answer"] \in
            Call({"RevealDBInstanceURI"}, {"desired", "authorize", "answer"}, Db, {0})
      BY <3>1 DEF Call
    <3>3. [req[r] EXCEPT !.pc = "answer"] \in Request
      BY <3>2, RequestKinds DEF q
    <3> QED
      BY <1>0, <1>5, <2>2, <3>3, GotoTyped DEF AuthorizeReveal, q
  <2> QED
    BY <1>5, <2>1, <2>2 DEF AuthorizeReveal
<1> QED
  BY <1>1, <1>2, <1>3, <1>4, <1>5

LEMMA OtherReadsTyped ==
    ASSUME RowTypes, RequestTypes, NEW r \in Req, req[r] # Idle,
           \/ UpdateDatabase(r) \/ QueryResourceMetric(r) \/ GetSecretVersions(r)
           \/ UpdateSecretMeta(r) \/ ReadMaterial(r) \/ Answer(r) \/ ApplyReadsMaterial(r)
           \/ Fail(r)
    PROVE  RequestTypes' /\ Reads
<1> DEFINE q == req[r]
<1>0. q \in Request
  BY InFlight
<1> HIDE DEF q
<1>1. CASE \/ UpdateDatabase(r) \/ QueryRange(r) \/ GetSecretVersions(r)
           \/ UpdateSecretMeta(r) \/ Answer(r) \/ Fail(r)
  BY <1>1, FinishTyped
     DEF UpdateDatabase, QueryRange, GetSecretVersions, UpdateSecretMeta, Answer, Fail
<1>2. CASE ResolveTarget(r)
  <2>1. q \in Call({"GetResourceMetricTimeseries"}, {"target", "upstream"}, Db, {0})
    BY <1>0, <1>2, AtTarget DEF ResolveTarget, q
  <2>2. [q EXCEPT !.pc = "upstream"] \in
          Call({"GetResourceMetricTimeseries"}, {"target", "upstream"}, Db, {0})
    BY <2>1 DEF Call
  <2>3. [req[r] EXCEPT !.pc = "upstream"] \in Request
    BY <2>2, RequestKinds DEF q
  <2> QED
    BY <1>0, <1>2, <2>3, GotoTyped DEF ResolveTarget, q
<1>3. CASE ReadMaterial(r)
  <2> DEFINE v == [q EXCEPT !.pc = "answer", !.version = 0]
  <2>1. CASE Finish(r)
    BY <1>3, <2>1, FinishTyped DEF ReadMaterial
  <2>2. CASE Learned(r, "answer")
    <3>1. q.pc = "material" /\ q.op \in {"RevealSecret", "RevealSecretVersion"}
      BY <1>3 DEF ReadMaterial, At, q
    <3>2. q \in Call({"RevealSecret", "RevealSecretVersion"}, {"material"}, Secret, VersionNo)
      BY <1>0, <3>1 DEF Call, Request
    <3>3. v \in Call({"RevealSecret", "RevealSecretVersion"}, {"answer"}, Secret, {0})
          /\ v.op = q.op
      BY <3>2 DEF Call
    <3>4. v \in Request
      BY <3>3, RequestKinds
    <3>5. v = [req[r] EXCEPT !.pc = "answer", !.version = 0]
      BY DEF q
    <3>6. req' = [req EXCEPT ![r] = [req[r] EXCEPT !.pc = "answer", !.version = 0]]
      BY <2>2 DEF Learned
    <3> HIDE DEF v
    <3>7. v.op = req[r].op /\ v.op # "CreateSecretVersion"
      BY <3>1, <3>3 DEF q
    <3>8. RequestTypes'
      BY <3>4, <3>5, <3>6, <3>7, LearnedTyped
    <3> QED
      BY <1>3, <3>8 DEF ReadMaterial
  <2> QED
    BY <1>3, <2>1, <2>2 DEF ReadMaterial
<1>4. CASE ApplyReadsMaterial(r)
  <2>1. CASE Finish(r)
    BY <1>4, <2>1, FinishTyped DEF ApplyReadsMaterial
  <2>2. CASE Goto(r, "write")
    <3>1. q.pc = "material" /\ q.op = "ApplySecretVersion"
      BY <1>4 DEF ApplyReadsMaterial, At, q
    <3>2. q \in Call({"ApplySecretVersion"}, {"material", "write"}, Secret, VersionNo)
      BY <1>0, <3>1 DEF Call, Request
    <3>3. [q EXCEPT !.pc = "write"] \in
            Call({"ApplySecretVersion"}, {"material", "write"}, Secret, VersionNo)
      BY <3>2 DEF Call
    <3>4. [req[r] EXCEPT !.pc = "write"] \in Request
      BY <3>3, RequestKinds DEF q
    <3> QED
      BY <1>0, <1>4, <2>2, <3>4, GotoTyped DEF ApplyReadsMaterial, q
  <2> QED
    BY <1>4, <2>1, <2>2 DEF ApplyReadsMaterial
<1> QED
  BY <1>1, <1>2, <1>3, <1>4 DEF QueryResourceMetric

-----------------------------------------------------------------------------
(* The transactions *)

\* A transaction that creates nothing and removes nothing.
LEMMA PresenceStays ==
    ASSUME RowTypes, UNCHANGED <<unused, tagged>>,
           db' \in [Db -> DbRow \cup {NoRow}],
           \A d \in Db : db'[d] = NoRow <=> db[d] = NoRow,
           \A k \in Secret : secret'[k] = << >> <=> secret[k] = << >>,
           \A k \in Secret : Len(secret'[k]) <= MaxVersion
    PROVE  RowTypes'
<1>1. \A x \in Resource : Present(x)' <=> Present(x)
  BY DEF Present, Resource
<1> QED
  BY <1>1 DEF RowTypes

LEMMA DatabaseWriteTyped ==
    ASSUME RowTypes, NEW r \in Req, req[r] \in Request,
           SetDatabaseDesiredRuntimeState(r) \/ ClaimDatabaseTermination(r)
    PROVE  RowTypes' /\ Finish(r)
<1> DEFINE d == req[r].resource
<1>0. UNCHANGED <<unused, secret, tagged>> /\ Finish(r)
  BY DEF SetDatabaseDesiredRuntimeState, ClaimDatabaseTermination
<1>1. CASE db' = db
  BY <1>0, <1>1, RowsStay
<1>2. CASE ~Missing(r) /\ db' # db
  <2>1. req[r].pc = "write" /\ req[r].op \in DbWrite
    BY DEF SetDatabaseDesiredRuntimeState, ClaimDatabaseTermination, At, DbWrite
  <2>2. d \in Db
    BY <2>1, AtWrite
  <2>3. db[d] # NoRow
    BY <1>2, <2>2 DEF Missing, Found, ResourcesOf, Present
  <2>4. db[d] \in DbRow
    BY <2>2, <2>3 DEF RowTypes
  <2>5. PICK row \in {[db[d] EXCEPT !.desired = "running"],
                      [db[d] EXCEPT !.desired = "terminated", !.password = "absent"]} :
          db' = [db EXCEPT ![d] = row]
    <3>1. CASE SetDatabaseDesiredRuntimeState(r)
      BY <1>2, <2>2, <3>1 DEF SetDatabaseDesiredRuntimeState, RowTypes
    <3>2. CASE ClaimDatabaseTermination(r)
      <4>1. db' = [db EXCEPT ![d].desired = "terminated", ![d].password = "absent"]
        BY <1>2, <3>2 DEF ClaimDatabaseTermination
      <4>2. db' = [db EXCEPT ![d] = [db[d] EXCEPT !.desired = "terminated",
                                                   !.password = "absent"]]
        BY <2>2, <4>1 DEF RowTypes
      <4> QED
        BY <4>2
    <3> QED
      BY <3>1, <3>2
  <2>6. row \in DbRow
    BY <2>4, <2>5 DEF DbRow
  <2>7. DbRow \cap {NoRow} = {}
    BY DEF DbRow, NoRow
  <2> HIDE DEF d
  <2>8. db' \in [Db -> DbRow \cup {NoRow}]
    BY <2>2, <2>5, <2>6 DEF RowTypes
  <2>9. \A e \in Db : db'[e] = NoRow <=> db[e] = NoRow
    BY <2>2, <2>3, <2>5, <2>6, <2>7 DEF RowTypes
  <2> QED
    BY <1>0, <2>8, <2>9, PresenceStays DEF RowTypes
<1> QED
  BY <1>0, <1>1, <1>2 DEF SetDatabaseDesiredRuntimeState, ClaimDatabaseTermination

LEMMA ApplyTyped ==
    ASSUME RowTypes, NEW r \in Req, req[r] \in Request, SetDatabasePasswordSecretVerifier(r)
    PROVE  RowTypes' /\ Finish(r)
<1> DEFINE n == req[r].version
           wanted == {d \in VerifiersOf(req[r].resource) :
                        Home[d] = req[r].project /\ db[d].password = "present"}
<1>1. n \in VersionNo
  BY AtWrite DEF SetDatabasePasswordSecretVerifier, At
<1>2. /\ db' = [d \in Db |-> IF d \in wanted THEN [db[d] EXCEPT !.version = n] ELSE db[d]]
      /\ Finish(r) /\ UNCHANGED <<unused, secret, tagged>>
  BY DEF SetDatabasePasswordSecretVerifier
<1>3. \A d \in wanted : d \in Db /\ db[d] # NoRow
  BY DEF VerifiersOf
<1>4. DbRow \cap {NoRow} = {}
  BY DEF DbRow, NoRow
<1> HIDE DEF n, wanted
<1>5. ASSUME NEW d \in Db
      PROVE  db'[d] \in DbRow \cup {NoRow} /\ (db'[d] = NoRow <=> db[d] = NoRow)
  <2>1. CASE d \in wanted
    <3>1. db[d] \in DbRow
      BY <1>3, <2>1 DEF RowTypes
    <3>2. [db[d] EXCEPT !.version = n] \in DbRow
      BY <1>1, <3>1 DEF DbRow
    <3> QED
      BY <1>2, <1>3, <1>4, <2>1, <3>2
  <2>2. CASE d \notin wanted
    BY <1>2, <2>2 DEF RowTypes
  <2> QED
    BY <2>1, <2>2
<1>6. db' \in [Db -> DbRow \cup {NoRow}]
  BY <1>2, <1>5
<1> QED
  BY <1>2, <1>5, <1>6, PresenceStays DEF RowTypes

LEMMA VersionWriteTyped ==
    ASSUME Inv, RowTypes, NEW r \in Req, req[r] \in Request, Numbered(req[r]),
           CreateSecretVersion(r) \/ DisableSecretVersion(r)
    PROVE  RowTypes' /\ Finish(r)
<1> DEFINE k == req[r].resource
           n == req[r].version
<1>0. UNCHANGED <<unused, db, tagged>> /\ Finish(r)
  BY DEF CreateSecretVersion, DisableSecretVersion
<1>1. k \in Secret /\ n \in VersionNo
  BY AtWrite DEF CreateSecretVersion, DisableSecretVersion, At
<1>2. secret \in [Secret -> Seq(States)]
  BY DEF Inv, Typed
<1>3. MaxVersion \in Nat
  BY MaxVersionAssumption
<1>4. CASE secret' = secret
  BY <1>0, <1>4, RowsStay
<1>5. CASE /\ CreateSecretVersion(r)
           /\ Found(req[r].project, k) /\ Current(k) = n
  <2>1. secret' = [secret EXCEPT ![k] = Append(secret[k], "active")]
    BY <1>2, <1>5 DEF CreateSecretVersion
  <2>2. n < MaxVersion
    BY <1>5 DEF CreateSecretVersion, At, Numbered
  <2>3. Len(secret[k]) = n /\ secret[k] # << >>
    BY <1>1, <1>5, Kinds, KindAssumption DEF Current, Found, ResourcesOf, Present
  <2> HIDE DEF k, n
  <2>4. Len(Append(secret[k], "active")) = n + 1 /\ Append(secret[k], "active") # << >>
    BY <1>1, <1>2, <2>3 DEF States
  <2>5. \A j \in Secret : secret'[j] = << >> <=> secret[j] = << >>
    BY <1>1, <1>2, <2>1, <2>3, <2>4
  <2>6. \A j \in Secret : Len(secret'[j]) <= MaxVersion
    <3>1. n + 1 <= MaxVersion
      BY <1>1, <1>3, <2>2 DEF VersionNo
    <3> QED
      BY <1>1, <1>2, <2>1, <2>4, <3>1 DEF RowTypes
  <2> QED
    BY <1>0, <2>5, <2>6, PresenceStays DEF RowTypes
<1>6. CASE DisableSecretVersion(r) /\ MayDisable(req[r].project, k, n)
  <2>1. secret' = [secret EXCEPT ![k] = [secret[k] EXCEPT ![n] = "disabled"]]
    BY <1>1, <1>2, <1>6 DEF DisableSecretVersion
  <2>2. secret[k] # << >> /\ n \in DOMAIN secret[k] /\ secret[k] \in Seq(States)
    BY <1>1, <1>2, <1>6, Kinds, KindAssumption
       DEF MayDisable, Material, VersionsOf, Found, ResourcesOf, Present
  <2> HIDE DEF k, n
  <2>0. "disabled" \in States
    BY DEF States
  <2>3. /\ [secret[k] EXCEPT ![n] = "disabled"] \in Seq(States)
        /\ Len([secret[k] EXCEPT ![n] = "disabled"]) = Len(secret[k])
    BY <2>0, <2>2
  <2>4. [secret[k] EXCEPT ![n] = "disabled"] # << >>
    BY <1>1, <1>2, <2>2, <2>3, EmptySeq
  <2>5. \A j \in Secret : secret'[j] = << >> <=> secret[j] = << >>
    BY <1>1, <1>2, <2>1, <2>2, <2>4
  <2>6. \A j \in Secret : Len(secret'[j]) <= MaxVersion
    BY <1>1, <1>2, <2>1, <2>3 DEF RowTypes
  <2> QED
    BY <1>0, <2>5, <2>6, PresenceStays DEF RowTypes
<1> QED
  BY <1>0, <1>4, <1>5, <1>6 DEF CreateSecretVersion, DisableSecretVersion

LEMMA CreateDatabaseTyped ==
    ASSUME Inv, RowTypes, NEW r \in Req, req[r] \in Request, CreateDatabase(r)
    PROVE  RowTypes' /\ Finish(r)
<1> DEFINE d == req[r].resource
           k == PasswordOf[d]
           row == [desired |-> "running", password |-> "present", version |-> 1]
<1>1. d \in Db /\ k \in Secret /\ k \notin Db
  BY AtCreate, Kinds, KindAssumption DEF CreateDatabase, At
<1>2. /\ unused' = unused \ {d, k}
      /\ db' = [db EXCEPT ![d] = row]
      /\ secret' = [secret EXCEPT ![k] = <<"active">>]
      /\ tagged' = tagged \cup {<<d, SystemTag>>, <<k, SystemTag>>}
      /\ Finish(r)
  BY DEF CreateDatabase
<1>3. 1 \in VersionNo /\ 1 <= MaxVersion
  BY MaxVersionAssumption DEF VersionNo
<1>4. row \in DbRow /\ row # NoRow
  BY <1>3 DEF DbRow, NoRow
<1>5. Len(<<"active">>) = 1 /\ <<"active">> # << >>
  OBVIOUS
<1> HIDE DEF d, k, row
<1>6. db' \in [Db -> DbRow \cup {NoRow}]
  BY <1>1, <1>2, <1>4 DEF RowTypes
<1>7. \A j \in Secret : Len(secret'[j]) <= MaxVersion
  BY <1>1, <1>2, <1>3, <1>5 DEF RowTypes, Inv, Typed
<1>8. \A x \in Resource : Present(x)' <=> Present(x) \/ x \in {d, k}
  BY <1>1, <1>2, <1>4, <1>5 DEF Present, Resource, RowTypes, Inv, Typed
<1>9. unused' \subseteq {x \in Resource : ~Present(x)'}
  BY <1>2, <1>8 DEF RowTypes
<1>10. tagged' \subseteq {x \in Resource : Present(x)'} \X (Tag \cup {SystemTag})
  <2>1. d \in Resource /\ k \in Resource
    BY <1>1 DEF Resource
  <2>2. {<<d, SystemTag>>, <<k, SystemTag>>}
          \subseteq {x \in Resource : Present(x)'} \X (Tag \cup {SystemTag})
    BY <1>8, <2>1
  <2>3. tagged \subseteq {x \in Resource : Present(x)'} \X (Tag \cup {SystemTag})
    BY <1>8 DEF RowTypes
  <2> QED
    BY <1>2, <2>2, <2>3
<1> QED
  BY <1>2, <1>6, <1>7, <1>9, <1>10 DEF RowTypes

LEMMA CreateSecretTyped ==
    ASSUME Inv, RowTypes, NEW r \in Req, req[r] \in Request, CreateSecretWithInitialVersion(r)
    PROVE  RowTypes' /\ Finish(r)
<1> DEFINE k == req[r].resource
<1>1. k \in Secret /\ k \notin Db
  BY AtCreate, KindAssumption DEF CreateSecretWithInitialVersion, At
<1>2. /\ unused' = unused \ {k}
      /\ secret' = [secret EXCEPT ![k] = <<"active">>]
      /\ Finish(r) /\ UNCHANGED <<db, tagged>>
  BY DEF CreateSecretWithInitialVersion
<1>3. Len(<<"active">>) = 1 /\ <<"active">> # << >> /\ 1 <= MaxVersion
  BY MaxVersionAssumption
<1> HIDE DEF k
<1>4. \A j \in Secret : Len(secret'[j]) <= MaxVersion
  BY <1>1, <1>2, <1>3 DEF RowTypes, Inv, Typed
<1>5. \A x \in Resource : Present(x)' <=> Present(x) \/ x = k
  BY <1>1, <1>2, <1>3 DEF Present, Resource, Inv, Typed
<1>6. unused' \subseteq {x \in Resource : ~Present(x)'}
  BY <1>2, <1>5 DEF RowTypes
<1>7. tagged' \subseteq {x \in Resource : Present(x)'} \X (Tag \cup {SystemTag})
  BY <1>2, <1>5 DEF RowTypes
<1> QED
  BY <1>2, <1>4, <1>6, <1>7 DEF RowTypes

\* A transaction that removes resources removes what is attached to them.
LEMMA RemovalTyped ==
    ASSUME Inv, RowTypes, NEW gone, UNCHANGED unused,
           \A e \in Db : db'[e] = IF e \in gone THEN NoRow ELSE db[e],
           \A j \in Secret : secret'[j] = IF j \in gone THEN << >> ELSE secret[j],
           db' \in [Db -> DbRow \cup {NoRow}],
           tagged' = {a \in tagged : a[1] \notin gone}
    PROVE  RowTypes'
<1>1. \A x \in Resource : Present(x)' <=> Present(x) /\ x \notin gone
  BY DEF Present, Resource
<1>2. \A j \in Secret : Len(secret'[j]) <= MaxVersion
  <2>1. Len(<< >>) = 0 /\ 0 <= MaxVersion
    BY MaxVersionAssumption
  <2> QED
    BY <2>1 DEF RowTypes
<1>3. tagged' \subseteq {x \in Resource : Present(x)'} \X (Tag \cup {SystemTag})
  <2> SUFFICES ASSUME NEW a \in tagged, a[1] \notin gone
               PROVE  a \in {x \in Resource : Present(x)'} \X (Tag \cup {SystemTag})
    OBVIOUS
  <2>1. a \in {x \in Resource : Present(x)} \X (Tag \cup {SystemTag})
    BY DEF RowTypes
  <2> QED
    BY <1>1, <2>1
<1> QED
  BY <1>1, <1>2, <1>3 DEF RowTypes

LEMMA DeleteSecretTyped ==
    ASSUME Inv, RowTypes, NEW r \in Req, req[r] \in Request, DeleteSecret(r)
    PROVE  RowTypes' /\ Finish(r)
<1> DEFINE k == req[r].resource
<1>1. k \in Secret /\ k \notin Db
  BY AtWrite, KindAssumption DEF DeleteSecret, At
<1>2. UNCHANGED <<unused, db>> /\ Finish(r)
  BY DEF DeleteSecret
<1>3. CASE UNCHANGED <<secret, tagged>>
  BY <1>2, <1>3, RowsStay
<1>4. CASE /\ secret' = [secret EXCEPT ![k] = << >>]
           /\ tagged' = {a \in tagged : a[1] # k}
  <2> HIDE DEF k
  <2>1. \A j \in Secret : secret'[j] = IF j \in {k} THEN << >> ELSE secret[j]
    BY <1>1, <1>4 DEF Inv, Typed
  <2>2. \A e \in Db : db'[e] = IF e \in {k} THEN NoRow ELSE db[e]
    BY <1>1, <1>2
  <2>3. tagged' = {a \in tagged : a[1] \notin {k}}
    BY <1>4
  <2>4. db' \in [Db -> DbRow \cup {NoRow}]
    BY <1>2 DEF RowTypes
  <2> QED
    BY <1>2, <2>1, <2>2, <2>3, <2>4, RemovalTyped
<1> QED
  BY <1>2, <1>3, <1>4 DEF DeleteSecret

LEMMA CollectTyped ==
    ASSUME Inv, RowTypes, NEW d \in Db, Collect(d)
    PROVE  RowTypes'
<1> DEFINE k == PasswordOf[d]
<1>1. k \in Secret /\ k \notin Db /\ d \notin Secret
  BY Kinds, KindAssumption
<1>2. /\ db' = [db EXCEPT ![d] = NoRow]
      /\ secret' = [secret EXCEPT ![k] = << >>]
      /\ tagged' = {a \in tagged : a[1] \notin {d, k}}
      /\ UNCHANGED unused
  BY DEF Collect
<1> HIDE DEF k
<1>3. \A j \in Secret : secret'[j] = IF j \in {d, k} THEN << >> ELSE secret[j]
  BY <1>1, <1>2 DEF Inv, Typed
<1>4. \A e \in Db : db'[e] = IF e \in {d, k} THEN NoRow ELSE db[e]
  BY <1>1, <1>2 DEF Inv, Typed
<1>5. db' \in [Db -> DbRow \cup {NoRow}]
  BY <1>2 DEF RowTypes
<1> QED
  BY <1>2, <1>3, <1>4, <1>5, RemovalTyped

LEMMA TagTyped ==
    ASSUME RowTypes, NEW r \in Req, req[r] \in Request,
           AttachResourceTag(r) \/ DetachResourceTag(r)
    PROVE  RowTypes' /\ Finish(r)
<1> DEFINE x == req[r].resource
           t == req[r].tag
<1>1. x \in Resource /\ t \in Tag \cup {SystemTag}
  BY AtWrite DEF AttachResourceTag, DetachResourceTag, At
<1>2. UNCHANGED <<unused, db, secret>> /\ Finish(r)
  BY DEF AttachResourceTag, DetachResourceTag
<1>3. \A y \in Resource : Present(y)' <=> Present(y)
  BY <1>2 DEF Present
<1>4. tagged' \subseteq tagged \/ (Present(x) /\ tagged' = tagged \cup {<<x, t>>})
  BY DEF AttachResourceTag, DetachResourceTag, Missing, Found, ResourcesOf
<1> HIDE DEF x, t
<1>5. tagged' \subseteq {y \in Resource : Present(y)} \X (Tag \cup {SystemTag})
  <2>1. CASE tagged' \subseteq tagged
    BY <2>1 DEF RowTypes
  <2>2. CASE Present(x) /\ tagged' = tagged \cup {<<x, t>>}
    BY <1>1, <2>2 DEF RowTypes
  <2> QED
    BY <1>4, <2>1, <2>2
<1> QED
  BY <1>2, <1>3, <1>5 DEF RowTypes

-----------------------------------------------------------------------------
LEMMA NextTyped ==
    ASSUME Inv, RowTypes, RequestTypes, Next
    PROVE  RowTypes' /\ RequestTypes'
<1>1. ASSUME NEW r \in Req, NEW s \in Subject, NEW p \in Project, BeginRequest(r, s, p)
      PROVE  RowTypes' /\ RequestTypes'
  <2>1. (RequestTypes' /\ Reads) \/ UNCHANGED vars
    BY <1>1, BeginRequestTyped
  <2> QED
    BY <2>1, RowsStay, RequestsStay DEF Reads, vars
<1>2. ASSUME NEW r \in Req, req[r] # Idle, Progress(r) \/ Fail(r)
      PROVE  RowTypes' /\ RequestTypes'
  <2>1. req[r] \in Request /\ Numbered(req[r])
    BY <1>2, InFlight
  <2>2. CASE RowTypes' /\ Finish(r)
    BY <2>2, FinishTyped
  <2>3. CASE RequestTypes' /\ Reads
    BY <2>3, RowsStay DEF Reads
  <2>4. CASE CreateDatabase(r) \/ CreateSecretWithInitialVersion(r)
    BY <2>1, <2>2, <2>4, CreateDatabaseTyped, CreateSecretTyped
  <2>5. CASE \/ SetDatabaseDesiredRuntimeState(r) \/ ClaimDatabaseTermination(r)
             \/ SetDatabasePasswordSecretVerifier(r)
    BY <2>1, <2>2, <2>5, DatabaseWriteTyped, ApplyTyped
  <2>6. CASE \/ CreateSecretVersion(r) \/ DisableSecretVersion(r) \/ DeleteSecret(r)
             \/ AttachResourceTag(r) \/ DetachResourceTag(r)
    BY <2>1, <2>2, <2>6, VersionWriteTyped, DeleteSecretTyped, TagTyped
  <2>7. CASE \/ ReadVerifier(r) \/ ReadPasswordSecret(r) \/ ReadDesiredVersion(r)
             \/ ReadPasswordMaterial(r) \/ AuthorizeReveal(r)
    BY <1>2, <2>3, <2>7, UriTyped
  <2>8. CASE \/ UpdateDatabase(r) \/ QueryResourceMetric(r) \/ GetSecretVersions(r)
             \/ UpdateSecretMeta(r) \/ ReadMaterial(r) \/ Answer(r) \/ ApplyReadsMaterial(r)
             \/ Fail(r)
    BY <1>2, <2>3, <2>8, OtherReadsTyped
  <2> QED
    BY <1>2, <2>4, <2>5, <2>6, <2>7, <2>8 DEF Progress
<1>3. CASE Environment
  <2>1. ASSUME NEW s \in Subject, RevokeSession(s) PROVE RowTypes' /\ RequestTypes'
    BY <2>1, RowsStay, RequestsStay DEF RevokeSession
  <2>2. ASSUME NEW p \in Project, NEW s \in Subject, NEW g \in Grade \cup {NoRole},
               Regrade(p, s, g)
        PROVE  RowTypes' /\ RequestTypes'
    BY <2>2, RowsStay, RequestsStay DEF Regrade
  <2>3. ASSUME NEW d \in Db, Collect(d) PROVE RowTypes' /\ RequestTypes'
    BY <2>3, CollectTyped, RequestsStay DEF Collect
  <2> QED
    BY <1>3, <2>1, <2>2, <2>3 DEF Environment
<1> QED
  BY <1>1, <1>2, <1>3 DEF Next

LEMMA InitTyped == Init => RowTypes /\ RequestTypes
<1> SUFFICES ASSUME Init PROVE RowTypes /\ RequestTypes
  OBVIOUS
<1>1. \A x \in Resource : ~Present(x)
  BY DEF Init, Present, Resource
<1>2. \A k \in Secret : Len(secret[k]) = 0 /\ 0 <= MaxVersion
  BY MaxVersionAssumption DEF Init
<1>3. RowTypes
  BY <1>1, <1>2 DEF Init, RowTypes
<1> QED
  BY <1>3 DEF Init, RequestTypes

\* The types hold of every state: what a transaction writes is a row or a
\* version with a number within the range, whatever the request that writes it
\* has read before and whatever has happened since.
THEOREM Typing == Spec => []TypeOK
<1>1. Init => Inv /\ RowTypes /\ RequestTypes
  BY InitHolds, InitTyped
<1>2. Inv /\ RowTypes /\ RequestTypes /\ [Next]_vars => (Inv /\ RowTypes /\ RequestTypes)'
  <2>1. Inv /\ RowTypes /\ RequestTypes /\ Next => RowTypes' /\ RequestTypes'
    BY NextTyped
  <2>2. RowTypes /\ RequestTypes /\ UNCHANGED vars => RowTypes' /\ RequestTypes'
    BY RowsStay, RequestsStay DEF vars
  <2> QED
    BY <2>1, <2>2, StepKeeps
<1>3. Inv /\ RowTypes /\ RequestTypes => TypeOK
  BY DEF Inv, Typed, RowTypes, RequestTypes, TypeOK, States
<1> QED
  BY <1>1, <1>2, <1>3, PTL DEF Spec
=============================================================================
