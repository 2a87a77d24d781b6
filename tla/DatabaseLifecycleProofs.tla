---------------------- MODULE DatabaseLifecycleProofs ----------------------
(***************************************************************************)
(* Proofs of the safety properties of DatabaseLifecycle, for any databases,*)
(* tags, requests and drones.  The inductive invariant Inv adds to the     *)
(* types what a collection relies on after the statement that read it:     *)
(* its database stays dead and its own, no attachment has a tag that it    *)
(* holds, the tags it has doomed are on no other resource, and no creation *)
(* brings its database back.                                               *)
(***************************************************************************)
EXTENDS DatabaseLifecycle, TLAPS, WellFoundedInduction

JobsOwnTheDead ==
    \A c \in Drone, d \in Db :
        Collects(c, d) => Dead(d) /\ \A e \in Drone : Collects(e, d) => e = c

TagsLockedOnce ==
    \A c \in Drone, r \in Req, t \in Tag : ~(DroneHolds(c, t) /\ AttachHolds(r, t))

DoomedAreOrphans ==
    \A c \in Drone : job[c] # Idle =>
        \A t \in job[c].doomed : t \in job[c].held /\ ResourcesOf(t) \subseteq {job[c].db}

InsertsAreFresh ==
    \A r \in Req : req[r].pc = "insert" =>
        /\ dbi[req[r].db] = Unborn
        /\ \A q \in Req \ {r} : req[q].pc = "insert" => req[q].db # req[r].db

Inv == /\ TypeOK
       /\ JobsOwnTheDead
       /\ TagsLockedOnce
       /\ DoomedAreOrphans
       /\ InsertsAreFresh

-----------------------------------------------------------------------------
(* Types *)

LEMMA RequestPCs ==
    /\ \A q \in Request : q.pc \in {"insert", "upsert", "associate", "delete"} /\ q # Idle
    /\ \A q \in Request : q.pc # "delete" => q.db \in Db
    /\ \A q \in Request : q.pc \in {"upsert", "associate"} =>
          /\ q.tag \in Tag
          /\ q = [pc |-> q.pc, db |-> q.db, tag |-> q.tag]
    /\ Idle.pc = "idle"
<1>1. \A q \in Request : q.pc \in {"insert", "upsert", "associate", "delete"}
  BY DEF Request
<1>2. Idle.pc = "idle"
  BY DEF Idle
<1>3. \A q \in Request : q # Idle
  BY <1>1, <1>2
<1>4. \A q \in Request : q.pc # "delete" => q.db \in Db
  BY DEF Request
<1>5. \A q \in Request : q.pc \in {"upsert", "associate"} =>
          q.tag \in Tag /\ q = [pc |-> q.pc, db |-> q.db, tag |-> q.tag]
  BY DEF Request
<1> QED
  BY <1>1, <1>2, <1>3, <1>4, <1>5

LEMMA JobPCs ==
    /\ \A j \in Job : /\ j.pc \in {"selectTags", "lockTags", "commit"}
                      /\ j # Idle
                      /\ j.db \in Db
                      /\ j.held \in SUBSET Tag
                      /\ j.doomed \in SUBSET Tag
    /\ Idle.pc = "idle"
<1>1. \A j \in Job : j.pc \in {"selectTags", "lockTags", "commit"}
  BY DEF Job
<1>2. Idle.pc = "idle"
  BY DEF Idle
<1>3. \A j \in Job : j # Idle
  BY <1>1, <1>2
<1> QED
  BY <1>1, <1>2, <1>3 DEF Job

LEMMA InitInv == Init => Inv
<1> SUFFICES ASSUME Init PROVE Inv
  OBVIOUS
<1>1. TypeOK
  BY DEF Init, TypeOK, Live, RuntimeState
<1>2. JobsOwnTheDead /\ DoomedAreOrphans /\ TagsLockedOnce
  BY DEF Init, JobsOwnTheDead, DoomedAreOrphans, TagsLockedOnce, Collects, DroneHolds
<1>3. InsertsAreFresh
  BY RequestPCs DEF Init, InsertsAreFresh
<1> QED
  BY <1>1, <1>2, <1>3 DEF Inv

-----------------------------------------------------------------------------
(* Steps of requests *)

\* A step that starts or ends a request, or makes it lock a free tag.
LEMMA RequestStep ==
    ASSUME Inv, NEW r \in Req, NEW x \in Request \cup {Idle},
           req' = [req EXCEPT ![r] = x],
           UNCHANGED <<project, dbi, state, tags, assoc, job>>,
           x.pc = "associate" => TagFree(x.tag),
           x.pc = "insert" =>
              /\ dbi[x.db] = Unborn
              /\ \A q \in Req : req[q].pc = "insert" => req[q].db # x.db
    PROVE  Inv'
<1>1. TypeOK'
  BY DEF Inv, TypeOK
<1>2. JobsOwnTheDead' /\ DoomedAreOrphans'
  BY DEF Inv, JobsOwnTheDead, DoomedAreOrphans, Collects, Dead, ResourcesOf
<1>3. \A q \in Req, t \in Tag : AttachHolds(q, t)' => AttachHolds(q, t) \/ TagFree(t)
  BY DEF Inv, TypeOK, AttachHolds
<1>4. TagsLockedOnce'
  BY <1>3 DEF Inv, TagsLockedOnce, DroneHolds, TagFree
<1>5. InsertsAreFresh'
  BY DEF Inv, TypeOK, InsertsAreFresh
<1> QED
  BY <1>1, <1>2, <1>4, <1>5 DEF Inv

LEMMA FinishStep ==
    ASSUME Inv, NEW r \in Req, Finish(r), UNCHANGED <<project, dbi, state, tags, assoc, job>>
    PROVE  Inv'
BY RequestStep, RequestPCs DEF Finish

LEMMA BeginStep ==
    ASSUME Inv, NEW r \in Req, Begin(r)
    PROVE  Inv'
<1>1. ASSUME NEW x \in Request, x.pc \in {"upsert", "delete"}, Start(r, x)
      PROVE  Inv'
  BY <1>1, RequestStep DEF Start
<1>2. CASE \E d \in Db : CreateAuthorized(r, d)
  <2>1. PICK d \in Db : CreateAuthorized(r, d)
    BY <1>2
  <2> DEFINE x == [pc |-> "insert", db |-> d]
  <2>2. /\ dbi[d] = Unborn
        /\ \A q \in Req : req[q].pc = "insert" => req[q].db # d
        /\ req' = [req EXCEPT ![r] = x]
        /\ UNCHANGED <<project, dbi, state, tags, assoc, job>>
    BY <2>1 DEF CreateAuthorized, Start
  <2>3. x \in Request /\ x.pc = "insert" /\ x.db = d
    BY DEF Request
  <2> QED
    BY <2>2, <2>3, RequestStep
<1>3. CASE \E d \in Db, t \in Tag : AttachResolved(r, d, t)
  <2>1. PICK d \in Db, t \in Tag : Start(r, [pc |-> "upsert", db |-> d, tag |-> t])
    BY <1>3 DEF AttachResolved
  <2>2. [pc |-> "upsert", db |-> d, tag |-> t] \in Request
    BY DEF Request
  <2> QED
    BY <1>1, <2>1, <2>2
<1>4. CASE NoDatabaseListed(r)
  <2>1. Start(r, [pc |-> "delete"])
    BY <1>4 DEF NoDatabaseListed
  <2>2. [pc |-> "delete"] \in Request
    BY DEF Request
  <2> QED
    BY <1>1, <2>1, <2>2
<1> QED
  BY <1>2, <1>3, <1>4 DEF Begin

LEMMA UpsertTagStep ==
    ASSUME Inv, NEW r \in Req, UpsertTag(r)
    PROVE  Inv'
<1> DEFINE x == [req[r] EXCEPT !.pc = "associate"]
<1>1. /\ req[r].pc = "upsert"
      /\ TagFree(req[r].tag)
      /\ req' = [req EXCEPT ![r] = x]
      /\ UNCHANGED <<project, dbi, state, tags, assoc, job>>
  BY DEF UpsertTag
<1>2. req[r] \in Request
  BY <1>1, RequestPCs DEF Inv, TypeOK
<1>3. x \in Request /\ x.pc = "associate" /\ x.tag = req[r].tag
  BY <1>1, <1>2 DEF Request
<1> HIDE DEF x
<1> QED
  BY <1>1, <1>3, RequestStep

\* A step that writes rows which no collection has locked.
LEMMA WriteStep ==
    ASSUME Inv, TypeOK', UNCHANGED job,
           \A c \in Drone, d \in Db : Collects(c, d) => dbi'[d] = dbi[d] /\ state'[d] = state[d],
           InsertsAreFresh',
           \A r \in Req, t \in Tag : AttachHolds(r, t)' => AttachHolds(r, t),
           \A c \in Drone, t \in Tag, d \in Db :
              DroneHolds(c, t) /\ <<d, t>> \in assoc' => <<d, t>> \in assoc
    PROVE  Inv'
<1>1. JobsOwnTheDead'
  BY DEF Inv, JobsOwnTheDead, Collects, Dead
<1>2. TagsLockedOnce'
  BY DEF Inv, TagsLockedOnce, DroneHolds
<1>3. DoomedAreOrphans'
  <2> SUFFICES ASSUME NEW c \in Drone, job[c] # Idle, NEW t \in job[c].doomed
               PROVE  t \in job[c].held /\ ResourcesOf(t)' \subseteq {job[c].db}
    BY DEF DoomedAreOrphans
  <2>1. t \in job[c].held /\ ResourcesOf(t) \subseteq {job[c].db} /\ t \in Tag
    BY JobPCs DEF Inv, TypeOK, DoomedAreOrphans
  <2>2. DroneHolds(c, t)
    BY <2>1 DEF DroneHolds
  <2>3. ResourcesOf(t)' \subseteq ResourcesOf(t)
    BY <2>1, <2>2 DEF ResourcesOf
  <2> QED
    BY <2>1, <2>3
<1> QED
  BY <1>1, <1>2, <1>3 DEF Inv

\* The request that ends releases its tag.
LEMMA FinishReleases ==
    ASSUME TypeOK, NEW r \in Req, Finish(r)
    PROVE  /\ req' \in [Req -> Request \cup {Idle}]
           /\ req'[r] = Idle /\ \A q \in Req \ {r} : req'[q] = req[q]
           /\ \A q \in Req, t \in Tag : AttachHolds(q, t)' => AttachHolds(q, t)
BY RequestPCs DEF Finish, TypeOK, AttachHolds

LEMMA UnbornIsNoRow == Unborn \notin Row /\ Gone \notin Row /\ Unborn # Gone
<1>1. \A x \in Row : x.desired \in Desired
  BY DEF Row
<1>2. Unborn.desired = "unborn" /\ Gone.desired = "gone"
  BY DEF Unborn, Gone
<1> QED
  BY <1>1, <1>2 DEF Desired

LEMMA DeadIsPresent == \A d \in Db : Dead(d) => Present(d)
BY DEF Dead, Present, Row, Desired

LEMMA CreateDatabaseStep ==
    ASSUME Inv, NEW r \in Req, CreateDatabase(r)
    PROVE  Inv'
<1> DEFINE d == req[r].db
           x == [desired |-> "running", password |-> "present"]
<1>1. /\ req[r].pc = "insert"
      /\ dbi' = [dbi EXCEPT ![d] = x]
      /\ Finish(r)
      /\ UNCHANGED <<project, state, tags, assoc, job>>
  BY DEF CreateDatabase
<1>2. TypeOK /\ d \in Db /\ dbi[d] = Unborn /\ x \in Row
  BY <1>1, RequestPCs DEF Inv, TypeOK, InsertsAreFresh, Row, Desired
<1>3. /\ req' \in [Req -> Request \cup {Idle}]
      /\ req'[r] = Idle /\ \A q \in Req \ {r} : req'[q] = req[q]
      /\ \A q \in Req, t \in Tag : AttachHolds(q, t)' => AttachHolds(q, t)
  BY <1>1, <1>2, FinishReleases
<1>4. TypeOK'
  BY <1>1, <1>2, <1>3 DEF TypeOK
<1>5. \A c \in Drone, e \in Db : Collects(c, e) => dbi'[e] = dbi[e]
  BY <1>1, <1>2, UnbornIsNoRow, DeadIsPresent DEF Inv, JobsOwnTheDead, TypeOK, Present
<1>6. InsertsAreFresh'
  <2> SUFFICES ASSUME NEW p \in Req, req'[p].pc = "insert"
               PROVE  /\ dbi'[req'[p].db] = Unborn
                      /\ \A q \in Req \ {p} : req'[q].pc = "insert" => req'[q].db # req'[p].db
    BY DEF InsertsAreFresh
  <2>1. p # r /\ req'[p] = req[p] /\ req[p].db # d /\ req[p].db \in Db
    BY <1>1, <1>2, <1>3, RequestPCs DEF Inv, InsertsAreFresh, TypeOK
  <2>2. dbi'[req[p].db] = Unborn
    BY <1>1, <1>2, <2>1 DEF Inv, InsertsAreFresh, TypeOK
  <2> QED
    BY <1>3, <2>1, <2>2, RequestPCs DEF Inv, InsertsAreFresh
<1> QED
  BY <1>1, <1>3, <1>4, <1>5, <1>6, WriteStep

LEMMA AttachTagStep ==
    ASSUME Inv, NEW r \in Req, AttachTag(r)
    PROVE  Inv'
<1> DEFINE d == req[r].db
           t == req[r].tag
<1>1. /\ req[r].pc = "associate"
      /\ tags' = tags \cup {t}
      /\ assoc' = assoc \cup {<<d, t>>}
      /\ Finish(r)
      /\ UNCHANGED <<project, dbi, state, job>>
  BY DEF AttachTag
<1>2. TypeOK /\ d \in Db /\ t \in Tag
  BY <1>1, RequestPCs DEF Inv, TypeOK
<1>3. /\ req' \in [Req -> Request \cup {Idle}]
      /\ req'[r] = Idle /\ \A q \in Req \ {r} : req'[q] = req[q]
      /\ \A q \in Req, u \in Tag : AttachHolds(q, u)' => AttachHolds(q, u)
  BY <1>1, <1>2, FinishReleases
<1>4. TypeOK'
  BY <1>1, <1>2, <1>3 DEF TypeOK
<1>5. \A c \in Drone : ~DroneHolds(c, t)
  BY <1>1, <1>2 DEF Inv, TagsLockedOnce, AttachHolds
<1>6. InsertsAreFresh'
  BY <1>1, <1>3, RequestPCs DEF Inv, InsertsAreFresh
<1> QED
  BY <1>1, <1>3, <1>4, <1>5, <1>6, WriteStep

LEMMA DeleteProjectStep ==
    ASSUME Inv, NEW r \in Req, DeleteProject(r)
    PROVE  Inv'
<1>1. /\ \A c \in Drone : job[c] = Idle
      /\ project' = FALSE
      /\ dbi' = [d \in Db |-> IF Present(d) THEN Gone ELSE dbi[d]]
      /\ state' = [d \in Db |-> Live]
      /\ tags' = {} /\ assoc' = {}
      /\ Finish(r)
      /\ UNCHANGED job
  BY DEF DeleteProject
<1>2. TypeOK
  BY DEF Inv
<1>3. /\ req' \in [Req -> Request \cup {Idle}]
      /\ req'[r] = Idle /\ \A q \in Req \ {r} : req'[q] = req[q]
      /\ \A q \in Req, u \in Tag : AttachHolds(q, u)' => AttachHolds(q, u)
  BY <1>1, <1>2, FinishReleases
<1>4. TypeOK'
  BY <1>1, <1>2, <1>3 DEF TypeOK, Live, RuntimeState
<1>5. /\ \A c \in Drone, d \in Db : Collects(c, d) => dbi'[d] = dbi[d] /\ state'[d] = state[d]
      /\ \A c \in Drone, t \in Tag, d \in Db :
            DroneHolds(c, t) /\ <<d, t>> \in assoc' => <<d, t>> \in assoc
  BY <1>1 DEF Collects, DroneHolds
<1>6. InsertsAreFresh'
  <2>1. \A q \in Req : req'[q].pc = "insert" => req'[q] = req[q] /\ req[q].db \in Db
    BY <1>2, <1>3, RequestPCs DEF TypeOK
  <2>2. \A d \in Db : dbi[d] = Unborn => dbi'[d] = Unborn
    BY <1>1, UnbornIsNoRow DEF Present
  <2> QED
    BY <2>1, <2>2 DEF Inv, InsertsAreFresh
<1> QED
  BY <1>1, <1>3, <1>4, <1>5, <1>6, WriteStep

LEMMA ProgressStep ==
    ASSUME Inv, NEW r \in Req, Progress(r)
    PROVE  Inv'
<1>1. CASE InsertFails(r)
  BY <1>1, FinishStep DEF InsertFails
<1> QED
  BY <1>1, CreateDatabaseStep, UpsertTagStep, AttachTagStep, DeleteProjectStep DEF Progress

-----------------------------------------------------------------------------
(* Steps of autocommit statements *)

\* A row that no collection has locked changes.
LEMMA RowStep ==
    ASSUME Inv, NEW d \in Db, Present(d), DbFree(d),
           NEW x \in Row, NEW y \in [db : RuntimeState, secret : RuntimeState],
           dbi' = [dbi EXCEPT ![d] = x], state' = [state EXCEPT ![d] = y],
           UNCHANGED <<project, tags, assoc, req, job>>
    PROVE  Inv'
<1>1. TypeOK'
  BY DEF Inv, TypeOK
<1>2. \A c \in Drone, e \in Db : Collects(c, e) => dbi'[e] = dbi[e] /\ state'[e] = state[e]
  BY DEF Inv, TypeOK, DbFree
<1>3. \A e \in Db : dbi[e] = Unborn => dbi'[e] = Unborn
  BY UnbornIsNoRow DEF Inv, TypeOK, Present
<1>4. InsertsAreFresh'
  BY <1>3, RequestPCs DEF Inv, TypeOK, InsertsAreFresh
<1>5. \A r \in Req, t \in Tag : AttachHolds(r, t)' => AttachHolds(r, t)
  BY DEF AttachHolds
<1> QED
  BY <1>1, <1>2, <1>4, <1>5, WriteStep

LEMMA AutocommitStep ==
    ASSUME Inv, NEW d \in Db, Autocommit(d)
    PROVE  Inv'
<1>1. TypeOK
  BY DEF Inv
<1>2. state = [state EXCEPT ![d] = state[d]] /\ dbi = [dbi EXCEPT ![d] = dbi[d]]
  BY <1>1 DEF TypeOK
<1>3. state[d] \in [db : RuntimeState, secret : RuntimeState]
  BY <1>1 DEF TypeOK
<1>4. CASE SetDatabaseDesiredRuntimeState(d)
  <2>1. /\ Present(d) /\ DbFree(d)
        /\ dbi' = [dbi EXCEPT ![d] = [dbi[d] EXCEPT !.desired = "running"]]
        /\ UNCHANGED <<project, state, tags, assoc, req, job>>
    BY <1>4 DEF SetDatabaseDesiredRuntimeState
  <2>2. [dbi[d] EXCEPT !.desired = "running"] \in Row
    BY <2>1 DEF Present, Row, Desired
  <2> QED
    BY <1>2, <1>3, <2>1, <2>2, RowStep
<1>5. CASE ClaimDatabaseTermination(d)
  <2>1. [desired |-> "terminated", password |-> "absent"] \in Row
    BY DEF Row, Desired
  <2> QED
    BY <1>2, <1>3, <1>5, <2>1, RowStep DEF ClaimDatabaseTermination
<1>6. CASE Reconcile(d)
  <2>1. PICK r \in {RuntimeOf(d).db, state[d].db}, s \in {RuntimeOf(d).secret, state[d].secret} :
           state' = [state EXCEPT ![d] = [db |-> r, secret |-> s]]
    BY <1>6 DEF Reconcile
  <2>2. r \in RuntimeState /\ s \in RuntimeState
    BY <1>3 DEF RuntimeOf, RuntimeState
  <2>3. [db |-> r, secret |-> s] \in [db : RuntimeState, secret : RuntimeState]
    BY <2>2
  <2>4. Present(d) /\ DbFree(d) /\ UNCHANGED <<project, dbi, tags, assoc, req, job>>
    BY <1>6 DEF Reconcile
  <2> QED
    BY <1>2, <2>1, <2>3, <2>4, RowStep DEF Present
<1>7. ASSUME NEW t \in Tag, DetachResourceTag(d, t)
      PROVE  Inv'
  <2>1. /\ assoc' = assoc \ {<<d, t>>}
        /\ UNCHANGED <<project, dbi, state, tags, req, job>>
    BY <1>7 DEF DetachResourceTag
  <2>2. TypeOK'
    BY <1>1, <2>1 DEF TypeOK
  <2>3. InsertsAreFresh'
    BY <2>1 DEF Inv, InsertsAreFresh
  <2>4. \A r \in Req, u \in Tag : AttachHolds(r, u)' => AttachHolds(r, u)
    BY <2>1 DEF AttachHolds
  <2> QED
    BY <2>1, <2>2, <2>3, <2>4, WriteStep
<1> QED
  BY <1>4, <1>5, <1>6, <1>7 DEF Autocommit

-----------------------------------------------------------------------------
(* Steps of collections *)

\* A collection starts, ends or goes on, and changes no row yet.
LEMMA JobStep ==
    ASSUME Inv, NEW c \in Drone, NEW j \in Job \cup {Idle},
           job' = [job EXCEPT ![c] = j],
           UNCHANGED <<project, dbi, state, tags, assoc, req>>,
           j # Idle =>
              /\ Dead(j.db)
              /\ \A e \in Drone \ {c} : ~Collects(e, j.db)
              /\ \A t \in j.held : DroneHolds(c, t) \/ TagFree(t)
              /\ \A t \in j.doomed : t \in j.held /\ ResourcesOf(t) \subseteq {j.db}
    PROVE  Inv'
<1>1. TypeOK'
  BY DEF Inv, TypeOK
<1>2. job'[c] = j /\ \A e \in Drone \ {c} : job'[e] = job[e]
  BY DEF Inv, TypeOK
<1>3. JobsOwnTheDead'
  BY <1>2 DEF Inv, JobsOwnTheDead, Collects, Dead
<1>4. TagsLockedOnce'
  BY <1>2 DEF Inv, TagsLockedOnce, DroneHolds, TagFree, AttachHolds
<1>5. DoomedAreOrphans'
  BY <1>2 DEF Inv, DoomedAreOrphans, ResourcesOf
<1>6. InsertsAreFresh'
  BY DEF Inv, InsertsAreFresh
<1> QED
  BY <1>1, <1>3, <1>4, <1>5, <1>6 DEF Inv

\* What a collection in flight knows.
LEMMA JobKnows ==
    ASSUME Inv, NEW c \in Drone, job[c] # Idle
    PROVE  /\ job[c] \in Job
           /\ Dead(job[c].db)
           /\ \A e \in Drone \ {c} : ~Collects(e, job[c].db)
           /\ \A t \in job[c].held : DroneHolds(c, t)
           /\ \A t \in job[c].doomed : t \in job[c].held /\ ResourcesOf(t) \subseteq {job[c].db}
<1>1. job[c] \in Job
  BY DEF Inv, TypeOK
<1>2. job[c].db \in Db
  BY <1>1, JobPCs
<1>3. Collects(c, job[c].db)
  BY DEF Collects
<1> QED
  BY <1>1, <1>2, <1>3 DEF Inv, JobsOwnTheDead, DoomedAreOrphans, DroneHolds

LEMMA AbortJobStep ==
    ASSUME Inv, NEW c \in Drone, AbortJob(c)
    PROVE  Inv'
BY JobStep DEF AbortJob

LEMMA SelectDatabaseStep ==
    ASSUME Inv, NEW c \in Drone, NEW d \in Db, SelectDatabase(c, d)
    PROVE  Inv'
<1> DEFINE j == [pc |-> "selectTags", db |-> d, todo |-> {}, held |-> {}, doomed |-> {}]
<1>1. /\ Dead(d) /\ DbFree(d)
      /\ job' = [job EXCEPT ![c] = j]
      /\ UNCHANGED <<project, dbi, state, tags, assoc, req>>
  BY DEF SelectDatabase
<1>2. j \in Job /\ j.db = d /\ j.held = {} /\ j.doomed = {}
  BY DEF Job
<1> HIDE DEF j
<1> QED
  BY <1>1, <1>2, JobStep DEF DbFree

LEMMA SelectTagsStep ==
    ASSUME Inv, NEW c \in Drone, SelectTags(c)
    PROVE  Inv'
<1> DEFINE j == [job[c] EXCEPT !.pc = "lockTags", !.todo = TagsOf(job[c].db)]
<1>1. /\ job[c].pc = "selectTags"
      /\ job' = [job EXCEPT ![c] = j]
      /\ UNCHANGED <<project, dbi, state, tags, assoc, req>>
  BY DEF SelectTags
<1>2. job[c] # Idle
  BY <1>1, JobPCs
<1>3. TagsOf(job[c].db) \in SUBSET Tag
  BY DEF Inv, TypeOK, TagsOf
<1>4. /\ j \in Job /\ j.db = job[c].db /\ j.held = job[c].held /\ j.doomed = job[c].doomed
  BY <1>2, <1>3, JobKnows DEF Job
<1> HIDE DEF j
<1> QED
  BY <1>1, <1>2, <1>4, JobKnows, JobStep

LEMMA LockTagStep ==
    ASSUME Inv, NEW c \in Drone, NEW t \in Tag, LockTag(c, t)
    PROVE  Inv'
<1> DEFINE j == [job[c] EXCEPT !.todo = job[c].todo \ {t},
                               !.held = job[c].held \cup ({t} \cap tags)]
<1>1. /\ job[c].pc = "lockTags"
      /\ TagFree(t)
      /\ job' = [job EXCEPT ![c] = j]
      /\ UNCHANGED <<project, dbi, state, tags, assoc, req>>
  BY DEF LockTag
<1>2. job[c] # Idle
  BY <1>1, JobPCs
<1>3. /\ j \in Job /\ j.db = job[c].db /\ j.doomed = job[c].doomed
      /\ j.held = job[c].held \cup ({t} \cap tags)
  BY <1>2, JobKnows DEF Job
<1> HIDE DEF j
<1> QED
  BY <1>1, <1>2, <1>3, JobKnows, JobStep

LEMMA DeleteResourcesStep ==
    ASSUME Inv, NEW c \in Drone, DeleteResources(c)
    PROVE  Inv'
<1> DEFINE j == [job[c] EXCEPT !.pc = "commit", !.doomed = Orphans(c)]
<1>1. /\ job[c].pc = "lockTags"
      /\ job' = [job EXCEPT ![c] = j]
      /\ UNCHANGED <<project, dbi, state, tags, assoc, req>>
  BY DEF DeleteResources
<1>2. job[c] # Idle
  BY <1>1, JobPCs
<1>3. \A t \in Orphans(c) : t \in job[c].held /\ ResourcesOf(t) \subseteq {job[c].db}
  BY DEF Orphans
<1>4. Orphans(c) \in SUBSET Tag
  BY <1>2, <1>3, JobKnows, JobPCs
<1>5. j \in Job /\ j.db = job[c].db /\ j.held = job[c].held /\ j.doomed = Orphans(c)
  BY <1>2, <1>4, JobKnows DEF Job
<1> HIDE DEF j
<1> QED
  BY <1>1, <1>2, <1>3, <1>5, JobKnows, JobStep

LEMMA CollectCommitStep ==
    ASSUME Inv, NEW c \in Drone, CollectCommit(c)
    PROVE  Inv'
<1> DEFINE d == job[c].db
           orphans == job[c].doomed
<1>1. /\ job[c].pc = "commit"
      /\ dbi' = [dbi EXCEPT ![d] = Gone]
      /\ state' = [state EXCEPT ![d] = Live]
      /\ tags' = tags \ orphans
      /\ assoc' = {a \in assoc : a[1] # d /\ a[2] \notin orphans}
      /\ job' = [job EXCEPT ![c] = Idle]
      /\ UNCHANGED <<project, req>>
  BY DEF CollectCommit
<1>2. job[c] # Idle
  BY <1>1, JobPCs
<1>3. d \in Db /\ Dead(d) /\ \A e \in Drone \ {c} : ~Collects(e, d)
  BY <1>2, JobKnows, JobPCs
<1>4. TypeOK
  BY DEF Inv
<1>5. TypeOK'
  BY <1>1, <1>3, <1>4 DEF TypeOK, Live, RuntimeState
<1>6. job'[c] = Idle /\ \A e \in Drone \ {c} : job'[e] = job[e]
  BY <1>1, <1>4 DEF TypeOK
<1>7. \A x \in Db \ {d} : dbi'[x] = dbi[x] /\ state'[x] = state[x]
  BY <1>1, <1>3, <1>4 DEF TypeOK
<1>8. JobsOwnTheDead'
  BY <1>3, <1>6, <1>7 DEF Inv, JobsOwnTheDead, Collects, Dead
<1>9. TagsLockedOnce'
  BY <1>1, <1>6 DEF Inv, TagsLockedOnce, DroneHolds, AttachHolds
<1>10. DoomedAreOrphans'
  <2>1. assoc' \subseteq assoc
    BY <1>1
  <2> QED
    BY <1>6, <2>1 DEF Inv, DoomedAreOrphans, ResourcesOf
<1>11. InsertsAreFresh'
  <2>1. \A x \in Db : dbi[x] = Unborn => x # d
    BY <1>3, UnbornIsNoRow, DeadIsPresent DEF Present
  <2>2. \A r \in Req : req[r].pc = "insert" => req[r].db \in Db
    BY <1>4, RequestPCs DEF TypeOK
  <2> QED
    BY <1>1, <1>7, <2>1, <2>2 DEF Inv, InsertsAreFresh
<1> QED
  BY <1>5, <1>8, <1>9, <1>10, <1>11 DEF Inv

LEMMA CollectStep ==
    ASSUME Inv, NEW c \in Drone, Collect(c)
    PROVE  Inv'
BY SelectDatabaseStep, SelectTagsStep, LockTagStep, DeleteResourcesStep, CollectCommitStep
   DEF Collect

LEMMA StutterStep ==
    ASSUME Inv, UNCHANGED vars
    PROVE  Inv'
<1>1. UNCHANGED <<project, dbi, state, tags, assoc, req, job>>
  BY DEF vars
<1>2. TypeOK' /\ InsertsAreFresh'
  BY <1>1 DEF Inv, TypeOK, InsertsAreFresh
<1>3. \A r \in Req, t \in Tag : AttachHolds(r, t)' => AttachHolds(r, t)
  BY <1>1 DEF AttachHolds
<1> QED
  BY <1>1, <1>2, <1>3, WriteStep

LEMMA Inductive == Inv /\ [Next]_vars => Inv'
<1> SUFFICES ASSUME Inv, [Next]_vars PROVE Inv'
  OBVIOUS
<1>1. ASSUME NEW r \in Req, Abort(r) \/ DeadlockAbort(r) PROVE Inv'
  BY <1>1, FinishStep DEF Abort, DeadlockAbort
<1>2. ASSUME NEW c \in Drone, AbortJob(c) \/ DeadlockAbortJob(c) PROVE Inv'
  BY <1>2, AbortJobStep DEF DeadlockAbortJob
<1> QED
  BY <1>1, <1>2, BeginStep, ProgressStep, AutocommitStep, CollectStep, StutterStep DEF Next

-----------------------------------------------------------------------------
(* Theorems *)

LEMMA Invariance == Spec => []Inv
BY InitInv, Inductive, PTL DEF Spec

(* The rows and the requests keep their types; every association is of a   *)
(* tag that exists.                                                        *)
THEOREM Typing == Spec => []TypeOK
<1>1. Inv => TypeOK
  BY DEF Inv
<1> QED
  BY <1>1, Invariance, PTL

\* A row disappears in a collection or with its project.
LEMMA CollectingStep ==
    ASSUME Inv, [Next]_vars, NEW d \in Db, Present(d), dbi'[d] = Gone, project'
    PROVE  Dead(d)
<1>1. dbi[d] # Gone /\ dbi[d] # Unborn
  BY UnbornIsNoRow DEF Present
<1>2. ASSUME NEW c \in Drone, CollectCommit(c) PROVE Dead(d)
  <2>1. job[c].pc = "commit" /\ dbi' = [dbi EXCEPT ![job[c].db] = Gone]
    BY <1>2 DEF CollectCommit
  <2>2. job[c] # Idle
    BY <2>1, JobPCs
  <2>3. Dead(job[c].db) /\ job[c].db \in Db
    BY <2>2, JobKnows, JobPCs
  <2>4. d = job[c].db
    BY <1>1, <2>1, <2>3 DEF Inv, TypeOK
  <2> QED
    BY <2>3, <2>4
<1>3. ASSUME NEW r \in Req, Progress(r) PROVE FALSE
  <2>1. CASE CreateDatabase(r)
    <3>1. [desired |-> "running", password |-> "present"] # Gone
      BY DEF Gone
    <3> QED
      BY <1>1, <2>1, <3>1 DEF CreateDatabase, Inv, TypeOK
  <2>2. ~DeleteProject(r)
    BY DEF DeleteProject
  <2> QED
    BY <1>1, <1>3, <2>1, <2>2 DEF Progress, UpsertTag, AttachTag, InsertFails
<1>4. ASSUME NEW e \in Db, Autocommit(e) PROVE FALSE
  <2>1. CASE SetDatabaseDesiredRuntimeState(e)
    <3>1. /\ dbi[e] \in Row
          /\ dbi' = [dbi EXCEPT ![e] = [dbi[e] EXCEPT !.desired = "running"]]
      BY <2>1 DEF SetDatabaseDesiredRuntimeState, Present
    <3>2. [dbi[e] EXCEPT !.desired = "running"] \in Row
      BY <3>1 DEF Row, Desired
    <3> QED
      BY <1>1, <3>1, <3>2, UnbornIsNoRow DEF Inv, TypeOK
  <2>2. CASE ClaimDatabaseTermination(e)
    <3>1. [desired |-> "terminated", password |-> "absent"] # Gone
      BY DEF Gone
    <3> QED
      BY <1>1, <2>2, <3>1 DEF ClaimDatabaseTermination, Inv, TypeOK
  <2> QED
    BY <1>1, <1>4, <2>1, <2>2 DEF Autocommit, Reconcile, DetachResourceTag
<1> QED
  BY <1>1, <1>2, <1>3, <1>4
     DEF Next, vars, Begin, Start, CreateAuthorized, AttachResolved, NoDatabaseListed,
         Collect, SelectDatabase, SelectTags, LockTag, DeleteResources,
         Abort, DeadlockAbort, AbortJob, DeadlockAbortJob

(* A start that commits before a collection saves the database; none       *)
(* commits between the SELECT of the collection and its end.               *)
THEOREM CollectionIsLegal == Spec => CollectedOnlyWhenDead
<1>1. Inv /\ [Next]_vars =>
        \A d \in Db : Present(d) /\ dbi'[d] = Gone /\ project' =>
           /\ dbi[d].desired = "terminated"
           /\ state[d] = [db |-> "deleted", secret |-> "deleted"]
  BY CollectingStep DEF Dead
<1>2. Inv /\ [Next]_vars =>
        [\A d \in Db : Present(d) /\ dbi'[d] = Gone /\ project' =>
           /\ dbi[d].desired = "terminated"
           /\ state[d] = [db |-> "deleted", secret |-> "deleted"]]_vars
  BY <1>1
<1> QED
  BY <1>2, Invariance, PTL DEF Spec, CollectedOnlyWhenDead

LEMMA TagStep ==
    ASSUME Inv, [Next]_vars, project', NEW t \in tags \ tags', NEW d \in ResourcesOf(t)
    PROVE  dbi'[d] = Gone
<1>1. ASSUME NEW c \in Drone, CollectCommit(c) PROVE dbi'[d] = Gone
  <2>1. /\ job[c].pc = "commit" /\ dbi' = [dbi EXCEPT ![job[c].db] = Gone]
        /\ t \in job[c].doomed
    BY <1>1 DEF CollectCommit
  <2>2. job[c] # Idle
    BY <2>1, JobPCs
  <2>3. job[c].db \in Db /\ ResourcesOf(t) \subseteq {job[c].db}
    BY <2>1, <2>2, JobKnows, JobPCs
  <2> QED
    BY <2>1, <2>3 DEF Inv, TypeOK
<1>2. ASSUME NEW r \in Req, Progress(r) PROVE FALSE
  BY <1>2 DEF Progress, CreateDatabase, UpsertTag, AttachTag, InsertFails,
              DeleteProject
<1> QED
  BY <1>1, <1>2
     DEF Next, vars, Begin, Start, CreateAuthorized, AttachResolved, NoDatabaseListed,
         Autocommit, SetDatabaseDesiredRuntimeState, ClaimDatabaseTermination, Reconcile,
         DetachResourceTag, Collect, SelectDatabase, SelectTags, LockTag, DeleteResources,
         Abort, DeadlockAbort, AbortJob, DeadlockAbortJob

(* The locks that a collection takes on the tags of its database keep the  *)
(* attachments that could save them out until it ends.                     *)
THEOREM TagsAreKept == Spec => TagOutlivesItsResources
<1>1. Inv /\ [Next]_vars =>
        (project' => \A t \in tags \ tags' : \A d \in ResourcesOf(t) : dbi'[d] = Gone)
  BY TagStep
<1>2. Inv /\ [Next]_vars =>
        [project' => \A t \in tags \ tags' : \A d \in ResourcesOf(t) : dbi'[d] = Gone]_vars
  BY <1>1
<1> QED
  BY <1>2, Invariance, PTL DEF Spec, TagOutlivesItsResources

-----------------------------------------------------------------------------
(* The order of the tag locks *)

\* The tags a collection has locked come before those it has still to lock.
InOrder(j) ==
    /\ j.pc = "selectTags" => j.held = {}
    /\ j.pc = "lockTags" => \A h \in j.held, u \in j.todo : h < u

LocksInOrder == \A c \in Drone : job[c] # Idle => InOrder(job[c])

\* Only the steps of a collection touch its locks, one collection at a time.
LEMMA OrderStep ==
    ASSUME TypeOK, LocksInOrder, NEW c \in Drone, NEW j,
           job' = [job EXCEPT ![c] = j],
           j # Idle => InOrder(j)
    PROVE  LocksInOrder'
<1>1. job'[c] = j /\ \A e \in Drone \ {c} : job'[e] = job[e]
  BY DEF TypeOK
<1> QED
  BY <1>1 DEF LocksInOrder

LEMMA OrderSelectDatabase ==
    ASSUME TypeOK, LocksInOrder, NEW c \in Drone, NEW d \in Db, SelectDatabase(c, d)
    PROVE  LocksInOrder'
<1> DEFINE j == [pc |-> "selectTags", db |-> d, todo |-> {}, held |-> {}, doomed |-> {}]
<1>1. job' = [job EXCEPT ![c] = j]
  BY DEF SelectDatabase
<1>2. InOrder(j)
  BY DEF InOrder
<1> HIDE DEF j
<1> QED
  BY <1>1, <1>2, OrderStep

LEMMA OrderSelectTags ==
    ASSUME TypeOK, LocksInOrder, NEW c \in Drone, SelectTags(c)
    PROVE  LocksInOrder'
<1> DEFINE j == [job[c] EXCEPT !.pc = "lockTags", !.todo = TagsOf(job[c].db)]
<1>1. job[c].pc = "selectTags" /\ job' = [job EXCEPT ![c] = j]
  BY DEF SelectTags
<1>2. job[c] # Idle /\ job[c] \in Job
  BY <1>1, JobPCs DEF TypeOK
<1>3. j.pc = "lockTags" /\ j.held = {}
  BY <1>1, <1>2 DEF Job, LocksInOrder, InOrder
<1>4. InOrder(j)
  BY <1>3 DEF InOrder
<1> HIDE DEF j
<1> QED
  BY <1>1, <1>4, OrderStep

\* ORDER BY: the tag that is locked next comes before all that remain.
LEMMA OrderLockTag ==
    ASSUME TypeOK, LocksInOrder, NEW c \in Drone, NEW t \in Tag, LockTag(c, t)
    PROVE  LocksInOrder'
<1> DEFINE todo == job[c].todo \ {t}
           held == job[c].held \cup ({t} \cap tags)
           j == [job[c] EXCEPT !.todo = todo, !.held = held]
<1>1. /\ job[c].pc = "lockTags"
      /\ t \in job[c].todo
      /\ \A u \in job[c].todo : t <= u
      /\ job' = [job EXCEPT ![c] = j]
  BY DEF LockTag, IsNext
<1>2. job[c] # Idle /\ job[c] \in Job
  BY <1>1, JobPCs DEF TypeOK
<1>3. job[c].todo \subseteq Nat
  BY <1>2, TagAssumption DEF Job
<1>4. \A h \in job[c].held, u \in job[c].todo : h < u
  BY <1>1, <1>2 DEF LocksInOrder, InOrder
<1>5. \A u \in todo : t < u
  BY <1>1, <1>3
<1>6. j.pc = "lockTags" /\ j.todo = todo /\ j.held = held
  BY <1>1, <1>2 DEF Job
<1>7. InOrder(j)
  BY <1>4, <1>5, <1>6 DEF InOrder
<1> HIDE DEF j
<1> QED
  BY <1>1, <1>7, OrderStep

LEMMA OrderDeleteResources ==
    ASSUME TypeOK, LocksInOrder, NEW c \in Drone, DeleteResources(c)
    PROVE  LocksInOrder'
<1> DEFINE j == [job[c] EXCEPT !.pc = "commit", !.doomed = Orphans(c)]
<1>1. job[c].pc = "lockTags" /\ job' = [job EXCEPT ![c] = j]
  BY DEF DeleteResources
<1>2. job[c] # Idle /\ job[c] \in Job
  BY <1>1, JobPCs DEF TypeOK
<1>3. j.pc = "commit"
  BY <1>2 DEF Job
<1>4. InOrder(j)
  BY <1>3 DEF InOrder
<1> HIDE DEF j
<1> QED
  BY <1>1, <1>4, OrderStep

LEMMA OrderInductive == TypeOK /\ LocksInOrder /\ [Next]_vars => LocksInOrder'
<1> SUFFICES ASSUME TypeOK, LocksInOrder, [Next]_vars PROVE LocksInOrder'
  OBVIOUS
<1>1. ASSUME job' = job PROVE LocksInOrder'
  BY <1>1 DEF LocksInOrder
<1>2. ASSUME NEW r \in Req, Begin(r) \/ Progress(r) \/ Abort(r) \/ DeadlockAbort(r)
      PROVE LocksInOrder'
  BY <1>1, <1>2 DEF Begin, CreateAuthorized, AttachResolved, NoDatabaseListed, Start, Progress,
     CreateDatabase, UpsertTag, AttachTag, InsertFails, DeleteProject, Abort, DeadlockAbort
<1>3. ASSUME NEW d \in Db, Autocommit(d) PROVE LocksInOrder'
  BY <1>1, <1>3 DEF Autocommit, SetDatabaseDesiredRuntimeState, ClaimDatabaseTermination,
     DetachResourceTag, Reconcile
<1>4. ASSUME NEW c \in Drone, AbortJob(c) \/ DeadlockAbortJob(c) \/ CollectCommit(c)
      PROVE LocksInOrder'
  BY <1>4, OrderStep DEF AbortJob, DeadlockAbortJob, CollectCommit
<1>5. ASSUME NEW c \in Drone, Collect(c) PROVE LocksInOrder'
  BY <1>4, <1>5, OrderSelectDatabase, OrderSelectTags, OrderLockTag, OrderDeleteResources
     DEF Collect
<1>6. CASE UNCHANGED vars
  BY <1>1, <1>6 DEF vars
<1> QED
  BY <1>2, <1>3, <1>4, <1>5, <1>6 DEF Next

LEMMA OrderInvariance == Spec => []LocksInOrder
<1>1. Init => LocksInOrder
  BY DEF Init, LocksInOrder
<1>2. Inv => TypeOK
  BY DEF Inv
<1> QED
  BY <1>1, <1>2, OrderInductive, Invariance, PTL DEF Spec

\* A set of natural numbers that is not empty has a least element.
LEMMA LeastNumber ==
    ASSUME NEW T, T \subseteq Nat, T # {}
    PROVE  \E m \in T : \A n \in T : m <= n
<1> DEFINE R == OpToRel(<, Nat)
<1>1. PICK m \in T : \A n \in T : <<n, m>> \notin R
  <2>1. IsWellFoundedOn(R, Nat)
    BY NatLessThanWellFounded, Zenon
  <2> HIDE DEF R
  <2> QED
    BY <2>1, WFMin
<1>2. R = {ss \in Nat \X Nat : ss[1] < ss[2]}
  BY Zenon DEF OpToRel
<1> HIDE DEF R
<1>3. \A n \in T : n < m => <<n, m>> \in R
  BY <1>2
<1>4. \A n \in T : ~(n < m)
  BY <1>1, <1>3
<1> QED
  BY <1>4

\* A drone that waits for another one waits for a tag before all the tags
\* that the other waits for itself.
LEMMA WaitsUpwards ==
    ASSUME TypeOK, LocksInOrder,
           NEW c \in Drone, NEW e \in Drone, WaitsFor(c, e), NEW u \in DroneWaits(e),
           job[e].pc = "lockTags"
    PROVE  /\ job[c].pc = "lockTags"
           /\ \E t \in DroneWaits(c) : t < u
<1>1. DroneWaitsFor(c, e)
  BY ActorAssumption DEF WaitsFor
<1>2. PICK t \in DroneWaits(c) : DroneHolds(e, t)
  BY <1>1, ActorAssumption DEF DroneWaitsFor
<1>3. InOrder(job[e])
  BY <1>2 DEF LocksInOrder, DroneHolds
<1>4. t < u
  BY <1>2, <1>3 DEF InOrder, DroneHolds, DroneWaits
<1> QED
  BY <1>1, <1>2, <1>4 DEF DroneWaitsFor

\* The waiting drone whose tag is the least of all has nobody waiting for it.
LEMMA NoDroneCycle ==
    ASSUME TypeOK, LocksInOrder
    PROVE  DronesNeverBlockEachOther
<1> SUFFICES ASSUME NEW S \in SUBSET Drone, S # {}, Deadlocked(S) PROVE FALSE
  BY DEF DronesNeverBlockEachOther
<1> DEFINE Waiting(c) == IF job[c].pc = "lockTags" THEN DroneWaits(c) ELSE {}
           T == UNION {Waiting(c) : c \in S}
<1>1. \A x \in S : (\E y \in S : WaitsFor(x, y)) /\ (\E y \in S : WaitsFor(y, x))
  BY DEF Deadlocked
<1>2. \A x \in S : job[x].pc = "lockTags" /\ job[x] # Idle /\ DroneWaits(x) # {}
  <2> SUFFICES ASSUME NEW x \in S
               PROVE job[x].pc = "lockTags" /\ job[x] # Idle /\ DroneWaits(x) # {}
    OBVIOUS
  <2>1. PICK y \in S : WaitsFor(x, y)
    BY <1>1
  <2>2. DroneWaitsFor(x, y)
    BY <2>1, ActorAssumption DEF WaitsFor
  <2> QED
    BY <2>2 DEF DroneWaitsFor
<1>3. T \subseteq Nat
  <2>1. \A x \in S : DroneWaits(x) \subseteq Nat
    BY <1>2, TagAssumption DEF TypeOK, Job, DroneWaits
  <2> QED
    BY <2>1
<1>4. T # {}
  BY <1>2
<1>5. PICK m \in T : \A n \in T : m <= n
  <2> HIDE DEF T
  <2> QED
    BY <1>3, <1>4, LeastNumber
<1>6. PICK x \in S : m \in Waiting(x)
  OBVIOUS
<1>7. PICK y \in S : WaitsFor(y, x)
  BY <1>1
<1>8. m \in DroneWaits(x)
  BY <1>2, <1>6
<1>9. PICK t \in DroneWaits(y) : t < m
  BY <1>2, <1>7, <1>8, WaitsUpwards
<1>10. t \in T
  BY <1>2
<1> QED
  BY <1>3, <1>5, <1>9, <1>10

\* Collections lock tags in the order of their identifiers (ORDER BY t.id), so
\* that no set of drones, however large, waits in a circle: whatever deadlock
\* PostgreSQL finds has an attachment in it.
THEOREM DronesKeepOrder == Spec => []DronesNeverBlockEachOther
<1>1. Inv => TypeOK
  BY DEF Inv
<1> QED
  BY <1>1, NoDroneCycle, Invariance, OrderInvariance, PTL

=============================================================================
