------------------------- MODULE DatabaseLifecycle -------------------------
(***************************************************************************)
(* The databases of one project from creation to collection, with the tags *)
(* attached to them: the handlers of apps/api that create, start, stop and *)
(* delete a database, attach and detach tags and delete the project, and   *)
(* the drones, which call cleanup_one_deleted_dbi at every tick            *)
(* (apps/drones/pkg/cli/gc.go).                                            *)
(*                                                                         *)
(* A database stands for its own resource and for the resource of its      *)
(* password secret: both are inserted, claimed and deleted together.  Its  *)
(* system tag, attached to nothing else, follows it.                       *)
(*                                                                         *)
(* Statements run at PostgreSQL's READ COMMITTED level.  The writes of a   *)
(* transaction are applied when it commits: its locks keep them valid.     *)
(***************************************************************************)
EXTENDS Integers, FiniteSets

CONSTANTS
    Db,      \* bound: the databases that are ever created; ids are not reused
    Tag,     \* bound: the tags that users attach; tags.id orders them
    Req,     \* API requests in flight
    Drone    \* collectors

ASSUME TagAssumption == Tag \subseteq Nat
ASSUME ActorAssumption == Req \cap Drone = {}

VARIABLES
    project,    \* whether the row of the project exists
    dbi,        \* dbis with their dbi_verifiers
    state,      \* resource_states of the database and of its secret
    tags,       \* rows of tags
    assoc,      \* rows of resource_tags
    req,        \* the API requests in flight
    job         \* the collections in flight

vars == <<project, dbi, state, tags, assoc, req, job>>

-----------------------------------------------------------------------------
\* "running" stands for "suspended" too: both keep the database.
Desired == {"running", "terminated"}
Row == [desired : Desired, password : {"present", "absent"}]
Unborn == [desired |-> "unborn", password |-> "none"]
Gone == [desired |-> "gone", password |-> "none"]

\* "live" stands for a missing row and for every runtime_state but "deleted".
RuntimeState == {"live", "deleted"}
Live == [db |-> "live", secret |-> "live"]

Request == [pc : {"insert"}, db : Db]
    \cup [pc : {"upsert", "associate"}, db : Db, tag : Tag]
    \cup [pc : {"delete"}]

\* Tags: todo are still to lock, held are locked, doomed are deleted at commit.
Job == [pc : {"selectTags", "lockTags", "commit"}, db : Db,
        todo : SUBSET Tag, held : SUBSET Tag, doomed : SUBSET Tag]
Idle == [pc |-> "idle"]

TypeOK ==
    /\ project \in BOOLEAN
    /\ dbi \in [Db -> Row \cup {Unborn, Gone}]
    /\ state \in [Db -> [db : RuntimeState, secret : RuntimeState]]
    /\ tags \subseteq Tag
    /\ assoc \subseteq Db \X tags
    /\ req \in [Req -> Request \cup {Idle}]
    /\ job \in [Drone -> Job \cup {Idle}]

-----------------------------------------------------------------------------
(* Rows and locks *)

Present(d) == dbi[d] \in Row
TagsOf(d) == {t \in tags : <<d, t>> \in assoc}
ResourcesOf(t) == {d \in Db : <<d, t>> \in assoc}

\* What the SELECT of cleanup_one_deleted_dbi asks for.
Dead(d) ==
    /\ dbi[d] = [desired |-> "terminated", password |-> "absent"]
    /\ state[d] = [db |-> "deleted", secret |-> "deleted"]

\* Mutant: SKIP LOCKED without the list of FOR UPDATE OF.
CollectsMutant(c, d) == FALSE

\* FOR UPDATE OF d, r_db, rs_db, dv, r_secret, rs_secret
Collects(c, d) == job[c] # Idle /\ job[c].db = d

DbFree(d) == \A c \in Drone : ~Collects(c, d)

\* The upsert of an attachment locks the tag, FOR UPDATE OF t locks it too.
AttachHolds(r, t) == req[r].pc = "associate" /\ req[r].tag = t

\* Mutant: the tags are selected without FOR UPDATE.
DroneHoldsMutant(c, t) == FALSE

DroneHolds(c, t) == job[c] # Idle /\ t \in job[c].held

TagFree(t) ==
    /\ \A r \in Req : ~AttachHolds(r, t)
    /\ \A c \in Drone : ~DroneHolds(c, t)

-----------------------------------------------------------------------------
(* CreateDBInstance: every row is inserted in one transaction, whose       *)
(* foreign key asks for the project.                                       *)

Start(r, request) ==
    /\ req[r] = Idle
    /\ req' = [req EXCEPT ![r] = request]
    /\ UNCHANGED <<project, dbi, state, tags, assoc, job>>
Finish(r) == req' = [req EXCEPT ![r] = Idle]

CreateAuthorized(r, d) ==
    /\ project
    /\ dbi[d] = Unborn
    /\ \A q \in Req : req[q].pc = "insert" => req[q].db # d
    /\ Start(r, [pc |-> "insert", db |-> d])

CreateDatabase(r) ==
    /\ req[r].pc = "insert"
    /\ project
    /\ dbi' = [dbi EXCEPT ![req[r].db] = [desired |-> "running", password |-> "present"]]
    /\ Finish(r)
    /\ UNCHANGED <<project, state, tags, assoc, job>>

-----------------------------------------------------------------------------
(* StartDBInstance, StopDBInstance and DeleteDBInstance *)

\* No condition on the state it overwrites.
SetDatabaseDesiredRuntimeState(d) ==
    /\ Present(d)
    /\ DbFree(d)
    /\ dbi' = [dbi EXCEPT ![d].desired = "running"]
    /\ UNCHANGED <<project, state, tags, assoc, req, job>>

\* Mutant: the password stays present.
ClaimDatabaseTerminationMutant(d) ==
    /\ Present(d)
    /\ DbFree(d)
    /\ dbi' = [dbi EXCEPT ![d].desired = "terminated"]
    /\ UNCHANGED <<project, state, tags, assoc, req, job>>

ClaimDatabaseTermination(d) ==
    /\ Present(d)
    /\ DbFree(d)
    /\ dbi' = [dbi EXCEPT ![d] = [desired |-> "terminated", password |-> "absent"]]
    /\ UNCHANGED <<project, state, tags, assoc, req, job>>

-----------------------------------------------------------------------------
(* AttachResourceTag and DetachResourceTag *)

AttachResolved(r, d, t) ==
    /\ Present(d)
    /\ Start(r, [pc |-> "upsert", db |-> d, tag |-> t])

UpsertTag(r) ==
    /\ req[r].pc = "upsert"
    /\ project
    /\ TagFree(req[r].tag)
    /\ req' = [req EXCEPT ![r].pc = "associate"]
    /\ UNCHANGED <<project, dbi, state, tags, assoc, job>>

\* The foreign key waits for a collector that has locked the resource.
AttachTag(r) ==
    LET d == req[r].db
        t == req[r].tag
    IN
    /\ req[r].pc = "associate"
    /\ DbFree(d)
    /\ Present(d)
    /\ tags' = tags \cup {t}
    /\ assoc' = assoc \cup {<<d, t>>}
    /\ Finish(r)
    /\ UNCHANGED <<project, dbi, state, job>>

\* The foreign key of the next INSERT finds no project, or no resource.
Dangling(r) ==
    \/ req[r].pc \in {"insert", "upsert"} /\ ~project
    \/ req[r].pc = "associate" /\ ~Present(req[r].db)

InsertFails(r) ==
    /\ Dangling(r)
    /\ Finish(r)
    /\ UNCHANGED <<project, dbi, state, tags, assoc, job>>

\* A DELETE in autocommit, which locks neither the resource nor the tag.  It
\* waits for a collector that has already deleted the association.
DetachResourceTag(d, t) ==
    /\ <<d, t>> \in assoc
    /\ \A c \in Drone : ~(Collects(c, d) /\ job[c].pc = "commit")
    /\ assoc' = assoc \ {<<d, t>>}
    /\ UNCHANGED <<project, dbi, state, tags, req, job>>

-----------------------------------------------------------------------------
(* DeleteProject of the handler: a list of the databases, then a DELETE    *)
(* that cascades to everything of the project.                             *)

NoDatabaseListed(r) ==
    /\ project
    /\ \A d \in Db : ~Present(d)
    /\ Start(r, [pc |-> "delete"])

DeleteProject(r) ==
    /\ req[r].pc = "delete"
    /\ \A c \in Drone : job[c] = Idle
    /\ \A q \in Req : req[q].pc # "associate"
    /\ project' = FALSE
    /\ dbi' = [d \in Db |-> IF Present(d) THEN Gone ELSE dbi[d]]
    /\ state' = [d \in Db |-> Live]
    /\ tags' = {}
    /\ assoc' = {}
    /\ Finish(r)
    /\ UNCHANGED job

-----------------------------------------------------------------------------
(* cleanup_one_deleted_dbi, one statement per step.  LIMIT 1 takes the     *)
(* oldest database that is not locked; any of them may be it.              *)

SelectDatabase(c, d) ==
    /\ job[c] = Idle
    /\ Dead(d)
    /\ DbFree(d)
    /\ job' = [job EXCEPT ![c] = [pc |-> "selectTags", db |-> d,
                                      todo |-> {}, held |-> {}, doomed |-> {}]]
    /\ UNCHANGED <<project, dbi, state, tags, assoc, req>>

SelectTags(c) ==
    /\ job[c].pc = "selectTags"
    /\ job' = [job EXCEPT ![c] = [@ EXCEPT !.pc = "lockTags", !.todo = TagsOf(job[c].db)]]
    /\ UNCHANGED <<project, dbi, state, tags, assoc, req>>

\* Mutant: no ORDER BY.
IsNextMutant(c, t) == TRUE

\* ORDER BY t.id
IsNext(c, t) == \A u \in job[c].todo : t <= u

\* A tag that is gone when its lock is granted is skipped.
LockTag(c, t) ==
    /\ job[c].pc = "lockTags"
    /\ t \in job[c].todo
    /\ IsNext(c, t)
    /\ TagFree(t)
    /\ job' = [job EXCEPT ![c].todo = @ \ {t}, ![c].held = @ \cup ({t} \cap tags)]
    /\ UNCHANGED <<project, dbi, state, tags, assoc, req>>

Orphans(c) == {t \in job[c].held : ResourcesOf(t) \subseteq {job[c].db}}

\* DELETE FROM resources, and the NOT EXISTS of DELETE FROM tags.
DeleteResources(c) ==
    /\ job[c].pc = "lockTags"
    /\ job[c].todo = {}
    /\ job' = [job EXCEPT ![c] = [@ EXCEPT !.pc = "commit", !.doomed = Orphans(c)]]
    /\ UNCHANGED <<project, dbi, state, tags, assoc, req>>

CollectCommit(c) ==
    LET d == job[c].db
        orphans == job[c].doomed
    IN
    /\ job[c].pc = "commit"
    /\ \A t \in orphans, r \in Req : ~AttachHolds(r, t)
    /\ dbi' = [dbi EXCEPT ![d] = Gone]
    /\ state' = [state EXCEPT ![d] = Live]
    /\ tags' = tags \ orphans
    /\ assoc' = {a \in assoc : a[1] # d /\ a[2] \notin orphans}
    /\ job' = [job EXCEPT ![c] = Idle]
    /\ UNCHANGED <<project, req>>

-----------------------------------------------------------------------------
(* The orchestrator, which is not in the repository: it brings the runtime *)
(* states to what the API desires.                                         *)

RuntimeOf(d) ==
    [db |-> IF dbi[d].desired = "terminated" THEN "deleted" ELSE "live",
     secret |-> IF dbi[d].password = "absent" THEN "deleted" ELSE "live"]

Reconcile(d) ==
    /\ Present(d)
    /\ DbFree(d)
    /\ \E r \in {RuntimeOf(d).db, state[d].db}, s \in {RuntimeOf(d).secret, state[d].secret} :
          state' = [state EXCEPT ![d] = [db |-> r, secret |-> s]]
    /\ state' # state
    /\ UNCHANGED <<project, dbi, tags, assoc, req, job>>

-----------------------------------------------------------------------------
(* Lost connections, crashes of a drone, PostgreSQL's deadlock detector *)

Abort(r) ==
    /\ req[r] # Idle
    /\ Finish(r)
    /\ UNCHANGED <<project, dbi, state, tags, assoc, job>>

AbortJob(c) ==
    /\ job[c] # Idle
    /\ job' = [job EXCEPT ![c] = Idle]
    /\ UNCHANGED <<project, dbi, state, tags, assoc, req>>

\* A drone waits for a tag; an attachment for a tag or for the resource.
DroneWaits(c) == {t \in job[c].todo : IsNext(c, t)}
DroneWaitsFor(c, y) ==
    /\ job[c] # Idle
    /\ job[c].pc = "lockTags"
    /\ \E t \in DroneWaits(c) :
          \/ y \in Drone \ {c} /\ DroneHolds(y, t)
          \/ y \in Req /\ AttachHolds(y, t)
AttachWaitsFor(r, y) ==
    \/ /\ req[r].pc = "upsert"
       /\ \/ y \in Drone /\ DroneHolds(y, req[r].tag)
          \/ y \in Req /\ AttachHolds(y, req[r].tag)
    \/ /\ req[r].pc = "associate"
       /\ y \in Drone /\ Collects(y, req[r].db)

WaitsFor(x, y) ==
    \/ x \in Drone /\ DroneWaitsFor(x, y)
    \/ x \in Req /\ AttachWaitsFor(x, y)

\* Each actor of S waits for another one of S, and is waited for.
Deadlocked(S) ==
    \A x \in S : (\E y \in S : WaitsFor(x, y)) /\ (\E y \in S : WaitsFor(y, x))
InDeadlock(x) == \E S \in SUBSET (Req \cup Drone) : x \in S /\ Deadlocked(S)

DeadlockAbort(r) == InDeadlock(r) /\ Abort(r)
DeadlockAbortJob(c) == InDeadlock(c) /\ AbortJob(c)

-----------------------------------------------------------------------------
(* The specification *)

Init ==
    /\ project = TRUE
    /\ dbi = [d \in Db |-> Unborn]
    /\ state = [d \in Db |-> Live]
    /\ tags = {}
    /\ assoc = {}
    /\ req = [r \in Req |-> Idle]
    /\ job = [c \in Drone |-> Idle]

Begin(r) ==
    \/ \E d \in Db : CreateAuthorized(r, d)
    \/ \E d \in Db, t \in Tag : AttachResolved(r, d, t)
    \/ NoDatabaseListed(r)

Progress(r) ==
    \/ CreateDatabase(r) \/ UpsertTag(r) \/ AttachTag(r) \/ InsertFails(r)
    \/ DeleteProject(r)

Autocommit(d) ==
    \/ SetDatabaseDesiredRuntimeState(d)
    \/ ClaimDatabaseTermination(d)
    \/ \E t \in Tag : DetachResourceTag(d, t)
    \/ Reconcile(d)

Collect(c) ==
    \/ \E d \in Db : SelectDatabase(c, d)
    \/ SelectTags(c) \/ (\E t \in Tag : LockTag(c, t)) \/ DeleteResources(c)
    \/ CollectCommit(c)

Next ==
    \/ \E r \in Req : Begin(r) \/ Progress(r) \/ Abort(r) \/ DeadlockAbort(r)
    \/ \E d \in Db : Autocommit(d)
    \/ \E c \in Drone : Collect(c) \/ AbortJob(c) \/ DeadlockAbortJob(c)

Spec == Init /\ [][Next]_vars

\* A drone runs the function again at every tick (gc.go:58), and attachments
\* do not hold its tags for ever.  Its failures, deadlocks that PostgreSQL
\* resolves against it among them, come to an end.
Fairness ==
    /\ \A r \in Req : SF_vars(Progress(r)) /\ WF_vars(DeadlockAbort(r))
    /\ \A c \in Drone : SF_vars(Collect(c))
    /\ \A d \in Db : WF_vars(Reconcile(d))
    /\ <>[][\A c \in Drone : ~AbortJob(c)]_vars

FairSpec == Spec /\ Fairness

-----------------------------------------------------------------------------
(* Properties *)

\* A database is collected only after its deletion was asked for and the
\* orchestrator has reported both it and its secret deleted: a start that
\* commits before the collection saves it, and no start commits during it.
CollectedOnlyWhenDead ==
    [][\A d \in Db : Present(d) /\ dbi'[d] = Gone /\ project' =>
        /\ dbi[d].desired = "terminated"
        /\ state[d] = [db |-> "deleted", secret |-> "deleted"]]_vars

\* The collector deletes a tag only with the last resource that has it: a tag
\* that another database took while the collection ran is kept.
TagOutlivesItsResources ==
    [][project' => \A t \in tags \ tags' : \A d \in ResourcesOf(t) : dbi'[d] = Gone]_vars

\* The order of the tag locks keeps collectors from deadlocking each other;
\* a deadlock always has an attachment in it.
DronesNeverBlockEachOther ==
    \A S \in SUBSET Drone : S # {} => ~Deadlocked(S)

\* A database that was asked to be deleted is collected, whatever failures,
\* locked rows and other collectors intervene, unless somebody starts or stops
\* it, or the project goes.
Terminated(d) == Present(d) /\ dbi[d].desired = "terminated"
TerminatedIsCollected == \A d \in Db : Terminated(d) ~> ~Terminated(d)
=============================================================================
