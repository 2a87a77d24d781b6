--------------------------- MODULE SecretVersions ---------------------------
(***************************************************************************)
(* One secret of the platform API with its versions, and the verifier row  *)
(* of the database whose password it holds, if it is a database password   *)
(* (apps/api/internal/store/db/psql.go and the handlers of secrets).       *)
(*                                                                         *)
(* A request is a slot of Req that runs one SQL statement per step at      *)
(* PostgreSQL's READ COMMITTED level.  Row locks: FOR UPDATE and DELETE    *)
(* exclude every other lock; UPDATE of a column outside a unique index     *)
(* excludes other writers; the check of a foreign key takes a KEY SHARE    *)
(* lock on the row it references, which waits for FOR UPDATE and DELETE    *)
(* only.  Writes are applied at commit: the locks keep them valid.         *)
(***************************************************************************)
EXTENDS Integers, Sequences, FiniteSets

CONSTANTS
    Req,          \* requests in flight
    MaxVersion    \* math.MaxInt32

ASSUME MaxVersionAssumption == MaxVersion \in Nat \ {0}

VARIABLES
    current,     \* secrets.current_version_no; 0 once the secret is deleted
    versions,    \* secret_versions with their materials, by version_no
    verifier,    \* the row of dbi_verifiers that names the secret, if any
    req          \* the requests in flight

vars == <<current, versions, verifier, req>>

-----------------------------------------------------------------------------
VersionNo == 1..MaxVersion

\* aad: the version_no the material was encrypted for; it opens with no other.
Version == [state : {"active", "disabled"}, aad : VersionNo]

Verifier == [desired : VersionNo, state : {"present", "absent"}]
NoRow == [state |-> "none"]

Op == {"create", "disable", "apply", "delete", "collect"}
PC == {"lockSecret", "insert", "lockVersion", "checkVerifier", "update",
       "readMaterial", "write", "foreignKey", "restrict", "remove"}

\* version: the version_no of the path.  seen: current_version_no as read.
Request == [op : Op, pc : PC, version : VersionNo, seen : 0..MaxVersion]
Idle == [pc |-> "idle"]

TypeOK ==
    /\ current \in 0..MaxVersion
    /\ versions \in Seq(Version)
    /\ verifier \in Verifier \cup {NoRow}
    /\ req \in [Req -> Request \cup {Idle}]

-----------------------------------------------------------------------------
(* Requests and locks *)

At(r, o, p) == req[r] # Idle /\ req[r].op = o /\ req[r].pc = p
Start(r, o, p, v, n) ==
    /\ req[r] = Idle
    /\ req' = [req EXCEPT ![r] = [op |-> o, pc |-> p, version |-> v, seen |-> n]]
Goto(r, p) == req' = [req EXCEPT ![r].pc = p]
Finish(r) == req' = [req EXCEPT ![r] = Idle]

\* Mutant: DisableSecretVersion reads the secret without FOR UPDATE.
HoldsSecretMutant(r) == At(r, "create", "insert") \/ At(r, "delete", "restrict")

HoldsSecret(r) ==
    \/ At(r, "create", "insert")
    \/ \E p \in {"lockVersion", "checkVerifier", "update"} : At(r, "disable", p)
    \/ At(r, "delete", "restrict")

SecretFree(r) == \A q \in Req \ {r} : ~HoldsSecret(q)

\* Mutant: DisableSecretVersion reads the version without FOR UPDATE.
HoldsVersionMutant(r, v) == FALSE

HoldsVersion(r, v) ==
    /\ \E p \in {"checkVerifier", "update"} : At(r, "disable", p)
    /\ req[r].version = v

HoldsVerifier(r) == At(r, "apply", "foreignKey") \/ At(r, "collect", "remove")

VerifierFree == \A q \in Req : ~HoldsVerifier(q)

-----------------------------------------------------------------------------
(* CreateSecretVersion: the handler reads the current number and encrypts  *)
(* the value for the next one; the store locks the secret and compares.    *)

\* Mutant: no check against math.MaxInt32.
AtLimitMutant == FALSE

AtLimit == current = MaxVersion

CreateRead(r) ==
    /\ current # 0
    /\ ~AtLimit
    /\ Start(r, "create", "lockSecret", 1, current)
    /\ UNCHANGED <<current, versions, verifier>>

\* Mutant: the store does not compare params.VersionNo.
CreateLockMutant(r) ==
    /\ At(r, "create", "lockSecret")
    /\ SecretFree(r)
    /\ IF current = 0 \/ AtLimit THEN Finish(r) ELSE Goto(r, "insert")
    /\ UNCHANGED <<current, versions, verifier>>

CreateLock(r) ==
    /\ At(r, "create", "lockSecret")
    /\ SecretFree(r)
    /\ IF current = 0 \/ AtLimit \/ req[r].seen # current THEN Finish(r) ELSE Goto(r, "insert")
    /\ UNCHANGED <<current, versions, verifier>>

CreateCommit(r) ==
    /\ At(r, "create", "insert")
    /\ versions' = Append(versions, [state |-> "active", aad |-> req[r].seen + 1])
    /\ current' = current + 1
    /\ Finish(r)
    /\ UNCHANGED verifier

-----------------------------------------------------------------------------
(* DisableSecretVersion *)

DisableBegin(r, v) ==
    /\ Start(r, "disable", "lockSecret", v, 0)
    /\ UNCHANGED <<current, versions, verifier>>

DisableLockSecret(r) ==
    /\ At(r, "disable", "lockSecret")
    /\ SecretFree(r)
    /\ IF current = 0 THEN Finish(r)
       ELSE req' = [req EXCEPT ![r] = [@ EXCEPT !.pc = "lockVersion", !.seen = current]]
    /\ UNCHANGED <<current, versions, verifier>>

MayDisable(r) ==
    LET v == req[r].version IN
    /\ v \in DOMAIN versions
    /\ versions[v].state = "active"
    /\ v # req[r].seen

DisableLockVersion(r) ==
    /\ At(r, "disable", "lockVersion")
    /\ IF MayDisable(r) THEN Goto(r, "checkVerifier") ELSE Finish(r)
    /\ UNCHANGED <<current, versions, verifier>>

\* A row in either state refuses: the SELECT does not look at it.
NamedByVerifier(v) == verifier # NoRow /\ verifier.desired = v

\* Mutant: the early return leaves the transaction open.
DisableCheckLeak(r) ==
    /\ At(r, "disable", "checkVerifier")
    /\ ~NamedByVerifier(req[r].version)
    /\ Goto(r, "update")
    /\ UNCHANGED <<current, versions, verifier>>

DisableCheckVerifier(r) ==
    /\ At(r, "disable", "checkVerifier")
    /\ IF NamedByVerifier(req[r].version) THEN Finish(r) ELSE Goto(r, "update")
    /\ UNCHANGED <<current, versions, verifier>>

DisableCommit(r) ==
    /\ At(r, "disable", "update")
    /\ versions' = [versions EXCEPT ![req[r].version].state = "disabled"]
    /\ Finish(r)
    /\ UNCHANGED <<current, verifier>>

-----------------------------------------------------------------------------
(* ApplySecretVersionPasswordVerifier: a read of the verifier, a read of   *)
(* the material and its state, and one UPDATE, each in autocommit.         *)

ApplyBegin(r, v) ==
    /\ verifier.state = "present"
    /\ Start(r, "apply", "readMaterial", v, 0)
    /\ UNCHANGED <<current, versions, verifier>>

ApplyRead(r) ==
    LET v == req[r].version IN
    /\ At(r, "apply", "readMaterial")
    /\ IF v \in DOMAIN versions /\ versions[v].state = "active" /\ versions[v].aad = v
       THEN Goto(r, "write") ELSE Finish(r)
    /\ UNCHANGED <<current, versions, verifier>>

\* Mutant: the UPDATE does not ask for password_desired_state = 'present'.
WritableMutant == verifier # NoRow

Writable == verifier.state = "present"

\* The UPDATE locks the row, then re-evaluates its WHERE.  The foreign key is
\* checked when the version changes.
ApplyWrite(r) ==
    /\ At(r, "apply", "write")
    /\ VerifierFree
    /\ IF Writable /\ verifier.desired # req[r].version THEN Goto(r, "foreignKey") ELSE Finish(r)
    /\ UNCHANGED <<current, versions, verifier>>

ApplyCommit(r) ==
    LET v == req[r].version IN
    /\ At(r, "apply", "foreignKey")
    /\ \A q \in Req : ~HoldsVersion(q, v)
    /\ v \in DOMAIN versions
    /\ verifier' = [verifier EXCEPT !.desired = v]
    /\ Finish(r)
    /\ UNCHANGED <<current, versions>>

-----------------------------------------------------------------------------
(* DeleteSecret: the check runs outside the transaction that deletes. *)

DeleteCheck(r) ==
    /\ current # 0
    /\ verifier.state # "present"
    /\ Start(r, "delete", "lockSecret", 1, 0)
    /\ UNCHANGED <<current, versions, verifier>>

DeleteLock(r) ==
    /\ At(r, "delete", "lockSecret")
    /\ SecretFree(r)
    /\ IF current = 0 THEN Finish(r) ELSE Goto(r, "restrict")
    /\ UNCHANGED <<current, versions, verifier>>

\* Mutant: the foreign key of dbi_verifiers does not restrict.
RestrictedMutant == FALSE

\* ON DELETE RESTRICT of fk_dbi_vrf_pwd_sec_id_secrets.
Restricted == verifier # NoRow

\* The check of RESTRICT waits for a collector that has locked the row.
DeleteCommit(r) ==
    /\ At(r, "delete", "restrict")
    /\ \A q \in Req : ~At(q, "collect", "remove")
    /\ IF Restricted THEN UNCHANGED <<current, versions>>
       ELSE current' = 0 /\ versions' = << >>
    /\ Finish(r)
    /\ UNCHANGED verifier

-----------------------------------------------------------------------------
(* The end of the database: the claim of its termination, and the          *)
(* collector, which skips a verifier row that is locked.                   *)

ClaimDatabaseTermination ==
    /\ verifier # NoRow
    /\ VerifierFree
    /\ verifier' = [verifier EXCEPT !.state = "absent"]
    /\ UNCHANGED <<current, versions, req>>

CollectLock(r) ==
    /\ verifier.state = "absent"
    /\ VerifierFree
    /\ Start(r, "collect", "remove", 1, 0)
    /\ UNCHANGED <<current, versions, verifier>>

CollectCommit(r) ==
    /\ At(r, "collect", "remove")
    /\ SecretFree(r)
    /\ verifier' = NoRow
    /\ current' = 0
    /\ versions' = << >>
    /\ Finish(r)

-----------------------------------------------------------------------------
(* Lost connections and PostgreSQL's deadlock detector *)

Abort(r) ==
    /\ req[r] # Idle
    /\ Finish(r)
    /\ UNCHANGED <<current, versions, verifier>>

WaitsFor(r, q) ==
    /\ r # q
    /\ \/ req[r].pc = "lockSecret" /\ HoldsSecret(q)
       \/ At(r, "apply", "write") /\ HoldsVerifier(q)
       \/ At(r, "apply", "foreignKey") /\ HoldsVersion(q, req[r].version)
       \/ At(r, "delete", "restrict") /\ At(q, "collect", "remove")
       \/ At(r, "collect", "remove") /\ HoldsSecret(q)

DeadlockAbort(r) ==
    /\ \E q \in Req : WaitsFor(r, q) /\ WaitsFor(q, r)
    /\ Finish(r)
    /\ UNCHANGED <<current, versions, verifier>>

-----------------------------------------------------------------------------
(* The specification *)

\* CreateSecretWithInitialVersion, or CreateDatabase, has committed.
Init ==
    /\ current = 1
    /\ versions = <<[state |-> "active", aad |-> 1]>>
    /\ verifier \in {NoRow, [desired |-> 1, state |-> "present"]}
    /\ req = [r \in Req |-> Idle]

Begin(r) ==
    \/ CreateRead(r) \/ DeleteCheck(r) \/ CollectLock(r)
    \/ \E v \in VersionNo : DisableBegin(r, v) \/ ApplyBegin(r, v)

Progress(r) ==
    \/ CreateLock(r) \/ CreateCommit(r)
    \/ DisableLockSecret(r) \/ DisableLockVersion(r)
    \/ DisableCheckVerifier(r) \/ DisableCommit(r)
    \/ ApplyRead(r) \/ ApplyWrite(r) \/ ApplyCommit(r)
    \/ DeleteLock(r) \/ DeleteCommit(r)
    \/ CollectCommit(r)

Next ==
    \/ \E r \in Req : Begin(r) \/ Progress(r) \/ Abort(r) \/ DeadlockAbort(r)
    \/ ClaimDatabaseTermination

Spec == Init /\ [][Next]_vars

\* PostgreSQL queues the waiters of a lock in order of arrival and breaks every
\* cycle of waiters; a running request sends its next statement, or fails.
Fairness ==
    /\ \A r \in Req : SF_vars(Progress(r))
    /\ WF_vars(\E r \in Req : DeadlockAbort(r))

FairSpec == Spec /\ Fairness

-----------------------------------------------------------------------------
(* Properties *)

(* The current version is the last one created and is never disabled,      *)
(* whatever creations and disables run side by side: RevealSecret, which   *)
(* asks for the current version, has one to answer with.                   *)
CurrentIsActive ==
    /\ current = Len(versions)
    /\ current # 0 => versions[current].state = "active"

(* Every stored material was encrypted for the version_no it is stored     *)
(* under, so the AAD of BuildSecretAAD opens it: of two creations that     *)
(* read the same number one is refused.                                    *)
MaterialOpens == \A v \in DOMAIN versions : versions[v].aad = v

(* A database never loses the secret, nor the version, that its verifier   *)
(* names: DeleteSecret checks outside its transaction, and only the        *)
(* collector, which removes the verifier too, may delete it.               *)
VerifierKeepsSecret ==
    verifier # NoRow => /\ current # 0
                        /\ verifier.desired \in DOMAIN versions

(* The verifier of a present database names an active version, which the   *)
(* reveal of its URI requires; DisableSecretVersion refuses to disable a   *)
(* version that a verifier references.  The code violates it: an           *)
(* application that read the version before it was disabled writes after.  *)
VerifierNamesActive ==
    verifier.state = "present" => versions[verifier.desired].state = "active"

(* A disable never hits the version that a committed verifier names, also  *)
(* when the application of that version races with it: the lock on the     *)
(* version row holds back the foreign key of the application.              *)
DisableSparesVerifier ==
    [][\A v \in DOMAIN versions \cap DOMAIN versions' :
         versions[v].state = "active" /\ versions'[v].state = "disabled"
         => ~NamedByVerifier(v)]_vars

(* Once its termination is claimed, a database's verifier never changes    *)
(* again, although applications that began before are still in flight.     *)
AbsentIsFinal == [][verifier.state = "absent" => verifier' \in {verifier, NoRow}]_vars

(* Every request ends: the deletion and the collector, which lock the      *)
(* secret and the verifier in opposite orders, included.                   *)
EveryRequestEnds == \A r \in Req : req[r] # Idle ~> req[r] = Idle

=============================================================================
