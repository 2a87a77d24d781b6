------------------------ MODULE SecretVersionsProofs ------------------------
(***************************************************************************)
(* Proofs of the safety properties of SecretVersions, for any number of    *)
(* requests and any maximal version.  The inductive invariant Inv adds to  *)
(* the properties what each request knows while it holds its locks: the    *)
(* number it read is still the current one, the version it chose may still *)
(* be disabled, and the verifier does not name it.                         *)
(***************************************************************************)
EXTENDS SecretVersions, SequenceTheorems, TLAPS

LocksExclusive ==
    \A r, q \in Req : /\ HoldsSecret(r) /\ HoldsSecret(q) => r = q
                      /\ HoldsVerifier(r) /\ HoldsVerifier(q) => r = q

CreateKnows(r) ==
    At(r, "create", "insert") => /\ current # 0
                                 /\ current # MaxVersion
                                 /\ req[r].seen = current

DisableKnows(r) ==
    /\ \A p \in {"lockVersion", "checkVerifier", "update"} :
          At(r, "disable", p) => current # 0 /\ req[r].seen = current
    /\ \A p \in {"checkVerifier", "update"} : At(r, "disable", p) => MayDisable(r)
    /\ At(r, "disable", "update") => ~NamedByVerifier(req[r].version)

VerifierKnown(r) ==
    /\ At(r, "apply", "foreignKey") => verifier.state = "present"
    /\ At(r, "collect", "remove") => verifier.state = "absent"

RequestsKnow == \A r \in Req : CreateKnows(r) /\ DisableKnows(r) /\ VerifierKnown(r)

Inv == /\ TypeOK
       /\ CurrentIsActive
       /\ MaterialOpens
       /\ VerifierKeepsSecret
       /\ LocksExclusive
       /\ RequestsKnow

-----------------------------------------------------------------------------
(* What a step does to the requests *)

LEMMA StartStep ==
    ASSUME TypeOK, NEW r \in Req, NEW o \in Op, NEW p \in PC,
           NEW v \in VersionNo, NEW n \in 0..MaxVersion, Start(r, o, p, v, n)
    PROVE  /\ req' \in [Req -> Request \cup {Idle}]
           /\ req[r] = Idle
           /\ req'[r].version = v /\ req'[r].seen = n
           /\ \A q \in Req \ {r} : req'[q] = req[q]
           /\ \A x \in Op, y \in PC : At(r, x, y)' <=> x = o /\ y = p
<1> DEFINE R == [op |-> o, pc |-> p, version |-> v, seen |-> n]
<1>1. R \in Request
  BY DEF Request
<1>2. R # Idle
  BY DEF PC, Idle
<1>3. req[r] = Idle /\ req' = [req EXCEPT ![r] = R]
  BY DEF Start
<1>4. req'[r] = R /\ \A q \in Req \ {r} : req'[q] = req[q]
  BY <1>3 DEF TypeOK
<1>5. req' \in [Req -> Request \cup {Idle}]
  BY <1>1, <1>3 DEF TypeOK
<1>6. R.op = o /\ R.pc = p /\ R.version = v /\ R.seen = n
  OBVIOUS
<1> QED
  BY <1>2, <1>3, <1>4, <1>5, <1>6 DEF At

LEMMA GotoStep ==
    ASSUME TypeOK, NEW r \in Req, NEW o \in Op, NEW p \in PC, NEW z \in PC,
           At(r, o, z), Goto(r, p)
    PROVE  /\ req' \in [Req -> Request \cup {Idle}]
           /\ req[r] \in Request
           /\ req'[r].version = req[r].version /\ req'[r].seen = req[r].seen
           /\ \A q \in Req \ {r} : req'[q] = req[q]
           /\ \A x \in Op, y \in PC : At(r, x, y)' <=> x = o /\ y = p
<1>1. req[r] \in Request /\ req[r].op = o
  BY DEF TypeOK, At
<1>2. req' = [req EXCEPT ![r] = [req[r] EXCEPT !.pc = p]]
  BY DEF Goto
<1>3. req'[r] = [req[r] EXCEPT !.pc = p] /\ \A q \in Req \ {r} : req'[q] = req[q]
  BY <1>2 DEF TypeOK
<1>4. /\ req'[r] \in Request
      /\ req'[r].pc = p /\ req'[r].op = o
      /\ req'[r].version = req[r].version /\ req'[r].seen = req[r].seen
  BY <1>1, <1>3 DEF Request
<1>5. req' \in [Req -> Request \cup {Idle}]
  BY <1>2, <1>3, <1>4 DEF TypeOK
<1>6. req'[r] # Idle
  BY <1>4 DEF Idle, PC
<1> QED
  BY <1>1, <1>3, <1>4, <1>5, <1>6 DEF At

LEMMA FinishStep ==
    ASSUME TypeOK, NEW r \in Req, Finish(r)
    PROVE  /\ req' \in [Req -> Request \cup {Idle}]
           /\ \A q \in Req \ {r} : req'[q] = req[q]
           /\ \A x \in Op, y \in PC : ~At(r, x, y)'
BY DEF Finish, TypeOK, At

LEMMA LockSecretStep ==
    ASSUME TypeOK, NEW r \in Req, At(r, "disable", "lockSecret"),
           req' = [req EXCEPT ![r] = [@ EXCEPT !.pc = "lockVersion", !.seen = current]]
    PROVE  /\ req' \in [Req -> Request \cup {Idle}]
           /\ req'[r].seen = current
           /\ \A q \in Req \ {r} : req'[q] = req[q]
           /\ \A x \in Op, y \in PC : At(r, x, y)' <=> x = "disable" /\ y = "lockVersion"
<1>1. req[r] \in Request /\ req[r].op = "disable"
  BY DEF TypeOK, At
<1>2. req' = [req EXCEPT ![r] = [req[r] EXCEPT !.pc = "lockVersion", !.seen = current]]
  OBVIOUS
<1>3. /\ req'[r] = [req[r] EXCEPT !.pc = "lockVersion", !.seen = current]
      /\ \A q \in Req \ {r} : req'[q] = req[q]
  BY <1>2 DEF TypeOK
<1>4. /\ req'[r] \in Request
      /\ req'[r].pc = "lockVersion" /\ req'[r].op = "disable" /\ req'[r].seen = current
  BY <1>1, <1>3 DEF Request, PC, TypeOK
<1>5. req' \in [Req -> Request \cup {Idle}]
  BY <1>2, <1>3, <1>4 DEF TypeOK
<1>6. Idle.pc = "idle"
  BY DEF Idle
<1>7. req'[r] # Idle
  BY <1>4, <1>6
<1> QED
  BY <1>1, <1>3, <1>4, <1>5, <1>7 DEF At

-----------------------------------------------------------------------------
(* The invariant *)

\* A request that does not move keeps what it knows while the rows stay.
LEMMA Undisturbed ==
    ASSUME NEW q \in Req, req'[q] = req[q], UNCHANGED <<current, versions, verifier>>,
           RequestsKnow
    PROVE  CreateKnows(q)' /\ DisableKnows(q)' /\ VerifierKnown(q)'
BY DEF RequestsKnow, CreateKnows, DisableKnows, VerifierKnown, At, MayDisable, NamedByVerifier

\* The locks of a request that does not move.
LEMMA SameLocks ==
    ASSUME NEW q \in Req, req'[q] = req[q]
    PROVE  (HoldsSecret(q)' <=> HoldsSecret(q)) /\ (HoldsVerifier(q)' <=> HoldsVerifier(q))
BY DEF HoldsSecret, HoldsVerifier, At

\* A request that releases its locks, or takes a lock that is free.
LEMMA LocksStep ==
    ASSUME LocksExclusive, NEW r \in Req,
           \A q \in Req \ {r} : req'[q] = req[q],
           HoldsSecret(r)' => HoldsSecret(r) \/ SecretFree(r),
           HoldsVerifier(r)' => HoldsVerifier(r) \/ VerifierFree
    PROVE  LocksExclusive'
<1>1. \A q \in Req \ {r} : /\ HoldsSecret(q)' <=> HoldsSecret(q)
                           /\ HoldsVerifier(q)' <=> HoldsVerifier(q)
  BY SameLocks
<1>2. SUFFICES ASSUME NEW a \in Req, NEW b \in Req
               PROVE  /\ HoldsSecret(a)' /\ HoldsSecret(b)' => a = b
                      /\ HoldsVerifier(a)' /\ HoldsVerifier(b)' => a = b
  BY DEF LocksExclusive
<1> QED
  BY <1>1 DEF LocksExclusive, SecretFree, VerifierFree

\* A step that writes no row.
LEMMA QuietStep ==
    ASSUME Inv, NEW r \in Req,
           UNCHANGED <<current, versions, verifier>>,
           req' \in [Req -> Request \cup {Idle}],
           \A q \in Req \ {r} : req'[q] = req[q],
           HoldsSecret(r)' => HoldsSecret(r) \/ SecretFree(r),
           HoldsVerifier(r)' => HoldsVerifier(r) \/ VerifierFree,
           CreateKnows(r)' /\ DisableKnows(r)' /\ VerifierKnown(r)'
    PROVE  Inv'
<1>1. LocksExclusive'
  BY LocksStep DEF Inv
<1>2. RequestsKnow'
  BY Undisturbed DEF Inv, RequestsKnow
<1>3. TypeOK' /\ CurrentIsActive' /\ MaterialOpens' /\ VerifierKeepsSecret'
  BY DEF Inv, TypeOK, CurrentIsActive, MaterialOpens, VerifierKeepsSecret
<1> QED
  BY <1>1, <1>2, <1>3 DEF Inv

\* A request that is over holds and knows nothing.
LEMMA OverKnows ==
    ASSUME TypeOK, NEW r \in Req, Finish(r)
    PROVE  /\ ~HoldsSecret(r)' /\ ~HoldsVerifier(r)'
           /\ CreateKnows(r)' /\ DisableKnows(r)' /\ VerifierKnown(r)'
<1>1. \A x \in Op, y \in PC : ~At(r, x, y)'
  BY FinishStep
<1> QED
  BY <1>1 DEF Op, PC, HoldsSecret, HoldsVerifier, CreateKnows, DisableKnows, VerifierKnown

LEMMA FinishQuietly ==
    ASSUME Inv, NEW r \in Req, Finish(r), UNCHANGED <<current, versions, verifier>>
    PROVE  Inv'
<1>1. TypeOK
  BY DEF Inv
<1> QED
  BY <1>1, FinishStep, OverKnows, QuietStep

LEMMA StartQuietly ==
    ASSUME Inv, NEW r \in Req, NEW o \in Op, NEW p \in {"lockSecret", "readMaterial"},
           NEW v \in VersionNo, NEW n \in 0..MaxVersion,
           Start(r, o, p, v, n), UNCHANGED <<current, versions, verifier>>
    PROVE  Inv'
<1>1. TypeOK /\ p \in PC
  BY DEF Inv, PC
<1>2. /\ req' \in [Req -> Request \cup {Idle}]
      /\ \A q \in Req \ {r} : req'[q] = req[q]
      /\ \A x \in Op, y \in PC : At(r, x, y)' => y = p
  BY <1>1, StartStep
<1>3. \A x \in Op, y \in PC \ {"lockSecret", "readMaterial"} : ~At(r, x, y)'
  BY <1>2
<1>4. /\ ~HoldsSecret(r)' /\ ~HoldsVerifier(r)'
      /\ CreateKnows(r)' /\ DisableKnows(r)' /\ VerifierKnown(r)'
  BY <1>3 DEF Op, PC, HoldsSecret, HoldsVerifier, CreateKnows, DisableKnows, VerifierKnown
<1> QED
  BY <1>2, <1>4, QuietStep

-----------------------------------------------------------------------------
(* The steps that write no row *)

LEMMA BeginStep ==
    ASSUME Inv, NEW r \in Req, Begin(r)
    PROVE  Inv'
<1>1. current \in 0..MaxVersion /\ 1 \in VersionNo /\ 0 \in 0..MaxVersion
  BY MaxVersionAssumption DEF Inv, TypeOK, VersionNo
<1>2. CASE CreateRead(r)
  BY <1>1, <1>2, StartQuietly DEF CreateRead, Op
<1>3. CASE DeleteCheck(r)
  BY <1>1, <1>3, StartQuietly DEF DeleteCheck, Op
<1>4. CASE \E v \in VersionNo : DisableBegin(r, v)
  BY <1>1, <1>4, StartQuietly DEF DisableBegin, Op
<1>5. CASE \E v \in VersionNo : ApplyBegin(r, v)
  BY <1>1, <1>5, StartQuietly DEF ApplyBegin, Op
<1>6. CASE CollectLock(r)
  <2>1. /\ verifier.state = "absent" /\ VerifierFree
        /\ Start(r, "collect", "remove", 1, 0)
        /\ UNCHANGED <<current, versions, verifier>>
    BY <1>6 DEF CollectLock
  <2>2. TypeOK /\ "collect" \in Op /\ "remove" \in PC
    BY DEF Inv, Op, PC
  <2>3. /\ req' \in [Req -> Request \cup {Idle}]
        /\ \A q \in Req \ {r} : req'[q] = req[q]
        /\ \A x \in Op, y \in PC : At(r, x, y)' <=> x = "collect" /\ y = "remove"
    BY <1>1, <2>1, <2>2, StartStep
  <2>4. ~HoldsSecret(r)' /\ CreateKnows(r)' /\ DisableKnows(r)'
    BY <2>3 DEF Op, PC, HoldsSecret, CreateKnows, DisableKnows
  <2>5. VerifierKnown(r)'
    BY <2>1, <2>3 DEF Op, PC, VerifierKnown
  <2> QED
    BY <2>1, <2>3, <2>4, <2>5, QuietStep
<1> QED
  BY <1>2, <1>3, <1>4, <1>5, <1>6 DEF Begin

\* A step of r from one place to another.
LEMMA GotoQuietly ==
    ASSUME Inv, NEW r \in Req, NEW o \in Op, NEW z \in PC, NEW p \in PC,
           At(r, o, z), Goto(r, p),
           UNCHANGED <<current, versions, verifier>>,
           HoldsSecret(r)' => HoldsSecret(r) \/ SecretFree(r),
           HoldsVerifier(r)' => HoldsVerifier(r) \/ VerifierFree,
           CreateKnows(r)' /\ DisableKnows(r)' /\ VerifierKnown(r)'
    PROVE  Inv'
<1>1. TypeOK
  BY DEF Inv
<1> QED
  BY <1>1, GotoStep, QuietStep

LEMMA CreateLockStep ==
    ASSUME Inv, NEW r \in Req, CreateLock(r)
    PROVE  Inv'
<1>1. UNCHANGED <<current, versions, verifier>> /\ SecretFree(r) /\ At(r, "create", "lockSecret")
  BY DEF CreateLock
<1>2. CASE Finish(r)
  BY <1>1, <1>2, FinishQuietly
<1>3. CASE /\ current # 0 /\ ~AtLimit /\ req[r].seen = current
           /\ Goto(r, "insert")
  <2>1. TypeOK /\ "create" \in Op /\ "lockSecret" \in PC /\ "insert" \in PC
    BY DEF Inv, Op, PC
  <2>2. /\ req'[r].seen = req[r].seen
        /\ \A x \in Op, y \in PC : At(r, x, y)' <=> x = "create" /\ y = "insert"
    BY <1>1, <1>3, <2>1, GotoStep
  <2>3. ~HoldsVerifier(r)' /\ DisableKnows(r)' /\ VerifierKnown(r)'
    BY <2>2 DEF Op, PC, HoldsVerifier, DisableKnows, VerifierKnown
  <2>4. CreateKnows(r)'
    BY <1>1, <1>3, <2>2 DEF CreateKnows, AtLimit
  <2> QED
    BY <1>1, <1>3, <2>1, <2>3, <2>4, GotoQuietly
<1> QED
  BY <1>1, <1>2, <1>3 DEF CreateLock

LEMMA DeleteLockStep ==
    ASSUME Inv, NEW r \in Req, DeleteLock(r)
    PROVE  Inv'
<1>1. UNCHANGED <<current, versions, verifier>> /\ SecretFree(r) /\ At(r, "delete", "lockSecret")
  BY DEF DeleteLock
<1>2. CASE Finish(r)
  BY <1>1, <1>2, FinishQuietly
<1>3. CASE Goto(r, "restrict")
  <2>1. TypeOK /\ "delete" \in Op /\ "lockSecret" \in PC /\ "restrict" \in PC
    BY DEF Inv, Op, PC
  <2>2. \A x \in Op, y \in PC : At(r, x, y)' <=> x = "delete" /\ y = "restrict"
    BY <1>1, <1>3, <2>1, GotoStep
  <2>3. ~HoldsVerifier(r)' /\ CreateKnows(r)' /\ DisableKnows(r)' /\ VerifierKnown(r)'
    BY <2>2 DEF Op, PC, HoldsVerifier, CreateKnows, DisableKnows, VerifierKnown
  <2> QED
    BY <1>1, <1>3, <2>1, <2>3, GotoQuietly
<1> QED
  BY <1>1, <1>2, <1>3 DEF DeleteLock

LEMMA DisableLockSecretStep ==
    ASSUME Inv, NEW r \in Req, DisableLockSecret(r)
    PROVE  Inv'
<1>1. /\ UNCHANGED <<current, versions, verifier>> /\ SecretFree(r)
      /\ At(r, "disable", "lockSecret") /\ TypeOK
  BY DEF DisableLockSecret, Inv
<1>2. CASE Finish(r)
  BY <1>1, <1>2, FinishQuietly
<1>3. CASE /\ current # 0
           /\ req' = [req EXCEPT ![r] = [@ EXCEPT !.pc = "lockVersion", !.seen = current]]
  <2>1. /\ req' \in [Req -> Request \cup {Idle}]
        /\ req'[r].seen = current
        /\ \A q \in Req \ {r} : req'[q] = req[q]
        /\ \A x \in Op, y \in PC : At(r, x, y)' <=> x = "disable" /\ y = "lockVersion"
    BY <1>1, <1>3, LockSecretStep
  <2>2. ~HoldsVerifier(r)' /\ CreateKnows(r)' /\ VerifierKnown(r)'
    BY <2>1 DEF Op, PC, HoldsVerifier, CreateKnows, VerifierKnown
  <2>3. DisableKnows(r)'
    BY <1>1, <1>3, <2>1 DEF Op, PC, DisableKnows
  <2> QED
    BY <1>1, <2>1, <2>2, <2>3, QuietStep
<1> QED
  BY <1>1, <1>2, <1>3 DEF DisableLockSecret

LEMMA DisableGoesOn ==
    ASSUME Inv, NEW r \in Req, DisableLockVersion(r) \/ DisableCheckVerifier(r)
    PROVE  Inv'
<1>1. UNCHANGED <<current, versions, verifier>> /\ TypeOK
  BY DEF DisableLockVersion, DisableCheckVerifier, Inv
<1>2. CASE Finish(r)
  BY <1>1, <1>2, FinishQuietly
<1>3. CASE /\ At(r, "disable", "lockVersion") /\ MayDisable(r)
           /\ Goto(r, "checkVerifier")
  <2>1. "disable" \in Op /\ "lockVersion" \in PC /\ "checkVerifier" \in PC
    BY DEF Op, PC
  <2>2. /\ req'[r].seen = req[r].seen /\ req'[r].version = req[r].version
        /\ \A x \in Op, y \in PC : At(r, x, y)' <=> x = "disable" /\ y = "checkVerifier"
    BY <1>1, <1>3, <2>1, GotoStep
  <2>3. ~HoldsVerifier(r)' /\ CreateKnows(r)' /\ VerifierKnown(r)' /\ HoldsSecret(r)
    BY <1>3, <2>2 DEF Op, PC, HoldsVerifier, CreateKnows, VerifierKnown, HoldsSecret
  <2>4. current # 0 /\ req[r].seen = current
    BY <1>3 DEF Inv, RequestsKnow, DisableKnows
  <2>5. MayDisable(r)'
    BY <1>1, <1>3, <2>2 DEF MayDisable
  <2>6. DisableKnows(r)'
    BY <1>1, <2>2, <2>4, <2>5 DEF Op, PC, DisableKnows
  <2> QED
    BY <1>1, <1>3, <2>1, <2>3, <2>6, GotoQuietly
<1>4. CASE /\ At(r, "disable", "checkVerifier") /\ ~NamedByVerifier(req[r].version)
           /\ Goto(r, "update")
  <2>1. "disable" \in Op /\ "update" \in PC /\ "checkVerifier" \in PC
    BY DEF Op, PC
  <2>2. /\ req'[r].seen = req[r].seen /\ req'[r].version = req[r].version
        /\ \A x \in Op, y \in PC : At(r, x, y)' <=> x = "disable" /\ y = "update"
    BY <1>1, <1>4, <2>1, GotoStep
  <2>3. ~HoldsVerifier(r)' /\ CreateKnows(r)' /\ VerifierKnown(r)' /\ HoldsSecret(r)
    BY <1>4, <2>2 DEF Op, PC, HoldsVerifier, CreateKnows, VerifierKnown, HoldsSecret
  <2>4. current # 0 /\ req[r].seen = current /\ MayDisable(r)
    BY <1>4 DEF Inv, RequestsKnow, DisableKnows
  <2>5. MayDisable(r)' /\ ~NamedByVerifier(req[r].version)'
    BY <1>1, <1>4, <2>2, <2>4 DEF MayDisable, NamedByVerifier
  <2>6. DisableKnows(r)'
    BY <1>1, <2>2, <2>4, <2>5 DEF Op, PC, DisableKnows
  <2> QED
    BY <1>1, <1>4, <2>1, <2>3, <2>6, GotoQuietly
<1> QED
  BY <1>2, <1>3, <1>4 DEF DisableLockVersion, DisableCheckVerifier

LEMMA ApplyGoesOn ==
    ASSUME Inv, NEW r \in Req, ApplyRead(r) \/ ApplyWrite(r)
    PROVE  Inv'
<1>1. UNCHANGED <<current, versions, verifier>> /\ TypeOK
  BY DEF ApplyRead, ApplyWrite, Inv
<1>2. CASE Finish(r)
  BY <1>1, <1>2, FinishQuietly
<1>3. CASE At(r, "apply", "readMaterial") /\ Goto(r, "write")
  <2>1. "apply" \in Op /\ "readMaterial" \in PC /\ "write" \in PC
    BY DEF Op, PC
  <2>2. \A x \in Op, y \in PC : At(r, x, y)' <=> x = "apply" /\ y = "write"
    BY <1>1, <1>3, <2>1, GotoStep
  <2>3. /\ ~HoldsVerifier(r)' /\ ~HoldsSecret(r)'
        /\ CreateKnows(r)' /\ DisableKnows(r)' /\ VerifierKnown(r)'
    BY <2>2 DEF Op, PC, HoldsVerifier, HoldsSecret, CreateKnows, DisableKnows, VerifierKnown
  <2> QED
    BY <1>1, <1>3, <2>1, <2>3, GotoQuietly
<1>4. CASE /\ At(r, "apply", "write") /\ VerifierFree /\ Writable
           /\ Goto(r, "foreignKey")
  <2>1. "apply" \in Op /\ "write" \in PC /\ "foreignKey" \in PC
    BY DEF Op, PC
  <2>2. \A x \in Op, y \in PC : At(r, x, y)' <=> x = "apply" /\ y = "foreignKey"
    BY <1>1, <1>4, <2>1, GotoStep
  <2>3. ~HoldsSecret(r)' /\ CreateKnows(r)' /\ DisableKnows(r)'
    BY <2>2 DEF Op, PC, HoldsSecret, CreateKnows, DisableKnows
  <2>4. VerifierKnown(r)'
    BY <1>1, <1>4, <2>2 DEF Op, PC, VerifierKnown, Writable
  <2> QED
    BY <1>1, <1>4, <2>1, <2>3, <2>4, GotoQuietly
<1> QED
  BY <1>2, <1>3, <1>4 DEF ApplyRead, ApplyWrite

-----------------------------------------------------------------------------
(* The steps that write rows *)

\* While r holds the secret no other request knows anything of its rows.
LEMMA HolderIsAlone ==
    ASSUME Inv, NEW r \in Req, HoldsSecret(r) \/ SecretFree(r), NEW q \in Req \ {r},
           req'[q] = req[q], UNCHANGED verifier
    PROVE  CreateKnows(q)' /\ DisableKnows(q)' /\ VerifierKnown(q)'
<1>1. ~HoldsSecret(q)
  BY DEF Inv, LocksExclusive, SecretFree
<1>2. CreateKnows(q)' /\ DisableKnows(q)'
  BY <1>1 DEF HoldsSecret, CreateKnows, DisableKnows, At
<1>3. VerifierKnown(q)'
  BY DEF Inv, RequestsKnow, VerifierKnown, At
<1> QED
  BY <1>2, <1>3

LEMMA FinishLocks ==
    ASSUME Inv, NEW r \in Req, Finish(r)
    PROVE  LocksExclusive'
<1>1. TypeOK /\ LocksExclusive
  BY DEF Inv
<1> QED
  BY <1>1, FinishStep, OverKnows, LocksStep

LEMMA CreateCommitStep ==
    ASSUME Inv, NEW r \in Req, CreateCommit(r)
    PROVE  Inv'
<1> DEFINE new == [state |-> "active", aad |-> req[r].seen + 1]
<1>1. /\ At(r, "create", "insert") /\ Finish(r) /\ UNCHANGED verifier
      /\ versions' = Append(versions, new)
      /\ current' = current + 1
  BY DEF CreateCommit
<1>2. /\ TypeOK /\ current = Len(versions) /\ versions \in Seq(Version)
      /\ current \in 0..MaxVersion
  BY DEF Inv, TypeOK, CurrentIsActive
<1>3. current # 0 /\ current # MaxVersion /\ req[r].seen = current
  BY <1>1 DEF Inv, RequestsKnow, CreateKnows
<1>4. new \in Version /\ new.aad = current + 1 /\ new.state = "active" /\ current + 1 \in 1..MaxVersion
  BY <1>2, <1>3, MaxVersionAssumption DEF Version, VersionNo
<1> HIDE DEF new
<1>5. /\ versions' \in Seq(Version)
      /\ Len(versions') = current + 1
      /\ versions'[current + 1] = new
      /\ \A i \in 1..current : versions'[i] = versions[i]
  BY <1>1, <1>2, <1>4
<1>6. DOMAIN versions = 1..current /\ DOMAIN versions' = 1..(current + 1)
  BY <1>2, <1>5
<1>7. TypeOK'
  BY <1>1, <1>2, <1>4, <1>5, FinishStep DEF TypeOK
<1>8. CurrentIsActive'
  BY <1>1, <1>4, <1>5 DEF CurrentIsActive
<1>9. MaterialOpens'
  <2>1. SUFFICES ASSUME NEW i \in 1..(current + 1)
                 PROVE  versions'[i].aad = i
    BY <1>6 DEF MaterialOpens
  <2>2. CASE i = current + 1
    BY <1>4, <1>5, <2>2
  <2>3. CASE i \in 1..current
    BY <1>5, <1>6, <2>3 DEF Inv, MaterialOpens
  <2> QED
    BY <1>2, <2>2, <2>3
<1>10. VerifierKeepsSecret'
  BY <1>1, <1>2, <1>6 DEF Inv, VerifierKeepsSecret
<1>11. HoldsSecret(r) /\ \A q \in Req \ {r} : req'[q] = req[q]
  BY <1>1, <1>2, FinishStep DEF HoldsSecret
<1>12. RequestsKnow'
  BY <1>1, <1>2, <1>11, HolderIsAlone, OverKnows DEF RequestsKnow
<1> QED
  BY <1>1, <1>7, <1>8, <1>9, <1>10, <1>12, FinishLocks DEF Inv

LEMMA DisableCommitStep ==
    ASSUME Inv, NEW r \in Req, DisableCommit(r)
    PROVE  Inv'
<1> DEFINE v == req[r].version
           old == versions[v]
           new == [old EXCEPT !.state = "disabled"]
<1>1. /\ At(r, "disable", "update") /\ Finish(r) /\ UNCHANGED <<current, verifier>>
      /\ versions' = [versions EXCEPT ![v] = new]
  BY DEF DisableCommit
<1>2. /\ TypeOK /\ current = Len(versions) /\ versions \in Seq(Version)
  BY DEF Inv, TypeOK, CurrentIsActive
<1>3. v \in DOMAIN versions /\ v # current /\ current # 0
  BY <1>1 DEF Inv, RequestsKnow, DisableKnows, MayDisable
<1>4. old \in Version
  BY <1>2, <1>3
<1>5. new \in Version /\ new.aad = old.aad
  BY <1>4 DEF Version
<1> HIDE DEF new, old, v
<1>6. /\ versions' \in Seq(Version)
      /\ Len(versions') = Len(versions)
      /\ DOMAIN versions' = DOMAIN versions
      /\ versions'[v] = new
      /\ \A i \in DOMAIN versions \ {v} : versions'[i] = versions[i]
  BY <1>1, <1>2, <1>3, <1>5
<1>7. TypeOK'
  BY <1>1, <1>2, <1>6, FinishStep DEF TypeOK
<1>8. current \in DOMAIN versions
  BY <1>2, <1>3
<1>9. CurrentIsActive'
  BY <1>1, <1>3, <1>6, <1>8 DEF Inv, CurrentIsActive
<1>10. versions[v].aad = new.aad
  BY <1>5 DEF old
<1>11. MaterialOpens'
  BY <1>3, <1>6, <1>10 DEF Inv, MaterialOpens
<1>12. VerifierKeepsSecret'
  BY <1>1, <1>6 DEF Inv, VerifierKeepsSecret
<1>13. HoldsSecret(r) /\ \A q \in Req \ {r} : req'[q] = req[q]
  BY <1>1, <1>2, FinishStep DEF HoldsSecret
<1>14. RequestsKnow'
  BY <1>1, <1>2, <1>13, HolderIsAlone, OverKnows DEF RequestsKnow
<1> QED
  BY <1>1, <1>7, <1>9, <1>11, <1>12, <1>14, FinishLocks DEF Inv

LEMMA ApplyCommitStep ==
    ASSUME Inv, NEW r \in Req, ApplyCommit(r)
    PROVE  Inv'
<1> DEFINE v == req[r].version
<1>1. /\ At(r, "apply", "foreignKey") /\ Finish(r) /\ UNCHANGED <<current, versions>>
      /\ \A q \in Req : ~HoldsVersion(q, v)
      /\ v \in DOMAIN versions
      /\ verifier' = [verifier EXCEPT !.desired = v]
  BY DEF ApplyCommit
<1>2. TypeOK /\ verifier.state = "present"
  BY <1>1 DEF Inv, RequestsKnow, VerifierKnown
<1>3. verifier \in Verifier
  BY <1>2 DEF TypeOK, NoRow
<1>4. v \in VersionNo
  BY <1>1, <1>2 DEF TypeOK, At, Request
<1> HIDE DEF v
<1>5. /\ verifier' \in Verifier /\ verifier'.state = "present" /\ verifier'.desired = v
  BY <1>1, <1>2, <1>3, <1>4 DEF Verifier
<1>6. TypeOK'
  BY <1>1, <1>2, <1>5, FinishStep DEF TypeOK
<1>7. CurrentIsActive' /\ MaterialOpens'
  BY <1>1 DEF Inv, CurrentIsActive, MaterialOpens
<1>8. current # 0
  BY <1>3 DEF Inv, VerifierKeepsSecret, Verifier, NoRow
<1>9. VerifierKeepsSecret'
  BY <1>1, <1>5, <1>8 DEF VerifierKeepsSecret
<1>10. RequestsKnow'
  <2>1. CreateKnows(r)' /\ DisableKnows(r)' /\ VerifierKnown(r)'
    BY <1>1, <1>2, OverKnows
  <2>2. ASSUME NEW q \in Req \ {r}
        PROVE  CreateKnows(q)' /\ DisableKnows(q)' /\ VerifierKnown(q)'
    <3>1. req'[q] = req[q]
      BY <1>1, <1>2, FinishStep
    <3>2. CreateKnows(q)'
      BY <1>1, <3>1 DEF Inv, RequestsKnow, CreateKnows, At
    <3>3. At(q, "disable", "update") => req[q].version # v
      BY <1>1 DEF HoldsVersion
    <3>4. DisableKnows(q)'
      BY <1>1, <1>5, <3>1, <3>3
         DEF Inv, RequestsKnow, DisableKnows, MayDisable, NamedByVerifier, At
    <3>5. HoldsVerifier(r)
      BY <1>1 DEF HoldsVerifier
    <3>6. ~HoldsVerifier(q)
      BY <3>5 DEF Inv, LocksExclusive
    <3>7. VerifierKnown(q)'
      BY <3>1, <3>6 DEF HoldsVerifier, VerifierKnown, At
    <3> QED
      BY <3>2, <3>4, <3>7
  <2> QED
    BY <2>1, <2>2 DEF RequestsKnow
<1> QED
  BY <1>1, <1>6, <1>7, <1>9, <1>10, FinishLocks DEF Inv

\* The rows that remain when the secret is gone.
LEMMA NothingLeft ==
    ASSUME Inv, NEW r \in Req, Finish(r), HoldsSecret(r) \/ SecretFree(r),
           current' = 0, versions' = << >>, verifier' = NoRow,
           RequestsKnow'
    PROVE  Inv'
<1>1. TypeOK'
  BY FinishStep, MaxVersionAssumption DEF Inv, TypeOK
<1>2. CurrentIsActive' /\ MaterialOpens' /\ VerifierKeepsSecret'
  BY DEF CurrentIsActive, MaterialOpens, VerifierKeepsSecret
<1> QED
  BY <1>1, <1>2, FinishLocks DEF Inv

LEMMA DeleteCommitStep ==
    ASSUME Inv, NEW r \in Req, DeleteCommit(r)
    PROVE  Inv'
<1>1. /\ At(r, "delete", "restrict") /\ Finish(r) /\ UNCHANGED verifier /\ TypeOK
  BY DEF DeleteCommit, Inv
<1>2. CASE UNCHANGED <<current, versions>>
  BY <1>1, <1>2, FinishQuietly
<1>3. CASE verifier = NoRow /\ current' = 0 /\ versions' = << >>
  <2>1. HoldsSecret(r) /\ \A q \in Req \ {r} : req'[q] = req[q]
    BY <1>1, FinishStep DEF HoldsSecret
  <2>2. RequestsKnow'
    BY <1>1, <2>1, HolderIsAlone, OverKnows DEF RequestsKnow
  <2> QED
    BY <1>1, <1>3, <2>1, <2>2, NothingLeft
<1> QED
  BY <1>2, <1>3 DEF DeleteCommit, Restricted

LEMMA CollectCommitStep ==
    ASSUME Inv, NEW r \in Req, CollectCommit(r)
    PROVE  Inv'
<1>1. /\ At(r, "collect", "remove") /\ SecretFree(r) /\ Finish(r) /\ TypeOK
      /\ current' = 0 /\ versions' = << >> /\ verifier' = NoRow
  BY DEF CollectCommit, Inv
<1>2. RequestsKnow'
  <2>1. CreateKnows(r)' /\ DisableKnows(r)' /\ VerifierKnown(r)'
    BY <1>1, OverKnows
  <2>2. ASSUME NEW q \in Req \ {r}
        PROVE  CreateKnows(q)' /\ DisableKnows(q)' /\ VerifierKnown(q)'
    <3>1. req'[q] = req[q]
      BY <1>1, FinishStep
    <3>2. ~HoldsSecret(q) /\ ~HoldsVerifier(q)
      BY <1>1 DEF SecretFree, Inv, LocksExclusive, HoldsVerifier
    <3> QED
      BY <3>1, <3>2
         DEF HoldsSecret, HoldsVerifier, CreateKnows, DisableKnows, VerifierKnown, At
  <2> QED
    BY <2>1, <2>2 DEF RequestsKnow
<1> QED
  BY <1>1, <1>2, NothingLeft

LEMMA ClaimStep ==
    ASSUME Inv, ClaimDatabaseTermination
    PROVE  Inv'
<1>1. /\ verifier # NoRow /\ VerifierFree
      /\ verifier' = [verifier EXCEPT !.state = "absent"]
      /\ UNCHANGED <<current, versions, req>>
  BY DEF ClaimDatabaseTermination
<1>2. verifier \in Verifier
  BY <1>1 DEF Inv, TypeOK
<1>3. verifier' \in Verifier /\ verifier'.desired = verifier.desired /\ verifier' # NoRow
  BY <1>1, <1>2 DEF Verifier, NoRow
<1>4. TypeOK' /\ CurrentIsActive' /\ MaterialOpens' /\ VerifierKeepsSecret'
  BY <1>1, <1>3 DEF Inv, TypeOK, CurrentIsActive, MaterialOpens, VerifierKeepsSecret
<1>5. LocksExclusive'
  BY <1>1 DEF Inv, LocksExclusive, HoldsSecret, HoldsVerifier, At
<1>6. RequestsKnow'
  <2>1. SUFFICES ASSUME NEW q \in Req
                 PROVE  CreateKnows(q)' /\ DisableKnows(q)' /\ VerifierKnown(q)'
    BY DEF RequestsKnow
  <2>2. CreateKnows(q)'
    BY <1>1 DEF Inv, RequestsKnow, CreateKnows, At
  <2>3. DisableKnows(q)'
    BY <1>1, <1>3 DEF Inv, RequestsKnow, DisableKnows, MayDisable, NamedByVerifier, At
  <2>4. VerifierKnown(q)'
    BY <1>1 DEF VerifierFree, HoldsVerifier, VerifierKnown, At
  <2> QED
    BY <2>2, <2>3, <2>4
<1> QED
  BY <1>4, <1>5, <1>6 DEF Inv

-----------------------------------------------------------------------------
(* The theorems *)

LEMMA InitInv == Init => Inv
<1> SUFFICES ASSUME Init PROVE Inv
  OBVIOUS
<1> DEFINE first == [state |-> "active", aad |-> 1]
<1>1. /\ current = 1 /\ versions = <<first>>
      /\ verifier \in {NoRow, [desired |-> 1, state |-> "present"]}
      /\ req = [r \in Req |-> Idle]
  BY DEF Init
<1>2. 1 \in VersionNo /\ 1 \in 0..MaxVersion
  BY MaxVersionAssumption DEF VersionNo
<1>3. first \in Version /\ first.state = "active" /\ first.aad = 1
  BY <1>2 DEF Version
<1> HIDE DEF first
<1>4. versions \in Seq(Version) /\ Len(versions) = 1 /\ versions[1] = first /\ DOMAIN versions = {1}
  BY <1>1, <1>3
<1>5. verifier \in Verifier \cup {NoRow} /\ (verifier # NoRow => verifier.desired = 1)
  BY <1>1, <1>2 DEF Verifier
<1>6. \A r \in Req : req[r] = Idle
  BY <1>1
<1>7. TypeOK
  BY <1>1, <1>2, <1>4, <1>5 DEF TypeOK
<1>8. CurrentIsActive /\ MaterialOpens /\ VerifierKeepsSecret
  BY <1>1, <1>3, <1>4, <1>5 DEF CurrentIsActive, MaterialOpens, VerifierKeepsSecret
<1>9. LocksExclusive /\ RequestsKnow
  BY <1>6 DEF LocksExclusive, RequestsKnow, HoldsSecret, HoldsVerifier, At,
              CreateKnows, DisableKnows, VerifierKnown
<1> QED
  BY <1>7, <1>8, <1>9 DEF Inv

LEMMA NextInv == Inv /\ [Next]_vars => Inv'
<1> SUFFICES ASSUME Inv, [Next]_vars PROVE Inv'
  OBVIOUS
<1>1. ASSUME NEW r \in Req, Begin(r) PROVE Inv'
  BY <1>1, BeginStep
<1>2. ASSUME NEW r \in Req, Progress(r) PROVE Inv'
  <2>1. CASE CreateLock(r) \/ DeleteLock(r) \/ DisableLockSecret(r)
    BY <2>1, CreateLockStep, DeleteLockStep, DisableLockSecretStep
  <2>2. CASE DisableLockVersion(r) \/ DisableCheckVerifier(r) \/ ApplyRead(r) \/ ApplyWrite(r)
    BY <2>2, DisableGoesOn, ApplyGoesOn
  <2>3. CASE CreateCommit(r) \/ DisableCommit(r) \/ ApplyCommit(r)
    BY <2>3, CreateCommitStep, DisableCommitStep, ApplyCommitStep
  <2>4. CASE DeleteCommit(r) \/ CollectCommit(r)
    BY <2>4, DeleteCommitStep, CollectCommitStep
  <2> QED
    BY <1>2, <2>1, <2>2, <2>3, <2>4 DEF Progress
<1>3. ASSUME NEW r \in Req, Abort(r) \/ DeadlockAbort(r) PROVE Inv'
  BY <1>3, FinishQuietly DEF Abort, DeadlockAbort
<1>4. CASE ClaimDatabaseTermination
  BY <1>4, ClaimStep
<1>5. CASE UNCHANGED vars
  <2>1. UNCHANGED <<current, versions, verifier>> /\ UNCHANGED req
    BY <1>5 DEF vars
  <2>2. RequestsKnow'
    BY <2>1, Undisturbed DEF Inv, RequestsKnow
  <2>3. LocksExclusive'
    BY <2>1 DEF Inv, LocksExclusive, HoldsSecret, HoldsVerifier, At
  <2> QED
    BY <2>1, <2>2, <2>3
       DEF Inv, TypeOK, CurrentIsActive, MaterialOpens, VerifierKeepsSecret
<1> QED
  BY <1>1, <1>2, <1>3, <1>4, <1>5 DEF Next

LEMMA Invariance == Spec => []Inv
BY InitInv, NextInv, PTL DEF Spec

(* The rows and the requests keep their types; version numbers never       *)
(* leave 1..math.MaxInt32.                                                 *)
THEOREM Typing == Spec => []TypeOK
<1>1. Inv => TypeOK
  BY DEF Inv
<1> QED
  BY <1>1, Invariance, PTL

(* RevealSecret always has an active current version to answer with.       *)
THEOREM CurrentVersionIsActive == Spec => []CurrentIsActive
<1>1. Inv => CurrentIsActive
  BY DEF Inv
<1> QED
  BY <1>1, Invariance, PTL

(* No stored material was encrypted for another version_no.                *)
THEOREM StoredMaterialOpens == Spec => []MaterialOpens
<1>1. Inv => MaterialOpens
  BY DEF Inv
<1> QED
  BY <1>1, Invariance, PTL

(* A database keeps the secret and the version its verifier names.         *)
THEOREM DatabaseKeepsSecret == Spec => []VerifierKeepsSecret
<1>1. Inv => VerifierKeepsSecret
  BY DEF Inv
<1> QED
  BY <1>1, Invariance, PTL

-----------------------------------------------------------------------------
(* What a step may never do *)

LEMMA SparingStep ==
    ASSUME Inv, [Next]_vars,
           NEW v \in DOMAIN versions \cap DOMAIN versions',
           versions[v].state = "active", versions'[v].state = "disabled"
    PROVE  ~NamedByVerifier(v)
<1>1. versions \in Seq(Version)
  BY DEF Inv, TypeOK
<1>2. versions' # versions /\ versions' # << >>
  BY <1>1
<1>3. CASE \E r \in Req : CreateCommit(r)
  <2>1. PICK r \in Req : versions' = Append(versions, [state |-> "active", aad |-> req[r].seen + 1])
    BY <1>3 DEF CreateCommit
  <2>2. versions'[v] = versions[v]
    BY <1>1, <2>1
  <2> QED
    BY <2>2
<1>4. CASE \E r \in Req : DisableCommit(r)
  <2>1. PICK r \in Req : /\ At(r, "disable", "update")
                         /\ versions' = [versions EXCEPT ![req[r].version].state = "disabled"]
    BY <1>4 DEF DisableCommit
  <2>2. v = req[r].version
    BY <1>1, <2>1
  <2> QED
    BY <2>1, <2>2 DEF Inv, RequestsKnow, DisableKnows
<1> QED
  BY <1>2, <1>3, <1>4
     DEF Next, vars, Begin, Progress, CreateRead, DeleteCheck, CollectLock, DisableBegin,
         ApplyBegin, CreateLock, DisableLockSecret, DisableLockVersion, DisableCheckVerifier,
         ApplyRead, ApplyWrite, ApplyCommit, DeleteLock, DeleteCommit, CollectCommit,
         Abort, DeadlockAbort, ClaimDatabaseTermination

LEMMA AbsentStep ==
    ASSUME Inv, [Next]_vars, verifier.state = "absent"
    PROVE  verifier' \in {verifier, NoRow}
<1>1. ASSUME NEW r \in Req, ApplyCommit(r) PROVE FALSE
  <2>1. At(r, "apply", "foreignKey")
    BY <1>1 DEF ApplyCommit
  <2> QED
    BY <2>1 DEF Inv, RequestsKnow, VerifierKnown
<1>2. CASE ClaimDatabaseTermination
  <2>1. verifier \in Verifier /\ verifier' = [verifier EXCEPT !.state = "absent"]
    BY <1>2 DEF ClaimDatabaseTermination, Inv, TypeOK
  <2> QED
    BY <2>1 DEF Verifier
<1>3. CASE \E r \in Req : CollectCommit(r)
  BY <1>3 DEF CollectCommit
<1> QED
  BY <1>1, <1>2, <1>3
     DEF Next, vars, Begin, Progress, CreateRead, DeleteCheck, CollectLock, DisableBegin,
         ApplyBegin, CreateLock, CreateCommit, DisableLockSecret, DisableLockVersion,
         DisableCheckVerifier, DisableCommit, ApplyRead, ApplyWrite, DeleteLock, DeleteCommit,
         Abort, DeadlockAbort

(* The lock on the version row holds back the application that races with  *)
(* its disable: a disable never hits the version a verifier names.         *)
THEOREM DisableSpares == Spec => DisableSparesVerifier
<1>1. Inv /\ [Next]_vars =>
        \A v \in DOMAIN versions \cap DOMAIN versions' :
           versions[v].state = "active" /\ versions'[v].state = "disabled"
           => ~NamedByVerifier(v)
  BY SparingStep
<1>2. Inv /\ [Next]_vars =>
        [\A v \in DOMAIN versions \cap DOMAIN versions' :
           versions[v].state = "active" /\ versions'[v].state = "disabled"
           => ~NamedByVerifier(v)]_vars
  BY <1>1
<1> QED
  BY <1>2, Invariance, PTL DEF Spec, DisableSparesVerifier

(* Applications in flight when the termination is claimed change nothing.  *)
THEOREM TerminationIsFinal == Spec => AbsentIsFinal
<1>1. Inv /\ [Next]_vars => [verifier.state = "absent" => verifier' \in {verifier, NoRow}]_vars
  BY AbsentStep
<1> QED
  BY <1>1, Invariance, PTL DEF Spec, AbsentIsFinal

=============================================================================
