------------------------- MODULE ProjectAccessProofs -------------------------
(***************************************************************************)
(* Proofs of the safety properties of ProjectAccess for any numbers of     *)
(* subjects, projects and requests, and any names of roles in requests.    *)
(*                                                                         *)
(* The inductive invariant Inv adds to the properties what a request in    *)
(* flight still knows of what it read (Knows): that the subject it bills   *)
(* has a plan; that an owner it found is an owner still, as long as no     *)
(* extension seated another; and, under the lock on its project, that the  *)
(* project exists and that an owner it is about to demote or remove leaves *)
(* another one behind.                                                     *)
(***************************************************************************)
EXTENDS ProjectAccess, FiniteSetTheorems, TLAPS

Slot == Request \cup {Idle}
Holds(q, p) == q.pc \in {"check", "write"} /\ q.project = p

\* A project is created once: the requests that name it were authorized by a row
\* of its members, and nobody is a member of a project that was never created.
NamesProject(q) ==
    q.pc \notin {"idle", "read", "insertProject", "insertPlan"} =>
        q.project \in Project /\ billing[q.project] # NoSubject

KnowsPlan(q) == q.pc = "insertProject" => q.target \in plan

\* What is granted, and by whom.
GrantsLess(q) ==
    /\ q.pc \in {"caller", "target"} /\ q.op = "RemoveProjectMember" => q.role = NoRole
    /\ q.pc \in {"getProject", "insertMember", "count", "lock", "check", "write"}
         => q.role # "owner"
CallerIsOwner(q) == q.project \in present \ seated => role[q.project][q.caller] = "owner"
KnowsOwner(q) ==
    /\ q.pc = "target" /\ q.callerRole = "owner" => CallerIsOwner(q)
    /\ /\ q.pc \in {"getProject", "insertMember", "count", "lock", "check", "write"}
       /\ q.role = "admin"
       => CallerIsOwner(q)

\* Under the lock.
SparesAnOwner(q) ==
    q.pc = "write" /\ role[q.project][q.target] = "owner" =>
        \E s \in Subject \ {q.target} : role[q.project][s] = "owner"
KnowsLocked(q) ==
    /\ q.pc \in {"check", "write"} => q.project \in present
    /\ SparesAnOwner(q)

Knows(q) == /\ NamesProject(q)
            /\ KnowsPlan(q)
            /\ GrantsLess(q)
            /\ KnowsOwner(q)
            /\ KnowsLocked(q)

LocksExclusive ==
    \A r, x \in Req, p \in Project : Holds(req[r], p) /\ Holds(req[x], p) => r = x

RowsOfProjects ==
    \A p \in Project : /\ p \in present => billing[p] # NoSubject
                       /\ p \notin present => \A s \in Subject : role[p][s] = NoRole

Inv == /\ TypeOK
       /\ RowsOfProjects
       /\ KeepsAnOwner
       /\ OwnerIsBilled
       /\ BilledHasPlan
       /\ LocksExclusive
       /\ \A r \in Req : Knows(req[r])

-----------------------------------------------------------------------------
(* Slots *)

LEMMA IdleKnows == Idle \in Slot /\ Knows(Idle) /\ \A p : ~Holds(Idle, p)
BY DEF Idle, Slot, Knows, NamesProject, KnowsPlan, GrantsLess, KnowsOwner, KnowsLocked,
       SparesAnOwner, Holds

LEMMA BusySlot ==
    ASSUME TypeOK, NEW r \in Req, req[r].pc # "idle"
    PROVE  req[r] \in Request
BY DEF TypeOK, Idle

\* A slot takes a new value and the others keep theirs.
Takes(r, v) == req' = [req EXCEPT ![r] = v]

LEMMA EndTakes ==
    ASSUME NEW r \in Req, NEW answer, End(r, answer)
    PROVE  Takes(r, Idle)
BY DEF End, Takes

LEMMA GoTakes ==
    ASSUME TypeOK, NEW r \in Req, NEW place, Go(r, place)
    PROVE  Takes(r, [req[r] EXCEPT !.pc = place])
BY DEF Go, Takes, TypeOK

LEMMA Taken ==
    ASSUME TypeOK, NEW r \in Req, NEW v \in Slot, Takes(r, v)
    PROVE  /\ req' \in [Req -> Slot]
           /\ req'[r] = v
           /\ \A x \in Req \ {r} : req'[x] = req[x]
BY DEF TypeOK, Takes, Slot

\* A step that changes no row: the next value of the slot knows what it should,
\* and a lock that it holds is one it held already or one that was free.
Reads(r) ==
    /\ UNCHANGED rows
    /\ \E v \in Slot : /\ Takes(r, v)
                       /\ Knows(v)
                       /\ \A p \in Project : Holds(v, p) => Holds(req[r], p) \/ Unlocked(p)

LEMMA EndReads ==
    ASSUME NEW r \in Req, NEW answer, End(r, answer), UNCHANGED rows
    PROVE  Reads(r)
BY IdleKnows, EndTakes DEF Reads

LEMMA ReadsPreserves ==
    ASSUME Inv, NEW r \in Req, Reads(r)
    PROVE  Inv'
<1>1. PICK v \in Slot : /\ Takes(r, v)
                        /\ Knows(v)
                        /\ \A p \in Project : Holds(v, p) => Holds(req[r], p) \/ Unlocked(p)
  BY DEF Reads
<1>2. /\ req' \in [Req -> Slot]
      /\ req'[r] = v
      /\ \A x \in Req \ {r} : req'[x] = req[x]
  BY <1>1, Taken DEF Inv
<1>3. UNCHANGED <<billing, present, role, plan, seated>>
  BY DEF Reads, rows
<1>4. TypeOK'
  BY <1>2, <1>3 DEF Inv, TypeOK, Slot
<1>5. /\ RowsOfProjects' /\ KeepsAnOwner' /\ OwnerIsBilled' /\ BilledHasPlan'
  BY <1>3 DEF Inv, RowsOfProjects, KeepsAnOwner, OwnerIsBilled, BilledHasPlan, Owners
<1>7. ASSUME NEW x \in Req PROVE Knows(req[x])'
  <2>1. Knows(req'[x])
    BY <1>1, <1>2 DEF Inv
  <2> QED
    BY <1>3, <2>1 DEF Knows, NamesProject, KnowsPlan, GrantsLess, KnowsOwner, CallerIsOwner,
                      KnowsLocked, SparesAnOwner
<1>8. LocksExclusive'
  <2> SUFFICES ASSUME NEW x \in Req, NEW y \in Req, NEW p \in Project,
                      Holds(req'[x], p), Holds(req'[y], p)
               PROVE  x = y
    BY DEF LocksExclusive, Holds
  <2>1. Unlocked(p) => \A z \in Req : ~Holds(req[z], p)
    BY DEF Unlocked, LocksProject, Holds
  <2> QED
    BY <1>1, <1>2, <2>1 DEF Inv, LocksExclusive
<1> QED
  BY <1>4, <1>5, <1>7, <1>8 DEF Inv

-----------------------------------------------------------------------------
(* The steps that only read *)

LEMMA BeginReads ==
    ASSUME Inv, NEW r \in Req, Begin(r)
    PROVE  Reads(r)
<1>1. PICK op \in ProjectOperation, caller \in Subject, target \in Subject, p \in Project,
           new \in Requested \cup {NoRole} :
         /\ op \in {"AddProjectMember", "UpdateProjectMemberRole"} <=> new # NoRole
         /\ IF ~Authorize(op, caller, p) THEN End(r, "403")
            ELSE IF new # NoRole /\ ~isValidRole(new) THEN End(r, "400")
            ELSE Takes(r, [pc |-> First(op), op |-> op, caller |-> caller, project |-> p,
                           target |-> target, role |-> new, callerRole |-> NoRole])
  BY DEF Begin, Takes
<1> DEFINE v == [pc |-> First(op), op |-> op, caller |-> caller, project |-> p,
                 target |-> target, role |-> new, callerRole |-> NoRole]
<1>2. UNCHANGED rows
  BY DEF Begin
<1>3. CASE \E answer : End(r, answer)
  BY <1>2, <1>3, EndReads
<1>4. CASE Authorize(op, caller, p) /\ (new = NoRole \/ isValidRole(new)) /\ Takes(r, v)
  <2>1. First(op) \in {"updateProject", "listDatabases", "caller", "read"}
    BY DEF First
  <2>2. role[p][caller] # NoRole
    BY <1>4 DEF Authorize, Allows, rolePermissions, NoRole
  <2>3. p \in present
    BY <2>2 DEF Inv, RowsOfProjects
  <2>4. billing[p] # NoSubject
    BY <2>3 DEF Inv, RowsOfProjects
  <2>5. op \in Operation
    BY DEF ProjectOperation
  <2>6. new \in Role \cup {NoRole}
    BY <1>4 DEF isValidRole
  <2>7. v \in Request
    BY <2>1, <2>5, <2>6 DEF Request
  <2>8. Knows(v)
    BY <1>1, <2>1, <2>4 DEF Knows, NamesProject, KnowsPlan, GrantsLess, KnowsOwner, KnowsLocked,
                     SparesAnOwner, CallerIsOwner, NoRole
  <2>9. \A x \in Project : ~Holds(v, x)
    BY <2>1 DEF Holds
  <2> QED
    BY <1>2, <1>4, <2>7, <2>8, <2>9 DEF Reads, Slot
<1> QED
  BY <1>1, <1>3, <1>4

\* An answer to a request that writes nothing.
LEMMA AnswersRead ==
    ASSUME Inv, NEW r \in Req,
           \/ Unauthenticated(r) \/ Malformed(r) \/ Fail(r) \/ Read(r)
           \/ PlanUnavailable(r) \/ CreationRefused(r) \/ ProjectAlreadyExists(r)
           \/ UpdateProject(r)
    PROVE  Reads(r)
<1>1. UNCHANGED rows /\ \E answer : End(r, answer)
  BY DEF Unauthenticated, Malformed, Fail, Read, PlanUnavailable, CreationRefused,
         ProjectAlreadyExists, UpdateProject, Serves, Asks, GetProject, ListProjectMembers,
         GetProjectMember, ListResources, GetProjectPlan, GetProjectQuotas, ListProjects,
         GetAccountPlan, GetPlan
<1> QED
  BY <1>1, EndReads

\* EnsureSubjectPlan and CheckAccountPlan.
LEMMA PlansRead ==
    ASSUME Inv, NEW r \in Req, EnsureSubjectPlan(r) \/ CheckAccountPlan(r)
    PROVE  Reads(r)
<1>1. UNCHANGED rows
  BY DEF EnsureSubjectPlan, CheckAccountPlan, Asks
<1>2. CASE \E answer : End(r, answer)
  BY <1>1, <1>2, EndReads
<1>3. ASSUME NEW op \in Operation, NEW caller \in Subject, NEW target \in Subject,
             NEW place \in {"insertPlan", "insertProject"},
             place = "insertProject" => target \in plan,
             Takes(r, AsksFor(op, caller, target, place))
      PROVE  Reads(r)
  <2> DEFINE v == AsksFor(op, caller, target, place)
  <2>1. v \in Request
    BY DEF AsksFor, Request
  <2>2. v.pc = place /\ v.target = target
    BY DEF AsksFor
  <2>3. Knows(v)
    BY <1>3, <2>2 DEF Knows, NamesProject, KnowsPlan, GrantsLess, KnowsOwner, KnowsLocked,
                      SparesAnOwner
  <2>4. \A x \in Project : ~Holds(v, x)
    BY <2>2 DEF Holds
  <2> QED
    BY <1>1, <1>3, <2>1, <2>3, <2>4 DEF Reads, Slot
<1>4. "InitializeAccount" \in Operation /\ "CreateProject" \in Operation
  BY DEF Operation, ProjectRoute
<1>5. CASE EnsureSubjectPlan(r)
  BY <1>2, <1>3, <1>4, <1>5 DEF EnsureSubjectPlan, Takes
<1>6. CASE CheckAccountPlan(r)
  <2>1. PICK caller \in Subject, named \in Subject, ownerKind \in {"user", "organization"} :
           LET billed == resolveProjectBilling(caller, ownerKind, named) IN
           IF ~AccountPlanFound(billed) THEN End(r, "404")
           ELSE Takes(r, AsksFor("CreateProject", caller, billed, "insertProject"))
    BY <1>6 DEF CheckAccountPlan, Takes
  <2>2. resolveProjectBilling(caller, ownerKind, named) \in Subject
    BY DEF resolveProjectBilling
  <2> QED
    BY <1>2, <1>3, <1>4, <2>1, <2>2 DEF AccountPlanFound
<1> QED
  BY <1>5, <1>6

\* A request goes on to another statement: the fields of its slot.
LEMMA GoneOn ==
    ASSUME TypeOK, NEW r \in Req, req[r].pc # "idle",
           NEW place \in {"deleteProject", "getProject", "insertMember", "count", "lock",
                          "check", "write"},
           Go(r, place) \/ Checked(r, place)
    PROVE  \E v \in Request :
              /\ Takes(r, v)
              /\ v.pc = place
              /\ v.op = req[r].op /\ v.caller = req[r].caller /\ v.project = req[r].project
              /\ v.target = req[r].target /\ v.role = req[r].role
<1>1. req[r] \in Request
  BY BusySlot
<1>2. CASE Go(r, place)
  <2> DEFINE v == [req[r] EXCEPT !.pc = place]
  <2>1. Takes(r, v)
    BY <1>2, GoTakes
  <2>2. v \in Request /\ v.pc = place
    BY <1>1 DEF Request
  <2> QED
    BY <1>1, <2>1, <2>2 DEF Request
<1>3. CASE Checked(r, place)
  <2> DEFINE v == [req[r] EXCEPT !.pc = place, !.callerRole = NoRole]
  <2>1. Takes(r, v)
    BY <1>3 DEF Checked, Takes, TypeOK
  <2>2. v \in Request /\ v.pc = place
    BY <1>1 DEF Request
  <2> QED
    BY <1>1, <2>1, <2>2 DEF Request
<1> QED
  BY <1>2, <1>3

\* What the slot knew at the statement before is what it must know at the next
\* one, outside the lock.
LEMMA GoesOnUnlocked ==
    ASSUME Inv, NEW r \in Req,
           req[r].pc \notin {"idle", "read", "insertProject", "insertPlan"},
           NEW place \in {"deleteProject", "getProject", "insertMember", "count", "lock"},
           Go(r, place) \/ Checked(r, place), UNCHANGED rows,
           place # "deleteProject" => /\ req[r].role # "owner"
                                      /\ req[r].role = "admin" => CallerIsOwner(req[r])
    PROVE  Reads(r)
<1>1. PICK v \in Request :
              /\ Takes(r, v)
              /\ v.pc = place
              /\ v.op = req[r].op /\ v.caller = req[r].caller /\ v.project = req[r].project
              /\ v.target = req[r].target /\ v.role = req[r].role
  BY GoneOn DEF Inv
<1>2. NamesProject(req[r])
  BY DEF Inv, Knows
<1>3. Knows(v)
  BY <1>1, <1>2 DEF Knows, NamesProject, KnowsPlan, GrantsLess, KnowsOwner, KnowsLocked,
                    SparesAnOwner, CallerIsOwner
<1>4. \A x \in Project : ~Holds(v, x)
  BY <1>1 DEF Holds
<1> QED
  BY <1>1, <1>3, <1>4 DEF Reads, Slot

\* Only owners grant the role of an admin, and nobody that of an owner.
LEMMA LowerRoles ==
    ASSUME NEW callerRole, NEW new, canAssignProjectRole(callerRole, new)
    PROVE  new # "owner" /\ (new = "admin" => callerRole = "owner")
BY DEF canAssignProjectRole, roleRank, Role

LEMMA AddReads ==
    ASSUME Inv, NEW r \in Req, ListDatabases(r) \/ AddReadsCaller(r) \/ ReadProject(r)
    PROVE  Reads(r)
<1>1. UNCHANGED rows
  BY DEF ListDatabases, AddReadsCaller, ReadProject
<1>2. CASE \E answer : End(r, answer)
  BY <1>1, <1>2, EndReads
<1>3. CASE At(r, "listDatabases") /\ Go(r, "deleteProject")
  BY <1>1, <1>3, GoesOnUnlocked DEF At
<1>4. CASE AddReadsCaller(r) /\ Go(r, "getProject")
  <2> DEFINE callerRole == role[req[r].project][req[r].caller]
  <2>1. CASE canAssignProjectRole(callerRole, req[r].role)
    <3>1. req[r].role # "owner" /\ (req[r].role = "admin" => callerRole = "owner")
      BY <2>1, LowerRoles
    <3>2. req[r].role = "admin" => CallerIsOwner(req[r])
      BY <3>1 DEF CallerIsOwner
    <3> QED
      BY <1>1, <1>4, <3>1, <3>2, GoesOnUnlocked DEF AddReadsCaller, At
  <2>2. CASE \E answer : End(r, answer)
    BY <1>1, <2>2, EndReads
  <2> QED
    BY <1>4, <2>1, <2>2 DEF AddReadsCaller
<1>5. CASE At(r, "getProject") /\ Go(r, "insertMember")
  <2>1. GrantsLess(req[r]) /\ KnowsOwner(req[r])
    BY DEF Inv, Knows
  <2> QED
    BY <1>1, <1>5, <2>1, GoesOnUnlocked DEF At, GrantsLess, KnowsOwner
<1> QED
  BY <1>2, <1>3, <1>4, <1>5 DEF ListDatabases, AddReadsCaller, ReadProject

LEMMA ChangeReads ==
    ASSUME Inv, NEW r \in Req, ChangeReadsCaller(r)
    PROVE  Reads(r)
<1> DEFINE callerRole == role[req[r].project][req[r].caller]
           v == [req[r] EXCEPT !.pc = "target", !.callerRole = callerRole]
<1>1. UNCHANGED rows /\ req[r].pc = "caller"
  BY DEF ChangeReadsCaller, At
<1>2. CASE \E answer : End(r, answer)
  BY <1>1, <1>2, EndReads
<1>3. CASE Takes(r, v)
  <2>1. req[r] \in Request
    BY <1>1, BusySlot DEF Inv
  <2>2. Knows(req[r])
    BY DEF Inv
  <2>3. req[r].project \in Project
    BY <1>1, <2>2 DEF Knows, NamesProject
  <2>4. callerRole \in Role \cup {NoRole}
    BY <2>1, <2>3 DEF Inv, TypeOK, Request
  <2>5. /\ v \in Request
        /\ v.pc = "target" /\ v.callerRole = callerRole
        /\ v.op = req[r].op /\ v.caller = req[r].caller /\ v.project = req[r].project
        /\ v.role = req[r].role
    BY <2>1, <2>4 DEF Request
  <2>6. Knows(v)
    BY <1>1, <2>2, <2>5 DEF Knows, NamesProject, KnowsPlan, GrantsLess, KnowsOwner, KnowsLocked,
                            SparesAnOwner, CallerIsOwner
  <2>7. \A x \in Project : ~Holds(v, x)
    BY <2>5 DEF Holds
  <2> QED
    BY <1>1, <1>3, <2>5, <2>6, <2>7 DEF Reads, Slot
<1> QED
  BY <1>2, <1>3 DEF ChangeReadsCaller, Takes, Inv, TypeOK

LEMMA TargetReads ==
    ASSUME Inv, NEW r \in Req, UpdateReadsTarget(r) \/ RemoveReadsTarget(r) \/ CountOwners(r)
    PROVE  Reads(r)
<1>1. UNCHANGED rows
  BY DEF UpdateReadsTarget, RemoveReadsTarget, CountOwners
<1>2. CASE \E answer : End(r, answer)
  BY <1>1, <1>2, EndReads
<1>3. GrantsLess(req[r]) /\ KnowsOwner(req[r])
  BY DEF Inv, Knows
<1>4. CASE UpdateReadsTarget(r)
  <2>1. CASE canAssignProjectRole(req[r].callerRole, req[r].role) /\ Checked(r, "lock")
    <3>1. req[r].role # "owner" /\ (req[r].role = "admin" => req[r].callerRole = "owner")
      BY <2>1, LowerRoles
    <3>2. req[r].role = "admin" => CallerIsOwner(req[r])
      BY <1>3, <1>4, <3>1 DEF KnowsOwner, UpdateReadsTarget, At
    <3> QED
      BY <1>1, <1>4, <2>1, <3>1, <3>2, GoesOnUnlocked DEF UpdateReadsTarget, At
  <2> QED
    BY <1>2, <1>4, <2>1 DEF UpdateReadsTarget
<1>5. CASE RemoveReadsTarget(r)
  <2>1. req[r].role = NoRole /\ req[r].pc = "target"
    BY <1>3, <1>5 DEF GrantsLess, RemoveReadsTarget, At
  <2>2. req[r].role # "owner" /\ req[r].role # "admin"
    BY <2>1 DEF NoRole
  <2>3. CASE Checked(r, "lock") \/ Checked(r, "count")
    BY <1>1, <2>1, <2>2, <2>3, GoesOnUnlocked
  <2> QED
    BY <1>2, <1>5, <2>3 DEF RemoveReadsTarget
<1>6. CASE CountOwners(r)
  <2>1. CASE Go(r, "lock")
    BY <1>1, <1>3, <1>6, <2>1, GoesOnUnlocked DEF GrantsLess, KnowsOwner, CountOwners, At
  <2> QED
    BY <1>2, <1>6, <2>1 DEF CountOwners
<1> QED
  BY <1>4, <1>5, <1>6

LEMMA LockReads ==
    ASSUME Inv, NEW r \in Req, LockProject(r) \/ CheckLastOwner(r)
    PROVE  Reads(r)
<1>1. UNCHANGED rows
  BY DEF LockProject, CheckLastOwner
<1>2. CASE \E answer : End(r, answer)
  BY <1>1, <1>2, EndReads
<1>3. Knows(req[r])
  BY DEF Inv
<1>4. ASSUME NEW place \in {"check", "write"}, Go(r, place),
             req[r].pc \in {"lock", "check"}, req[r].project \in present,
             req[r].pc = "lock" => Unlocked(req[r].project),
             place = "write" /\ role[req[r].project][req[r].target] = "owner" =>
                \E s \in Subject \ {req[r].target} : role[req[r].project][s] = "owner"
      PROVE  Reads(r)
  <2>1. PICK v \in Request :
              /\ Takes(r, v)
              /\ v.pc = place
              /\ v.op = req[r].op /\ v.caller = req[r].caller /\ v.project = req[r].project
              /\ v.target = req[r].target /\ v.role = req[r].role
    BY <1>4, GoneOn DEF Inv
  <2>2. Knows(v)
    BY <1>3, <1>4, <2>1 DEF Knows, NamesProject, KnowsPlan, GrantsLess, KnowsOwner,
                            KnowsLocked, SparesAnOwner, CallerIsOwner
  <2>3. \A x \in Project : Holds(v, x) => Holds(req[r], x) \/ Unlocked(x)
    BY <1>4, <2>1 DEF Holds
  <2> QED
    BY <1>1, <2>1, <2>2, <2>3 DEF Reads, Slot
<1>5. CASE LockProject(r)
  BY <1>2, <1>4, <1>5 DEF LockProject, At
<1>6. CASE CheckLastOwner(r)
  <2> DEFINE p == req[r].project
             t == req[r].target
  <2>1. p \in present /\ req[r].role # "owner" /\ req[r].pc = "check"
    BY <1>3, <1>6 DEF Knows, KnowsLocked, GrantsLess, CheckLastOwner, At
  <2>2. CASE Go(r, "write") /\ ~(role[p][t] = "owner" /\ Cardinality(Owners(p)) <= 1)
    <3>1. ASSUME role[p][t] = "owner"
          PROVE  \E s \in Subject \ {t} : role[p][s] = "owner"
      <4>1. t \in Subject
        BY <2>1, BusySlot DEF Inv, Request
      <4>2. SUFFICES ASSUME Owners(p) = {t} PROVE FALSE
        BY <3>1, <4>1 DEF Owners
      <4>3. Cardinality({t}) = 1
        BY FS_Singleton
      <4> QED
        BY <2>2, <3>1, <4>2, <4>3
    <3> QED
      BY <1>4, <2>1, <2>2, <3>1
  <2> QED
    BY <1>2, <1>6, <2>1, <2>2 DEF CheckLastOwner
<1> QED
  BY <1>5, <1>6

-----------------------------------------------------------------------------
(* The steps that write *)

\* What a step leaves to the requests that it is not a step of: plans stay, owners
\* stay as long as nobody is seated, and a request that holds the lock of its
\* project finds its owners as it counted them.
LeavesKnown(x) ==
    /\ req'[x] = req[x]
    /\ plan \subseteq plan'
    /\ \A p \in Project : billing[p] # NoSubject => billing'[p] # NoSubject
    /\ \A p \in Project : billing[p] # NoSubject /\ p \in present' \ seated' =>
          /\ p \in present \ seated
          /\ \A s \in Subject : role[p][s] = "owner" => role'[p][s] = "owner"
    /\ \A p \in present : Holds(req[x], p) =>
          /\ p \in present'
          /\ \A s \in Subject : role[p][s] = "owner" => role'[p][s] = "owner"
          /\ req[x].pc = "write" /\ role'[p][req[x].target] = "owner" =>
                role[p][req[x].target] = "owner"

LEMMA StillKnows ==
    ASSUME Inv, NEW x \in Req, LeavesKnown(x)
    PROVE  Knows(req[x])'
<1>1. Knows(req[x])
  BY DEF Inv
<1>2. req[x].pc # "idle" => req[x] \in Request
  BY BusySlot DEF Inv
<1>3. NamesProject(req[x])'
  BY <1>1 DEF LeavesKnown, Knows, NamesProject
<1>4. KnowsPlan(req[x])' /\ GrantsLess(req[x])'
  BY <1>1 DEF LeavesKnown, Knows, KnowsPlan, GrantsLess
<1>5. ASSUME CallerIsOwner(req[x]),
             req[x].pc \notin {"idle", "read", "insertProject", "insertPlan"}
      PROVE  CallerIsOwner(req[x])'
  BY <1>1, <1>2, <1>5 DEF LeavesKnown, Knows, NamesProject, CallerIsOwner, Request
<1>6. KnowsOwner(req[x])'
  BY <1>1, <1>5 DEF LeavesKnown, Knows, KnowsOwner
<1>7. KnowsLocked(req[x])'
  <2>1. CASE req[x].pc \in {"check", "write"}
    <3>1. req[x].project \in present /\ Holds(req[x], req[x].project) /\ SparesAnOwner(req[x])
      BY <1>1, <2>1 DEF Knows, KnowsLocked, Holds
    <3> QED
      BY <3>1 DEF LeavesKnown, KnowsLocked, SparesAnOwner
  <2>2. CASE req[x].pc \notin {"check", "write"}
    BY <2>2 DEF LeavesKnown, KnowsLocked, SparesAnOwner
  <2> QED
    BY <2>1, <2>2
<1> QED
  BY <1>3, <1>4, <1>6, <1>7 DEF Knows

\* The step of a request ends it, and leaves the others what they know.
LEMMA WriteKnows ==
    ASSUME Inv, NEW r \in Req, Takes(r, Idle),
           \A x \in Req \ {r} : req'[x] = req[x] => LeavesKnown(x)
    PROVE  /\ req' \in [Req -> Slot]
           /\ LocksExclusive'
           /\ \A x \in Req : Knows(req[x])'
<1>1. /\ req' \in [Req -> Slot]
      /\ req'[r] = Idle
      /\ \A x \in Req \ {r} : req'[x] = req[x]
  BY IdleKnows, Taken DEF Inv
<1>2. ASSUME NEW x \in Req PROVE Knows(req[x])'
  <2>1. CASE x = r
    BY <1>1, <2>1 DEF Idle, Knows, NamesProject, KnowsPlan, GrantsLess, KnowsOwner, KnowsLocked,
       SparesAnOwner
  <2>2. CASE x # r
    BY <1>1, <2>2, StillKnows
  <2> QED
    BY <2>1, <2>2
<1>3. LocksExclusive'
  BY <1>1, IdleKnows DEF Inv, LocksExclusive, Holds, Idle
<1> QED
  BY <1>1, <1>2, <1>3

LEMMA InsertSubjectPlanStep ==
    ASSUME Inv, NEW r \in Req, InsertSubjectPlan(r)
    PROVE  Inv'
<1>1. /\ Takes(r, Idle)
      /\ req[r] \in Request
      /\ plan' = plan \cup {req[r].caller}
      /\ UNCHANGED <<billing, present, role, seated>>
  BY EndTakes, BusySlot DEF InsertSubjectPlan, At, Inv
<1>2. /\ req' \in [Req -> Slot]
      /\ LocksExclusive'
      /\ \A x \in Req : Knows(req[x])'
  BY <1>1, WriteKnows DEF LeavesKnown
<1>3. TypeOK'
  BY <1>1, <1>2 DEF Inv, TypeOK, Request, Slot
<1>4. RowsOfProjects' /\ KeepsAnOwner' /\ OwnerIsBilled' /\ BilledHasPlan'
  BY <1>1 DEF Inv, RowsOfProjects, KeepsAnOwner, OwnerIsBilled, BilledHasPlan, Owners
<1> QED
  BY <1>2, <1>3, <1>4 DEF Inv

LEMMA InsertProjectStep ==
    ASSUME Inv, NEW r \in Req, InsertProject(r)
    PROVE  Inv'
<1>1. PICK p \in Project :
         /\ billing[p] = NoSubject
         /\ billing' = [billing EXCEPT ![p] = req[r].target]
         /\ present' = present \cup {p}
         /\ role' = [role EXCEPT ![p][req[r].target] = "owner"]
  BY DEF InsertProject, SetRole
<1> DEFINE t == req[r].target
<1>2. /\ Takes(r, Idle)
      /\ req[r] \in Request
      /\ UNCHANGED <<plan, seated>>
  BY EndTakes, BusySlot DEF InsertProject, At, Inv
<1>3. t \in Subject /\ t # NoSubject /\ t \in plan
  BY <1>2, SubjectAssumption DEF Request, Inv, Knows, KnowsPlan, InsertProject, At
<1>4. p \notin present /\ \A s \in Subject : role[p][s] = NoRole
  BY <1>1 DEF Inv, RowsOfProjects
<1>5. /\ billing' \in [Project -> Subject \cup {NoSubject}]
      /\ role' \in [Project -> [Subject -> Role \cup {NoRole}]]
  BY <1>1, <1>3 DEF Inv, TypeOK, Role
<1>6. /\ billing'[p] = t
      /\ \A x \in Project \ {p} : billing'[x] = billing[x] /\ role'[x] = role[x]
      /\ role'[p] = [role[p] EXCEPT ![t] = "owner"]
  BY <1>1 DEF Inv, TypeOK
<1>7. role'[p][t] = "owner" /\ \A s \in Subject \ {t} : role'[p][s] = NoRole
  BY <1>3, <1>4, <1>6 DEF Inv, TypeOK
<1>8. ASSUME NEW x \in Req \ {r}, req'[x] = req[x] PROVE LeavesKnown(x)
  BY <1>1, <1>2, <1>3, <1>4, <1>6, <1>8 DEF LeavesKnown, Inv, TypeOK
<1>9. /\ req' \in [Req -> Slot]
      /\ LocksExclusive'
      /\ \A x \in Req : Knows(req[x])'
  BY <1>2, <1>8, WriteKnows
<1>10. TypeOK'
  BY <1>1, <1>2, <1>5, <1>9 DEF Inv, TypeOK, Slot
<1>11. RowsOfProjects'
  BY <1>1, <1>3, <1>6 DEF Inv, RowsOfProjects
<1>12. KeepsAnOwner' /\ OwnerIsBilled'
  <2>1. NoRole # "owner"
    BY DEF NoRole
  <2>2. Owners(p)' = {t}
    BY <1>3, <1>7, <2>1 DEF Owners
  <2>3. \A x \in present : Owners(x)' = Owners(x) /\ billing'[x] = billing[x]
    BY <1>4, <1>6 DEF Owners, Inv, TypeOK
  <2> QED
    BY <1>1, <1>2, <1>6, <2>2, <2>3 DEF Inv, KeepsAnOwner, OwnerIsBilled
<1>13. BilledHasPlan'
  BY <1>2, <1>3, <1>6 DEF Inv, BilledHasPlan
<1> QED
  BY <1>9, <1>10, <1>11, <1>12, <1>13 DEF Inv

LEMMA DeleteProjectStep ==
    ASSUME Inv, NEW r \in Req, DeleteProject(r)
    PROVE  Inv'
<1> DEFINE p == req[r].project
<1>1. /\ Takes(r, Idle)
      /\ Unlocked(p)
      /\ present' = present \ {p}
      /\ role' = [role EXCEPT ![p] = [s \in Subject |-> NoRole]]
      /\ UNCHANGED <<billing, plan, seated>>
  BY EndTakes DEF DeleteProject
<1>2. p \in Project
  BY DEF DeleteProject, At, Inv, Knows, NamesProject
<1>3. /\ \A s \in Subject : role'[p][s] = NoRole
      /\ \A x \in Project \ {p} : role'[x] = role[x]
      /\ role' \in [Project -> [Subject -> Role \cup {NoRole}]]
  BY <1>1, <1>2 DEF Inv, TypeOK
<1>4. ASSUME NEW x \in Req \ {r}, req'[x] = req[x] PROVE LeavesKnown(x)
  <2>1. ~Holds(req[x], p)
    BY <1>1 DEF Unlocked, LocksProject, Holds
  <2> QED
    BY <1>1, <1>3, <1>4, <2>1 DEF LeavesKnown, Inv, TypeOK
<1>5. /\ req' \in [Req -> Slot]
      /\ LocksExclusive'
      /\ \A x \in Req : Knows(req[x])'
  BY <1>1, <1>4, WriteKnows
<1>6. TypeOK'
  BY <1>1, <1>3, <1>5 DEF Inv, TypeOK, Slot
<1>7. RowsOfProjects' /\ BilledHasPlan'
  BY <1>1, <1>3 DEF Inv, RowsOfProjects, BilledHasPlan
<1>8. KeepsAnOwner' /\ OwnerIsBilled'
  <2>1. \A x \in present' : x \in present /\ Owners(x)' = Owners(x)
    BY <1>1, <1>3 DEF Owners, Inv, TypeOK
  <2> QED
    BY <1>1, <2>1 DEF Inv, KeepsAnOwner, OwnerIsBilled
<1> QED
  BY <1>5, <1>6, <1>7, <1>8 DEF Inv

\* A request that holds the project alone gives a member a role below that of an
\* owner, or none: the owners of a project where nobody was seated stay the same,
\* and one is left in any project.
LEMMA MemberWritten ==
    ASSUME Inv, NEW r \in Req, Takes(r, Idle),
           NEW p \in present, NEW t \in Subject, NEW new \in Role \cup {NoRole},
           new # "owner", SetRole(p, t, new), UNCHANGED <<billing, present, plan, seated>>,
           role[p][t] = "owner" => \E s \in Subject \ {t} : role[p][s] = "owner",
           \A x \in Req \ {r} : ~Holds(req[x], p)
    PROVE  Inv'
<1>1. p \in Project
  BY DEF Inv, TypeOK
<1>2. /\ role'[p][t] = new
      /\ \A s \in Subject \ {t} : role'[p][s] = role[p][s]
      /\ \A x \in Project \ {p} : role'[x] = role[x]
      /\ role' \in [Project -> [Subject -> Role \cup {NoRole}]]
  BY <1>1 DEF SetRole, Inv, TypeOK
<1>3. p \notin seated => role[p][t] # "owner"
  BY DEF Inv, OwnerIsBilled, Owners
<1>4. p \notin seated => \A s \in Subject : role[p][s] = "owner" => role'[p][s] = "owner"
  BY <1>2, <1>3
<1>5. ASSUME NEW x \in Req \ {r}, req'[x] = req[x] PROVE LeavesKnown(x)
  BY <1>2, <1>4, <1>5 DEF LeavesKnown, Inv, TypeOK
<1>6. /\ req' \in [Req -> Slot]
      /\ LocksExclusive'
      /\ \A x \in Req : Knows(req[x])'
  BY <1>5, WriteKnows
<1>7. TypeOK'
  BY <1>2, <1>6 DEF Inv, TypeOK, Slot
<1>8. RowsOfProjects' /\ BilledHasPlan'
  BY <1>2 DEF Inv, RowsOfProjects, BilledHasPlan
<1>9. \A x \in present \ {p} : Owners(x)' = Owners(x)
  BY <1>2 DEF Owners, Inv, TypeOK
<1>10. Owners(p)' = Owners(p) \ {t}
  BY <1>2 DEF Owners
<1>11. KeepsAnOwner'
  <2>1. Owners(p)' # {}
    <3>1. CASE role[p][t] = "owner"
      BY <1>10, <3>1 DEF Owners
    <3>2. CASE role[p][t] # "owner"
      BY <1>10, <3>2 DEF Inv, KeepsAnOwner, Owners
    <3> QED
      BY <3>1, <3>2
  <2> QED
    BY <1>9, <2>1 DEF Inv, KeepsAnOwner
<1>12. OwnerIsBilled'
  <2>1. p \notin seated => Owners(p)' = Owners(p)
    BY <1>3, <1>10 DEF Owners
  <2> QED
    BY <1>9, <2>1 DEF Inv, OwnerIsBilled
<1> QED
  BY <1>6, <1>7, <1>8, <1>11, <1>12 DEF Inv

LEMMA InsertMemberStep ==
    ASSUME Inv, NEW r \in Req, InsertMember(r)
    PROVE  Inv'
<1> DEFINE p == req[r].project
           t == req[r].target
<1>1. CASE UNCHANGED role
  BY <1>1, EndReads, ReadsPreserves DEF InsertMember, rows
<1>2. CASE role' # role
  <2>1. /\ p \in present
        /\ role[p][t] = NoRole
        /\ SetRole(p, t, req[r].role)
        /\ End(r, "200")
        /\ Unlocked(p)
        /\ req[r].pc = "insertMember"
        /\ UNCHANGED <<billing, present, plan, seated>>
    BY <1>2 DEF InsertMember, At
  <2>2. req[r] \in Request
    BY <2>1, BusySlot DEF Inv
  <2>3. t \in Subject /\ req[r].role \in Role \cup {NoRole}
    BY <2>2 DEF Request
  <2>4. req[r].role # "owner"
    BY <2>1 DEF Inv, Knows, GrantsLess
  <2>5. role[p][t] # "owner"
    BY <2>1 DEF NoRole
  <2>6. \A x \in Req \ {r} : ~Holds(req[x], p)
    BY <2>1 DEF Unlocked, LocksProject, Holds
  <2> QED
    BY <2>1, <2>3, <2>4, <2>5, <2>6, EndTakes, MemberWritten
<1> QED
  BY <1>1, <1>2

LEMMA WriteMemberStep ==
    ASSUME Inv, NEW r \in Req, WriteRole(r) \/ DeleteMember(r)
    PROVE  Inv'
<1> DEFINE p == req[r].project
           t == req[r].target
<1>1. /\ req[r].pc = "write"
      /\ \/ SetRole(p, t, req[r].role)
         \/ SetRole(p, t, NoRole)
      /\ Takes(r, Idle)
      /\ UNCHANGED <<billing, present, plan, seated>>
  BY EndTakes DEF WriteRole, DeleteMember, At
<1>2. req[r] \in Request
  BY <1>1, BusySlot DEF Inv
<1>3. t \in Subject /\ req[r].role \in Role \cup {NoRole}
  BY <1>2 DEF Request
<1>4. /\ p \in present
      /\ req[r].role # "owner"
      /\ role[p][t] = "owner" => \E s \in Subject \ {t} : role[p][s] = "owner"
  BY <1>1 DEF Inv, Knows, GrantsLess, KnowsLocked, SparesAnOwner
<1>5. p \in Project
  BY <1>4 DEF Inv, TypeOK
<1>6. \A x \in Req \ {r} : ~Holds(req[x], p)
  BY <1>1, <1>5 DEF Inv, LocksExclusive, Holds
<1>7. NoRole \in Role \cup {NoRole} /\ NoRole # "owner"
  BY DEF NoRole
<1> QED
  BY <1>1, <1>3, <1>4, <1>6, <1>7, MemberWritten

LEMMA SeatOwnerStep ==
    ASSUME Inv, NEW p \in Project, NEW t \in Subject, SeatOwner(p, t)
    PROVE  Inv'
<1>1. /\ p \in present \ seated
      /\ seated' = seated \cup {p}
      /\ UNCHANGED <<billing, present, plan, req>>
  BY DEF SeatOwner
<1>2. /\ role'[p][t] = "owner"
      /\ \A s \in Subject \ {t} : role'[p][s] = role[p][s]
      /\ \A x \in Project \ {p} : role'[x] = role[x]
      /\ role' \in [Project -> [Subject -> Role \cup {NoRole}]]
  BY DEF SeatOwner, SetRole, Inv, TypeOK, Role
<1>3. ASSUME NEW x \in Req PROVE LeavesKnown(x)
  <2>1. ASSUME Holds(req[x], p), req[x].pc = "write", req[x].target = t
        PROVE  FALSE
    BY <2>1 DEF SeatOwner, Holds, At, Unlocked, LocksProject
  <2>2. Holds(req[x], p) /\ req[x].pc = "write" =>
           req[x].target \in Subject /\ req[x].target # t
    BY <2>1, BusySlot DEF Inv, Request
  <2> QED
    BY <1>1, <1>2, <2>2 DEF LeavesKnown, Inv, TypeOK
<1>4. ASSUME NEW x \in Req PROVE Knows(req[x])'
  BY <1>3, StillKnows
<1>5. TypeOK'
  BY <1>1, <1>2 DEF Inv, TypeOK
<1>6. RowsOfProjects' /\ BilledHasPlan' /\ LocksExclusive'
  BY <1>1, <1>2 DEF Inv, RowsOfProjects, BilledHasPlan, LocksExclusive, Holds
<1>7. KeepsAnOwner' /\ OwnerIsBilled'
  <2>1. t \in Owners(p)'
    BY <1>2 DEF Owners
  <2>2. \A x \in present \ {p} : Owners(x)' = Owners(x)
    BY <1>2 DEF Owners, Inv, TypeOK
  <2> QED
    BY <1>1, <2>1, <2>2 DEF Inv, KeepsAnOwner, OwnerIsBilled
<1> QED
  BY <1>4, <1>5, <1>6, <1>7 DEF Inv

-----------------------------------------------------------------------------
(* The specification *)

LEMMA InitInv == Init => Inv
<1> SUFFICES ASSUME Init PROVE Inv
  OBVIOUS
<1>1. TypeOK
  BY DEF Init, TypeOK
<1>2. \A r \in Req : req[r] = Idle
  BY DEF Init
<1>3. LocksExclusive /\ \A r \in Req : Knows(req[r])
  BY <1>2, IdleKnows DEF LocksExclusive
<1> QED
  BY <1>1, <1>3 DEF Init, Inv, RowsOfProjects, KeepsAnOwner, OwnerIsBilled, BilledHasPlan

LEMMA NextInv == Inv /\ [Next]_vars => Inv'
<1> SUFFICES ASSUME Inv, [Next]_vars PROVE Inv'
  OBVIOUS
<1>1. ASSUME NEW r \in Req, Step(r) PROVE Inv'
  BY <1>1, BeginReads, AnswersRead, PlansRead, AddReads, ChangeReads, TargetReads, LockReads,
     ReadsPreserves, InsertSubjectPlanStep, InsertProjectStep, DeleteProjectStep,
     InsertMemberStep, WriteMemberStep DEF Step
<1>2. CASE UNCHANGED vars
  BY <1>2 DEF vars, Inv, TypeOK, RowsOfProjects, KeepsAnOwner, OwnerIsBilled, BilledHasPlan,
     LocksExclusive, Owners, Holds, Knows, NamesProject, KnowsPlan, GrantsLess, KnowsOwner,
     CallerIsOwner, KnowsLocked, SparesAnOwner
<1> QED
  BY <1>1, <1>2, SeatOwnerStep DEF Next

LEMMA Invariance == Spec => []Inv
BY InitInv, NextInv, PTL DEF Spec

(* The rows and the requests in flight keep their types: no unknown role   *)
(* is ever taken up.                                                       *)
THEOREM Typing == Spec => []TypeOK
<1>1. Inv => TypeOK
  BY DEF Inv
<1> QED
  BY <1>1, Invariance, PTL

(* However many owners remove or demote one another at once, one is left:  *)
(* the lock on the row of the project makes the count that the statement   *)
(* after it relies on.                                                     *)
THEOREM NeverOwnerless == Spec => []KeepsAnOwner
<1>1. Inv => KeepsAnOwner
  BY DEF Inv
<1> QED
  BY <1>1, Invariance, PTL

(* Without an extension, ownership never moves away from who is billed.    *)
THEOREM OwnershipStays == Spec => []OwnerIsBilled
<1>1. Inv => OwnerIsBilled
  BY DEF Inv
<1> QED
  BY <1>1, Invariance, PTL

(* The plan that was looked up before a project is created is still there. *)
THEOREM PlanStays == Spec => []BilledHasPlan
<1>1. Inv => BilledHasPlan
  BY DEF Inv
<1> QED
  BY <1>1, Invariance, PTL

-----------------------------------------------------------------------------
(* Who makes an admin *)

MadeByOwner(p, s) ==
    role[p][s] # "admin" /\ role'[p][s] = "admin" =>
        \E r \in Req : /\ req[r].pc \in {"insertMember", "write"}
                       /\ req'[r].pc = "idle"
                       /\ req[r].project = p
                       /\ role[p][req[r].caller] = "owner"

\* A request that writes the role of an admin was sent by an owner, who is one
\* still.
LEMMA GrantStep ==
    ASSUME Inv, NEW r \in Req, NEW p \in present \ seated, NEW s \in Subject,
           req[r].pc \in {"insertMember", "write"},
           SetRole(req[r].project, req[r].target, req[r].role), NEW answer, End(r, answer)
    PROVE  MadeByOwner(p, s)
<1> SUFFICES ASSUME role[p][s] # "admin", role'[p][s] = "admin"
             PROVE  /\ req'[r].pc = "idle"
                    /\ req[r].project = p
                    /\ role[p][req[r].caller] = "owner"
  BY DEF MadeByOwner
<1>1. req[r].project = p /\ req[r].role = "admin"
  BY DEF SetRole, Inv, TypeOK
<1>2. CallerIsOwner(req[r])
  BY <1>1 DEF Inv, Knows, KnowsOwner
<1>3. req'[r] = Idle
  BY EndTakes, IdleKnows, Taken DEF Inv
<1> QED
  BY <1>1, <1>2, <1>3 DEF CallerIsOwner, Idle

LEMMA AdminStep ==
    ASSUME Inv, [Next]_vars, NEW p \in present \ seated, NEW s \in Subject
    PROVE  MadeByOwner(p, s)
<1>1. p \in Project
  BY DEF Inv, TypeOK
<1>2. CASE UNCHANGED role
  BY <1>2 DEF MadeByOwner
<1>3. ASSUME NEW x \in Project, NEW t \in Subject, NEW new \in {"owner", NoRole},
             SetRole(x, t, new)
      PROVE  MadeByOwner(p, s)
  BY <1>1, <1>3 DEF SetRole, MadeByOwner, NoRole, Inv, TypeOK
<1>4. ASSUME NEW r \in Req, InsertProject(r) PROVE MadeByOwner(p, s)
  <2>1. req[r].target \in Subject
    BY <1>4, BusySlot DEF InsertProject, At, Inv, Request
  <2> QED
    BY <1>3, <1>4, <2>1 DEF InsertProject
<1>5. ASSUME NEW r \in Req, DeleteProject(r) PROVE MadeByOwner(p, s)
  BY <1>1, <1>5 DEF DeleteProject, MadeByOwner, NoRole, Inv, TypeOK
<1>6. ASSUME NEW r \in Req, InsertMember(r) PROVE MadeByOwner(p, s)
  BY <1>2, <1>6, GrantStep DEF InsertMember, At
<1>7. ASSUME NEW r \in Req, WriteRole(r) PROVE MadeByOwner(p, s)
  BY <1>7, GrantStep DEF WriteRole, At
<1>8. ASSUME NEW r \in Req, DeleteMember(r) PROVE MadeByOwner(p, s)
  <2>1. req[r].target \in Subject /\ req[r].project \in Project
    BY <1>8, BusySlot DEF DeleteMember, At, Inv, Request, Knows, NamesProject
  <2> QED
    BY <1>3, <1>8, <2>1 DEF DeleteMember
<1>9. ASSUME NEW x \in Project, NEW t \in Subject, SeatOwner(x, t) PROVE MadeByOwner(p, s)
  BY <1>3, <1>9 DEF SeatOwner
<1>10. ASSUME NEW r \in Req, Reads(r) PROVE MadeByOwner(p, s)
  BY <1>2, <1>10 DEF Reads, rows
<1>11. ASSUME NEW r \in Req, InsertSubjectPlan(r) PROVE MadeByOwner(p, s)
  BY <1>2, <1>11 DEF InsertSubjectPlan
<1>12. ASSUME NEW r \in Req, Step(r) PROVE MadeByOwner(p, s)
  BY <1>4, <1>5, <1>6, <1>7, <1>8, <1>10, <1>11, <1>12, BeginReads, AnswersRead, PlansRead,
     AddReads, ChangeReads, TargetReads, LockReads DEF Step
<1> QED
  BY <1>2, <1>9, <1>12 DEF Next, vars

(* The rank of a caller may be stale when the role is written, but not     *)
(* that of an owner: an admin is always made by one.                       *)
THEOREM OwnersMakeAdmins == Spec => AdminsAreMadeByOwners
<1>1. Inv /\ [Next]_vars =>
        [\A p \in present \ seated, s \in Subject :
           role[p][s] # "admin" /\ role'[p][s] = "admin" =>
               \E r \in Req : /\ req[r].pc \in {"insertMember", "write"}
                              /\ req'[r].pc = "idle"
                              /\ req[r].project = p
                              /\ role[p][req[r].caller] = "owner"]_vars
  BY AdminStep DEF MadeByOwner
<1> QED
  BY <1>1, Invariance, PTL DEF Spec, AdminsAreMadeByOwners
=============================================================================
