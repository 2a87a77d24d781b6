---------------------------- MODULE ProjectAccess ----------------------------
(***************************************************************************)
(* Projects, their members and the plans of their accounts: the handlers   *)
(* of apps/api/internal/transport/projects and transport/iam, and the part *)
(* of apps/api/internal/store/db/psql.go that they call.                   *)
(*                                                                         *)
(* A slot of Req is a request in flight; pc names the SQL statement it     *)
(* runs next, and one step is that statement with the handler code up to   *)
(* the next one.  A request reads the role of its caller once to be        *)
(* authorized, most of those that change members read it again, and all of *)
(* them write later: other requests change the roles in between.           *)
(***************************************************************************)
EXTENDS ProjectAuthz, FiniteSets

CONSTANTS
    Subject,     \* users with an account
    Project,     \* bound: the projects that are ever created
    Req,         \* API requests in flight
    NoSubject, NoProject,
    Requested    \* bound: the names of roles that requests ask for

ASSUME SubjectAssumption == NoSubject \notin Subject /\ NoProject \notin Project
ASSUME RequestedAssumption == NoRole \notin Requested

VARIABLES
    billing,     \* projects.billing_subject_id, NoSubject before the creation
    present,     \* the projects whose row exists
    role,        \* project_members: the role of a subject, or NoRole
    plan,        \* the subjects that have a row in subject_plans
    seated,      \* history: the projects where an extension seated an owner
    req          \* the requests in flight, and the answer to the last one

vars == <<billing, present, role, plan, seated, req>>
rows == <<billing, present, role, plan, seated>>

-----------------------------------------------------------------------------
Operation == DOMAIN ProjectRoute
ProjectOperation == {op \in Operation : ProjectRoute[op].action # "self"}
MemberChange == {"AddProjectMember", "UpdateProjectMemberRole", "RemoveProjectMember"}
Answers == {"200", "204", "400", "401", "403", "404", "409", "500"}

\* What a request carries between two statements: the subject it is about
\* (the member to change, the subject to bill), the role to grant and, once it
\* is read, the role of the caller.
Request == [pc : {"read", "caller", "target", "insertProject",
                  "updateProject", "listDatabases", "deleteProject",
                  "getProject", "insertMember", "count", "lock", "check", "write",
                  "insertPlan"},
            op : Operation, caller : Subject, project : Project \cup {NoProject},
            target : Subject, role : Role \cup {NoRole}, callerRole : Role \cup {NoRole}]
Idle == [pc |-> "idle"]

TypeOK ==
    /\ billing \in [Project -> Subject \cup {NoSubject}]
    /\ present \subseteq Project
    /\ role \in [Project -> [Subject -> Role \cup {NoRole}]]
    /\ plan \subseteq Subject
    /\ seated \subseteq Project
    /\ req \in [Req -> Request \cup {Idle}]

-----------------------------------------------------------------------------
(* Rows and the queries that read them *)

\* countProjectOwners, of the handler and of the transaction.
Owners(p) == {s \in Subject : role[p][s] = "owner"}
Members(p) == {s \in Subject : role[p][s] # NoRole}
MemberFound(p, s) == role[p][s] # NoRole
ProjectFound(p) == p \in present
AccountPlanFound(s) == s \in plan

\* A plan is visible when it is public and available, the subject's own, or that
\* of a project of which the subject is a member.
PlanVisible(public, s, p) == public \/ s \in plan \/ s \in Members(p)

At(r, place) == req[r].pc = place
Go(r, place) == req' = [req EXCEPT ![r].pc = place]

\* A request ends with the status it answers.  The slot keeps none of it: no later
\* step depends on an answer.
End(r, answer) == answer \in Answers /\ req' = [req EXCEPT ![r] = Idle]

\* SELECT id FROM projects WHERE id = $1 FOR UPDATE
LocksProject(r, p) == req[r].pc \in {"check", "write"} /\ req[r].project = p
Unlocked(p) == \A r \in Req : ~LocksProject(r, p)

SetRole(p, s, new) == role' = [role EXCEPT ![p][s] = new]

-----------------------------------------------------------------------------
(* The way of every request to its handler *)

\* The statement that a handler runs once the request is authorized.
First(op) ==
    CASE op = "UpdateProject" -> "updateProject"
      [] op = "DeleteProject" -> "listDatabases"
      [] op \in MemberChange -> "caller"
      [] OTHER -> "read"

\* GetProjectMemberByPublicID and the matrix: a subject that is not a member, or
\* a project that does not exist, is a denial like any other.
Authorize(op, caller, p) ==
    Allows(role[p][caller], ProjectRoute[op].action)

isValidRole(name) == name \in Role

\* The first SELECT of a request that concerns a project is that of its
\* authorization: an idle slot takes up a request with a verified token as it runs.
Begin(r) ==
    /\ At(r, "idle")
    /\ \E op \in ProjectOperation, caller, target \in Subject, p \in Project,
          new \in Requested \cup {NoRole} :
          /\ op \in MemberChange \/ target = caller
          /\ op \in {"AddProjectMember", "UpdateProjectMemberRole"} <=> new # NoRole
          /\ IF ~Authorize(op, caller, p) THEN End(r, "403")
             ELSE IF new # NoRole /\ ~isValidRole(new) THEN End(r, "400")
             ELSE req' = [req EXCEPT ![r] =
                    [pc |-> First(op), op |-> op, caller |-> caller, project |-> p,
                     target |-> target, role |-> new, callerRole |-> NoRole]]
    /\ UNCHANGED rows

\* A token that does not verify, a session that is no longer live where the
\* route asks for it, a subject that is not a user, a malformed identifier.
Unauthenticated(r) ==
    /\ At(r, "idle")
    /\ \E answer \in {"400", "401", "403"} : End(r, answer)
    /\ UNCHANGED rows

\* A body or a value that does not parse; after the authorization.
Malformed(r) ==
    /\ req[r].pc \in {"caller", "target", "updateProject"}
    /\ End(r, "400")
    /\ UNCHANGED rows

\* A failed statement, a cancelled context, a crash: open transactions roll back.
Fail(r) ==
    /\ ~At(r, "idle")
    /\ End(r, "500")
    /\ UNCHANGED rows

-----------------------------------------------------------------------------
(* Requests that only read: one SELECT of what the caller was authorized   *)
(* for.                                                                    *)

Serves(r, op) == At(r, "read") /\ req[r].op = op /\ UNCHANGED rows
FoundOr404(found) == IF found THEN "200" ELSE "404"

GetProject(r) ==
    /\ Serves(r, "GetProject")
    /\ End(r, FoundOr404(ProjectFound(req[r].project)))

ListProjectMembers(r) == Serves(r, "ListProjectMembers") /\ End(r, "200")

GetProjectMember(r) ==
    /\ Serves(r, "GetProjectMember")
    /\ \E s \in Subject : End(r, FoundOr404(MemberFound(req[r].project, s)))

ListResources(r) == Serves(r, "ListResources") /\ End(r, "200")

GetProjectPlan(r) ==
    /\ Serves(r, "GetProjectPlan")
    /\ End(r, FoundOr404(ProjectFound(req[r].project)))

\* The quotas come from a hook, which may refuse.
GetProjectQuotas(r) ==
    /\ Serves(r, "GetProjectQuotas")
    /\ \E answer \in {"200", "403"} : End(r, answer)

-----------------------------------------------------------------------------
(* Requests that concern only their caller: their first SELECT is theirs. *)

Asks(r) == At(r, "idle") /\ UNCHANGED rows
AsksFor(op, caller, target, place) ==
    [pc |-> place, op |-> op, caller |-> caller, project |-> NoProject,
     target |-> target, role |-> NoRole, callerRole |-> NoRole]

\* The projects of which the caller is a member; none is an answer too.
ListProjects(r) == Asks(r) /\ End(r, "200")

GetAccountPlan(r) ==
    /\ Asks(r)
    /\ \E caller \in Subject : End(r, FoundOr404(AccountPlanFound(caller)))

GetPlan(r) ==
    /\ Asks(r)
    /\ \E caller \in Subject, p \in Project, public \in BOOLEAN :
          End(r, FoundOr404(PlanVisible(public, caller, p)))

\* InitializeAccount: after a hook, which may refuse, EnsureSubjectPlan looks for
\* a plan of the account and then inserts one, if the default plan is available.
EnsureSubjectPlan(r) ==
    /\ Asks(r)
    /\ \E caller \in Subject :
          IF AccountPlanFound(caller) THEN End(r, "204")
          ELSE req' = [req EXCEPT ![r] =
                 AsksFor("InitializeAccount", caller, caller, "insertPlan")]

PlanUnavailable(r) ==
    /\ req[r].pc \in {"idle", "insertPlan"}
    /\ \E refused \in {"403", "404"} : End(r, refused)
    /\ UNCHANGED rows

\* A second request may have inserted the plan meanwhile: the violation of the
\* primary key counts as success.
InsertSubjectPlan(r) ==
    /\ At(r, "insertPlan")
    /\ plan' = plan \cup {req[r].caller}
    /\ End(r, "204")
    /\ UNCHANGED <<billing, present, role, seated>>

-----------------------------------------------------------------------------
(* CreateProject *)

\* Mutant: the plan of the caller is asked for, not that of the billed subject.
CheckAccountPlanMutant(r) ==
    /\ Asks(r)
    /\ \E caller, billed \in Subject :
          IF ~AccountPlanFound(caller) THEN End(r, "404")
          ELSE req' = [req EXCEPT ![r] =
                 AsksFor("CreateProject", caller, billed, "insertProject")]

\* A user creates projects of his own; for an organization the membership hook
\* names the user to bill, or refuses.
resolveProjectBilling(caller, ownerKind, named) ==
    IF ownerKind = "user" THEN caller ELSE named

\* Then the account plan of the billed subject is looked up.
CheckAccountPlan(r) ==
    /\ Asks(r)
    /\ \E caller, named \in Subject, ownerKind \in {"user", "organization"} :
          LET billed == resolveProjectBilling(caller, ownerKind, named) IN
          IF ~AccountPlanFound(billed) THEN End(r, "404")
          ELSE req' = [req EXCEPT ![r] =
                 AsksFor("CreateProject", caller, billed, "insertProject")]

\* The default plan of a project is not available, or the quota hook refuses.
CreationRefused(r) ==
    /\ At(r, "insertProject")
    /\ \E refused \in {"403", "404"} : End(r, refused)
    /\ UNCHANGED rows

\* Mutant: the caller becomes the owner, whoever is billed.
InsertProjectMutant(r) ==
    /\ At(r, "insertProject")
    /\ \E p \in Project :
          /\ billing[p] = NoSubject
          /\ billing' = [billing EXCEPT ![p] = req[r].target]
          /\ present' = present \cup {p}
          /\ SetRole(p, req[r].caller, "owner")
    /\ End(r, "200")
    /\ UNCHANGED <<plan, seated>>

\* The project and its first member, the billed subject, in one transaction.
InsertProject(r) ==
    /\ At(r, "insertProject")
    /\ \E p \in Project :
          /\ billing[p] = NoSubject
          /\ billing' = [billing EXCEPT ![p] = req[r].target]
          /\ present' = present \cup {p}
          /\ SetRole(p, req[r].target, "owner")
    /\ End(r, "200")
    /\ UNCHANGED <<plan, seated>>

\* The name is taken.
ProjectAlreadyExists(r) ==
    /\ req[r].pc \in {"insertProject", "updateProject"}
    /\ End(r, "409")
    /\ UNCHANGED rows

-----------------------------------------------------------------------------
(* UpdateProject and DeleteProject *)

UpdateProject(r) ==
    /\ At(r, "updateProject")
    /\ Unlocked(req[r].project)
    /\ End(r, FoundOr404(ProjectFound(req[r].project)))
    /\ UNCHANGED rows

\* What the databases of the project are is up to DatabaseLifecycle.
ListDatabases(r) ==
    /\ At(r, "listDatabases")
    /\ Go(r, "deleteProject") \/ End(r, "403")
    /\ UNCHANGED rows

\* The rows of the members go by the cascade of the foreign key.
DeleteProject(r) ==
    /\ At(r, "deleteProject")
    /\ LET p == req[r].project IN
       /\ Unlocked(p)
       /\ End(r, FoundOr404(p \in present))
       /\ present' = present \ {p}
       /\ role' = [role EXCEPT ![p] = [s \in Subject |-> NoRole]]
    /\ UNCHANGED <<billing, plan, seated>>

-----------------------------------------------------------------------------
(* AddProjectMember, UpdateProjectMemberRole, RemoveProjectMember *)

\* GetProjectMember of the caller.  A caller who is no longer a member is an
\* internal error.
AddReadsCaller(r) ==
    /\ At(r, "caller")
    /\ req[r].op = "AddProjectMember"
    /\ LET callerRole == role[req[r].project][req[r].caller] IN
       IF callerRole = NoRole THEN End(r, "500")
       ELSE IF ~canAssignProjectRole(callerRole, req[r].role) THEN End(r, "403")
       ELSE Go(r, "getProject")
    /\ UNCHANGED rows

\* An update and a removal keep the role for the check that follows.
ChangeReadsCaller(r) ==
    /\ At(r, "caller")
    /\ req[r].op # "AddProjectMember"
    /\ LET callerRole == role[req[r].project][req[r].caller] IN
       IF callerRole = NoRole THEN End(r, "500")
       ELSE req' = [req EXCEPT ![r].pc = "target", ![r].callerRole = callerRole]
    /\ UNCHANGED rows

\* GetProject, GetSubjectKind of the new member and the membership hook.
ReadProject(r) ==
    /\ At(r, "getProject")
    /\ \/ ProjectFound(req[r].project) /\ Go(r, "insertMember")
       \/ ~ProjectFound(req[r].project) /\ End(r, "404")
       \/ \E refused \in {"400", "403", "404"} : End(r, refused)
    /\ UNCHANGED rows

\* The foreign key asks for the project, the primary key that the row is new.
InsertMember(r) ==
    /\ At(r, "insertMember")
    /\ LET q == req[r] IN
       /\ Unlocked(q.project)
       /\ \/ /\ q.project \notin present
             /\ End(r, "500")
             /\ UNCHANGED role
          \/ /\ q.project \in present
             /\ role[q.project][q.target] # NoRole
             /\ End(r, "409")
             /\ UNCHANGED role
          \/ /\ q.project \in present
             /\ role[q.project][q.target] = NoRole
             /\ SetRole(q.project, q.target, q.role)
             /\ End(r, "200")
    /\ UNCHANGED <<billing, present, plan, seated>>

\* The role of the caller is not kept beyond the check of it.
Checked(r, place) == req' = [req EXCEPT ![r].pc = place, ![r].callerRole = NoRole]

\* Only a member of a strictly lower rank, to a strictly lower rank.
UpdateReadsTarget(r) ==
    /\ At(r, "target")
    /\ req[r].op = "UpdateProjectMemberRole"
    /\ LET targetRole == role[req[r].project][req[r].target]
           callerRole == req[r].callerRole
       IN  IF targetRole = NoRole THEN End(r, "404")
           ELSE IF /\ roleRank(targetRole) < roleRank(callerRole)
                   /\ canAssignProjectRole(callerRole, req[r].role)
           THEN Checked(r, "lock")
           ELSE End(r, "403")
    /\ UNCHANGED rows

\* Only an owner removes an owner.
RemoveReadsTarget(r) ==
    /\ At(r, "target")
    /\ req[r].op = "RemoveProjectMember"
    /\ LET targetRole == role[req[r].project][req[r].target] IN
       IF targetRole = NoRole THEN End(r, "404")
       ELSE IF targetRole # "owner" THEN Checked(r, "lock")
       ELSE IF req[r].callerRole = "owner" THEN Checked(r, "count")
       ELSE End(r, "403")
    /\ UNCHANGED rows

\* The count of the handler, outside any transaction.
CountOwners(r) ==
    /\ At(r, "count")
    /\ IF Cardinality(Owners(req[r].project)) <= 1 THEN End(r, "409") ELSE Go(r, "lock")
    /\ UNCHANGED rows

\* lockProjectForOwnerInvariant: a project that is gone is an internal error.
LockProject(r) ==
    /\ At(r, "lock")
    /\ Unlocked(req[r].project)
    /\ IF req[r].project \in present THEN Go(r, "check") ELSE End(r, "500")
    /\ UNCHANGED rows

\* Mutant: the owners are not counted again under the lock.
CheckLastOwnerMutant(r) ==
    /\ At(r, "check")
    /\ IF role[req[r].project][req[r].target] = NoRole
       THEN End(r, "404") ELSE Go(r, "write")
    /\ UNCHANGED rows

\* getProjectMemberRoleForUpdate and countProjectOwners.
CheckLastOwner(r) ==
    /\ At(r, "check")
    /\ LET q == req[r]
           current == role[q.project][q.target]
       IN  IF current = NoRole THEN End(r, "404")
           ELSE IF /\ current = "owner" /\ q.role # "owner"
                   /\ Cardinality(Owners(q.project)) <= 1
           THEN End(r, "409")
           ELSE Go(r, "write")
    /\ UNCHANGED rows

\* The UPDATE, or the DELETE, and the COMMIT.
WriteRole(r) ==
    /\ At(r, "write")
    /\ req[r].op = "UpdateProjectMemberRole"
    /\ SetRole(req[r].project, req[r].target, req[r].role)
    /\ End(r, "200")
    /\ UNCHANGED <<billing, present, plan, seated>>

DeleteMember(r) ==
    /\ At(r, "write")
    /\ req[r].op = "RemoveProjectMember"
    /\ SetRole(req[r].project, req[r].target, NoRole)
    /\ End(r, "204")
    /\ UNCHANGED <<billing, present, plan, seated>>

-----------------------------------------------------------------------------
\* No handler of the API makes a second owner.  A private build may: its routes
\* get the pool of the database (RouteFactories).  Its statement waits for the
\* locks of a change of the same member and, for a new member, of the project.
\* Bound: one such owner per project.
SeatOwner(p, s) ==
    /\ p \in present \ seated
    /\ IF s \in Members(p)
       THEN \A r \in Req : ~(At(r, "write") /\ req[r].project = p /\ req[r].target = s)
       ELSE Unlocked(p)
    /\ SetRole(p, s, "owner")
    /\ seated' = seated \cup {p}
    /\ UNCHANGED <<billing, present, plan, req>>

-----------------------------------------------------------------------------
Init ==
    /\ billing = [p \in Project |-> NoSubject]
    /\ present = {}
    /\ role = [p \in Project |-> [s \in Subject |-> NoRole]]
    /\ plan = {}
    /\ seated = {}
    /\ req = [r \in Req |-> Idle]

Read(r) ==
    \/ GetProject(r) \/ ListProjectMembers(r) \/ GetProjectMember(r)
    \/ ListResources(r) \/ GetProjectPlan(r) \/ GetProjectQuotas(r)
    \/ ListProjects(r) \/ GetAccountPlan(r) \/ GetPlan(r)

Step(r) ==
    \/ Begin(r) \/ Unauthenticated(r) \/ Malformed(r) \/ Fail(r)
    \/ Read(r) \/ EnsureSubjectPlan(r) \/ PlanUnavailable(r) \/ InsertSubjectPlan(r)
    \/ CheckAccountPlan(r) \/ CreationRefused(r) \/ InsertProject(r)
    \/ ProjectAlreadyExists(r) \/ UpdateProject(r)
    \/ ListDatabases(r) \/ DeleteProject(r)
    \/ AddReadsCaller(r) \/ ReadProject(r) \/ InsertMember(r)
    \/ ChangeReadsCaller(r) \/ UpdateReadsTarget(r) \/ RemoveReadsTarget(r)
    \/ CountOwners(r) \/ LockProject(r) \/ CheckLastOwner(r)
    \/ WriteRole(r) \/ DeleteMember(r)

Next ==
    \/ \E r \in Req : Step(r)
    \/ \E p \in Project, s \in Subject : SeatOwner(p, s)

Spec == Init /\ [][Next]_vars

-----------------------------------------------------------------------------
(* Properties *)

\* A project never loses its last owner, though owners remove one another at the
\* same time and the handler counts them outside the transaction (psql.go:580,
\* handlers.go:858).
KeepsAnOwner == \A p \in present : Owners(p) # {}

\* As far as the API goes, the owner of a project is the subject that is billed
\* for it, from its creation to its deletion: nobody is promoted to owner and the
\* owner is neither demoted nor removed, whatever roles change meanwhile.
OwnerIsBilled == \A p \in present \ seated : Owners(p) = {billing[p]}

\* Nobody is billed for a project without an account plan, though the plan is
\* looked up some statements before the project is inserted.
BilledHasPlan == \A p \in Project : billing[p] # NoSubject => billing[p] \in plan

\* Whoever becomes an admin is made one by a request of somebody who is the owner
\* at that moment, though his role was read statements ago: the ranks that
\* AddProjectMember and UpdateProjectMemberRole compare may be stale, but not
\* that of an owner.
AdminsAreMadeByOwners ==
    [][\A p \in present \ seated, s \in Subject :
           role[p][s] # "admin" /\ role'[p][s] = "admin" =>
               \E r \in Req : /\ req[r].pc \in {"insertMember", "write"}
                              /\ req'[r].pc = "idle"
                              /\ req[r].project = p
                              /\ role[p][req[r].caller] = "owner"]_vars
=============================================================================
