---------------------------- MODULE ProjectAuthz ----------------------------
(***************************************************************************)
(* Who may do what in a project: the roles of its members, the permission  *)
(* matrix of the API (apps/api/internal/authz/rbac.go) and, per operation, *)
(* what its route and its handler ask for before they touch a row          *)
(* (apps/api/internal/transport/router.go).                                *)
(***************************************************************************)
EXTENDS Naturals

Role == {"owner", "admin", "editor", "viewer"}
NoRole == "none"

-----------------------------------------------------------------------------
(* Ranks *)

roleRank(role) ==
    CASE role = "owner" -> 4
      [] role = "admin" -> 3
      [] role = "editor" -> 2
      [] role = "viewer" -> 1
      [] OTHER -> 0

\* Mutant: a member may grant his own role.
canAssignProjectRoleMutant(callerRole, targetRole) ==
    /\ {callerRole, targetRole} \subseteq Role
    /\ roleRank(targetRole) <= roleRank(callerRole)

\* A member may grant only strictly lower roles.
canAssignProjectRole(callerRole, targetRole) ==
    /\ {callerRole, targetRole} \subseteq Role
    /\ roleRank(targetRole) < roleRank(callerRole)

-----------------------------------------------------------------------------
(* The permission matrix: every role may do what the one below it may. *)

ViewerActions == {
    "project.read", "project.member.list", "project.member.read",
    "db.list", "db.read", "db.connection_info.read",
    "secret.list", "secret.read_meta", "secret.reveal",
    "secret.version.list", "secret.version.read", "tag.list"}

EditorActions == ViewerActions \cup {
    "project.update_meta", "db.create", "db.update_meta", "db.start", "db.stop",
    "secret.create", "secret.update_meta", "secret.version.create",
    "tag.create", "tag.update", "resource.tag.attach"}

AdminActions == EditorActions \cup {
    "project.member.add", "project.member.update", "project.member.remove",
    "db.delete", "secret.delete", "secret.version.disable",
    "tag.delete", "resource.tag.detach"}

OwnerActions == AdminActions \cup {
    "project.delete", "project.change_plan", "project.change_billing_subject"}

\* No role and an unknown role may do nothing.
rolePermissions(role) ==
    CASE role = "owner" -> OwnerActions
      [] role = "admin" -> AdminActions
      [] role = "editor" -> EditorActions
      [] role = "viewer" -> ViewerActions
      [] OTHER -> {}

Allows(role, action) == action \in rolePermissions(role)

-----------------------------------------------------------------------------
(* The routes: whether the session behind the token must still be live     *)
(* (authLive) or the token alone is enough (authOnly), and the action the  *)
(* handler authorizes.  "self" stands for the operations that concern only *)
(* the caller and ask for no role.                                         *)

Live(action) == [live |-> TRUE, action |-> action]
TokenOnly(action) == [live |-> FALSE, action |-> action]

ProjectRoute == [
    GetPlan |-> TokenOnly("self"),
    GetAccountPlan |-> TokenOnly("self"),
    InitializeAccount |-> Live("self"),
    GetProjectPlan |-> TokenOnly("project.read"),
    GetProjectQuotas |-> TokenOnly("project.read"),
    CreateProject |-> Live("self"),
    ListProjects |-> TokenOnly("self"),
    GetProject |-> TokenOnly("project.read"),
    UpdateProject |-> Live("project.update_meta"),
    DeleteProject |-> Live("project.delete"),
    ListProjectMembers |-> TokenOnly("project.member.list"),
    AddProjectMember |-> Live("project.member.add"),
    GetProjectMember |-> TokenOnly("project.member.read"),
    UpdateProjectMemberRole |-> Live("project.member.update"),
    RemoveProjectMember |-> Live("project.member.remove"),
    ListResources |-> TokenOnly("project.read")]

ResourceRoute == [
    CreateDBInstance |-> Live("db.create"),
    ListDBInstances |-> TokenOnly("db.list"),
    GetDBInstance |-> TokenOnly("db.read"),
    UpdateDBInstance |-> Live("db.update_meta"),
    StartDBInstance |-> Live("db.start"),
    StopDBInstance |-> Live("db.stop"),
    GetDBInstanceConnection |-> TokenOnly("db.connection_info.read"),
    RevealDBInstanceURI |-> Live("db.connection_info.read"),
    DeleteDBInstance |-> Live("db.delete"),
    GetResourceMetricTimeseries |-> TokenOnly("db.read"),
    CreateSecret |-> Live("secret.create"),
    ListSecrets |-> TokenOnly("secret.list"),
    GetSecret |-> TokenOnly("secret.read_meta"),
    RevealSecret |-> Live("secret.reveal"),
    UpdateSecret |-> Live("secret.update_meta"),
    ListSecretVersions |-> TokenOnly("secret.version.list"),
    GetSecretVersion |-> TokenOnly("secret.version.read"),
    CreateSecretVersion |-> Live("secret.version.create"),
    RevealSecretVersion |-> Live("secret.reveal"),
    ApplySecretVersion |-> Live("secret.reveal"),
    DisableSecretVersion |-> Live("secret.version.disable"),
    DeleteSecret |-> Live("secret.delete"),
    ListProjectTags |-> TokenOnly("tag.list"),
    ListResourceTags |-> TokenOnly("tag.list"),
    AttachResourceTag |-> Live("resource.tag.attach"),
    DetachResourceTag |-> Live("resource.tag.detach")]
=============================================================================
