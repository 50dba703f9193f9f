------------------------------- MODULE Roles -------------------------------
(***************************************************************************)
(* Permissions, the roles that refer to them, and the workspaces that list *)
(* roles: PermissionService, RoleService and the part of WorkspaceService  *)
(* about roles, which are three collections of MongoDB without transaction *)
(* and without a unique index.  A role is an array of references; populate *)
(* follows them in a query of its own and drops those that lead nowhere.   *)
(*                                                                         *)
(* A request is a call of an endpoint.  Whether its caller owns the        *)
(* workspace is left open here: Membership has the members.                *)
(***************************************************************************)
EXTENDS Integers, FiniteSets

CONSTANTS
  PermIds, PermCodes, RoleIds, Spaces,
  RoleCalls,     \* requests
  Bodies,        \* the sets of permissions a client may give to a role
  Tasks,         \* the mixes of requests looked at: what each is about
  NoPerm,        \* an id that is not used yet
  GonePerm,      \* one whose permission was deleted
  NoRole,        \* an id that is not used yet
  NoSpace,       \* a workspace that was deleted
  StartPerms, StartRoles, StartListed,  \* the database at the start
  MaxRefusals    \* bound on rejected calls to MongoDB, for model checking

RoleKinds == {"create permission", "update permission", "update permissions",
  "delete permission", "create role", "update role", "create space role",
  "edit space role", "delete space role", "delete space", "show"}

ASSUME RoleAssumption ==
  /\ Tasks \subseteq [RoleCalls -> RoleKinds] /\ MaxRefusals \in Nat
  /\ Bodies \subseteq SUBSET PermIds
  /\ (\A P \in SUBSET PermIds : P # NoRole) /\ NoRole \notin RoleIds
  /\ \A R \in SUBSET RoleIds : R # NoSpace
  /\ {NoPerm, GonePerm} \cap PermCodes = {} /\ NoPerm # GonePerm
  /\ StartPerms \in [PermIds -> PermCodes \cup {NoPerm}]
  /\ StartRoles \in [RoleIds -> (SUBSET PermIds) \cup {NoRole}]
  /\ \A r \in RoleIds : StartRoles[r] # NoRole =>
       StartRoles[r] \subseteq {p \in PermIds : StartPerms[p] # NoPerm}
  /\ \A p, q \in PermIds : StartPerms[p] = StartPerms[q] => p = q \/ StartPerms[p] = NoPerm
  /\ StartListed \in [Spaces -> SUBSET {r \in RoleIds : StartRoles[r] # NoRole}]

VARIABLES
  perms,      \* per id, its code, NoPerm or GonePerm
  roles,      \* per id, the permissions the role refers to, or NoRole
  listed,     \* per workspace, its roles, or NoSpace
  task,       \* per request, what it is about and where it is
  beside,     \* history: pairs of requests that were active together
  after,      \* history: pairs of a request and one that had ended when it arrived
  refusals    \* calls that failed so far

roleVars == <<perms, roles, listed, task, beside, after, refusals>>

Exists(p) == perms[p] \in PermCodes

Known == {p \in PermIds : Exists(p)}

RoleDocs == {r \in RoleIds : roles[r] # NoRole}

Kept == {w \in Spaces : listed[w] # NoSpace}

(* perm, role and space are its path; codes are the codes its body gives   *)
(* to permissions, and body the permissions it gives to a role; todo and   *)
(* bad are the updates under way in Promise.all and whether one failed;    *)
(* asked, live and seen are the roles a reader asked for, the permissions  *)
(* there were then, and the references, <<role, permission>>, it was shown.*)
Request(kind, at) ==
  [kind |-> kind, at |-> at, perm |-> NoPerm, role |-> NoRole, space |-> NoSpace,
   codes |-> [p \in {} |-> NoPerm], body |-> {}, todo |-> {}, bad |-> FALSE,
   asked |-> {}, live |-> {}, seen |-> {}]

RoleEnds == {"ok", "null", "refused", "failed"}

RoleSteps == {"look code", "find permission", "write permission", "find permissions",
  "write permissions", "list holders", "pull", "delete permission", "save role", "find role",
  "write role", "check owner", "check role", "save", "add to space", "populate roles",
  "populate permissions"}

(* The type invariant. *)
RoleTypeOK ==
  /\ perms \in [PermIds -> PermCodes \cup {NoPerm, GonePerm}]
  /\ \A r \in RoleDocs : roles[r] \subseteq PermIds
  /\ \A w \in Kept : listed[w] \subseteq RoleDocs
  /\ \A c \in RoleCalls : /\ task[c].kind \in RoleKinds
                          /\ task[c].at \in RoleSteps \cup RoleEnds \cup {"ready"}
                          /\ task[c].at = "pull" => task[c].todo \subseteq RoleDocs
  /\ beside \subseteq RoleCalls \X RoleCalls /\ after \subseteq RoleCalls \X RoleCalls
  /\ refusals \in 0 .. MaxRefusals
-----------------------------------------------------------------------------
RoleInit ==
  /\ perms = StartPerms /\ roles = StartRoles /\ listed = StartListed
  /\ \E mix \in Tasks : task = [c \in RoleCalls |-> Request(mix[c], "ready")]
  /\ beside = {} /\ after = {} /\ refusals = 0

InFlightCalls == {c \in RoleCalls : task[c].at \in RoleSteps}

Ready(c, kind) == task[c].at = "ready" /\ task[c].kind = kind

(* The histories, when a request arrives.                                  *)
Meets(c) ==
  /\ beside' = beside \cup ({c} \X InFlightCalls) \cup (InFlightCalls \X {c})
  /\ after' = after \cup ({c} \X {d \in RoleCalls : task[d].at \in RoleEnds})

(* A request arrives: t is its record, at the first step.                  *)
Asked(c, t) ==
  /\ task' = [task EXCEPT ![c] = t]
  /\ Meets(c)
  /\ UNCHANGED <<perms, roles, listed, refusals>>

GoTo(c, at) == task' = [task EXCEPT ![c].at = at]

Refuse == refusals < MaxRefusals /\ refusals' = refusals + 1

(* updateRoleDetail and deleteWorkspaceRole turn an error into no data, and*)
(* the answer is 200; all others are answered with the error.              *)
Lost(c) == IF task[c].kind \in {"update role", "delete space role"} THEN "null" ELSE "failed"

(* After a write: go on, or end if its call failed all the same.           *)
Written(c, at) ==
  \/ GoTo(c, at) /\ UNCHANGED refusals
  \/ GoTo(c, Lost(c)) /\ Refuse

(* A call that failed and did nothing.                                     *)
RefuseCall(c) ==
  /\ task[c].at \in RoleSteps \ {"pull", "write permissions"}
  /\ Refuse /\ GoTo(c, Lost(c))
  /\ UNCHANGED <<perms, roles, listed, beside, after>>

Reads == UNCHANGED <<perms, roles, listed, beside, after, refusals>>
-----------------------------------------------------------------------------
AskCreatePermission(c) ==
  /\ Ready(c, "create permission")
  /\ \E k \in PermCodes :
       Asked(c, [Request("create permission", "look code") EXCEPT !.codes = [p \in {NoPerm} |-> k]])

AskUpdatePermission(c) ==
  /\ Ready(c, "update permission")
  /\ \E p \in PermIds, k \in PermCodes :
       Asked(c, [Request("update permission", "find permission") EXCEPT !.perm = p, !.codes = [q \in {p} |-> k]])

(* The body has all fields of each permission; it must not be empty.       *)
AskUpdatePermissions(c) ==
  /\ Ready(c, "update permissions")
  /\ \E P \in SUBSET {p \in PermIds : perms[p] # NoPerm} \ {{}} : \E codes \in [P -> PermCodes] :
       Asked(c, [Request("update permissions", "find permissions") EXCEPT !.codes = codes])

AskDeletePermission(c) ==
  /\ Ready(c, "delete permission")
  /\ \E p \in PermIds : Asked(c, [Request("delete permission", "find permission") EXCEPT !.perm = p])

(* The code a request gives to the permission it is about.                 *)
CodeIn(c) == task[c].codes[IF task[c].kind = "create permission" THEN NoPerm ELSE task[c].perm]

MutTaken(c) == \E p \in PermIds : perms[p] = CodeIn(c) /\ p = task[c].perm
(* Whether the code a request wants is found.                              *)
Taken(c) == \E p \in PermIds : perms[p] = CodeIn(c)

LookCode(c) ==
  /\ task[c].at = "look code"
  /\ GoTo(c, IF Taken(c) THEN "refused" ELSE "write permission")
  /\ Reads

(* createPermission saves.  An id is used once.                            *)
CreatePermission(c) ==
  /\ task[c].at = "write permission" /\ task[c].kind = "create permission"
  /\ \E p \in PermIds : perms[p] = NoPerm /\ perms' = [perms EXCEPT ![p] = CodeIn(c)]
  /\ Written(c, "ok")
  /\ UNCHANGED <<roles, listed, beside, after>>

FindPermission(c) ==
  /\ task[c].at = "find permission"
  /\ GoTo(c, IF ~Exists(task[c].perm) THEN "refused"
             ELSE IF task[c].kind = "delete permission" THEN "list holders"
             ELSE IF CodeIn(c) # perms[task[c].perm] THEN "look code"
             ELSE "write permission")
  /\ Reads

(* An update does nothing to a permission deleted meanwhile.               *)
SetCode(p, k) == perms' = IF Exists(p) THEN [perms EXCEPT ![p] = k] ELSE perms

UpdatePermission(c) ==
  /\ task[c].at = "write permission" /\ task[c].kind = "update permission"
  /\ SetCode(task[c].perm, CodeIn(c))
  /\ Written(c, "ok")
  /\ UNCHANGED <<roles, listed, beside, after>>

(* massiveUpdatePermissions finds that all are there, or fails ...         *)
FindPermissions(c) ==
  /\ task[c].at = "find permissions"
  /\ task' = [task EXCEPT ![c].at = IF DOMAIN task[c].codes \subseteq Known THEN "write permissions" ELSE "failed",
                          ![c].todo = DOMAIN task[c].codes]
  /\ Reads

(* One of the updates of Promise.all, in any order: the others go on when  *)
(* it fails.                                                               *)
Settle(c, x, Update, NoUpdate) ==
  \/ Update /\ task' = [task EXCEPT ![c].todo = @ \ {x}] /\ UNCHANGED refusals
  \/ /\ Refuse /\ (Update \/ NoUpdate)
     /\ task' = [task EXCEPT ![c].todo = @ \ {x}, ![c].bad = TRUE]

(* ... and writes each, without a look at the codes.                       *)
WriteOnePermission(c) ==
  /\ task[c].at = "write permissions"
  /\ \E p \in task[c].todo : Settle(c, p, SetCode(p, task[c].codes[p]), UNCHANGED perms)
  /\ UNCHANGED <<roles, listed, beside, after>>

MassiveUpdatePermissions(c) ==
  /\ task[c].at = "write permissions" /\ task[c].todo = {}
  /\ GoTo(c, IF task[c].bad THEN "failed" ELSE "ok")
  /\ Reads
-----------------------------------------------------------------------------
MutHolders(p) == {r \in RoleDocs : p \in roles[r] /\ \E w \in Kept : r \in listed[w]}
(* The roles that refer to a permission.                                   *)
Holders(p) == {r \in RoleDocs : p \in roles[r]}

ListHolders(c) ==
  /\ task[c].at = "list holders"
  /\ task' = [task EXCEPT ![c].at = "pull", ![c].todo = Holders(task[c].perm)]
  /\ Reads

PullOne(c) ==
  /\ task[c].at = "pull"
  /\ \E r \in task[c].todo :
       Settle(c, r, roles' = [roles EXCEPT ![r] = @ \ {task[c].perm}], UNCHANGED roles)
  /\ UNCHANGED <<perms, listed, beside, after>>

PullsEnd(c) ==
  /\ task[c].at = "pull" /\ task[c].todo = {}
  /\ GoTo(c, IF task[c].bad THEN "failed" ELSE "delete permission")
  /\ Reads

DeletePermission(c) ==
  /\ task[c].at = "delete permission"
  /\ perms' = [perms EXCEPT ![task[c].perm] = GonePerm]
  /\ Written(c, "ok")
  /\ UNCHANGED <<roles, listed, beside, after>>
-----------------------------------------------------------------------------
(* The body of a role may have any ids: none of the services looks whether *)
(* there are such permissions.  A body without them leaves a role as it    *)
(* is, or makes one that has none.                                         *)
AskCreateRole(c) ==
  /\ Ready(c, "create role")
  /\ \E P \in Bodies : Asked(c, [Request("create role", "save role") EXCEPT !.body = P])

AskUpdateRole(c) ==
  /\ Ready(c, "update role")
  /\ \E r \in RoleDocs, P \in Bodies :
       Asked(c, [Request("update role", "find role") EXCEPT !.role = r, !.body = P])

AskCreateWorkspaceRole(c) ==
  /\ Ready(c, "create space role")
  /\ \E w \in Kept, P \in Bodies :
       Asked(c, [Request("create space role", "check owner") EXCEPT !.space = w, !.body = P])

AskEditRoleWorkspace(c) ==
  /\ Ready(c, "edit space role")
  /\ \E w \in Kept, r \in RoleDocs, P \in Bodies :
       Asked(c, [Request("edit space role", "check role") EXCEPT !.space = w, !.role = r, !.body = P])

MutSaveRole(c, at) ==
  \E r \in RoleIds :
    /\ roles[r] = NoRole
    /\ task' = [task EXCEPT ![c].role = r, ![c].at = at]
    /\ UNCHANGED <<perms, roles, listed, beside, after, refusals>>
(* The document of a new role, whose id is not used yet.                   *)
SaveRole(c, at) ==
  \E r \in RoleIds :
    /\ roles[r] = NoRole
    /\ roles' = [roles EXCEPT ![r] = task[c].body]
    /\ \/ task' = [task EXCEPT ![c].role = r, ![c].at = at] /\ UNCHANGED refusals
       \/ task' = [task EXCEPT ![c].role = r, ![c].at = "failed"] /\ Refuse
    /\ UNCHANGED <<perms, listed, beside, after>>

CreateRole(c) == task[c].at = "save role" /\ SaveRole(c, "ok")

CheckOwner(c) ==
  /\ task[c].at = "check owner"
  /\ \/ GoTo(c, "failed")
     \/ listed[task[c].space] # NoSpace /\ GoTo(c, "save")
  /\ Reads

CreateWorkspaceRole(c) == task[c].at = "save" /\ SaveRole(c, "add to space")

MutAddedTo(w, r) == listed
(* $addToSet and $pull do nothing to a workspace that was deleted.         *)
AddedTo(w, r) == IF listed[w] # NoSpace THEN [listed EXCEPT ![w] = @ \cup {r}] ELSE listed

AddToWorkspace(c) ==
  /\ task[c].at = "add to space"
  /\ listed' = AddedTo(task[c].space, task[c].role)
  /\ Written(c, "ok")
  /\ UNCHANGED <<perms, roles, beside, after>>

(* Whether the role is one of the workspace.                               *)
ListedIn(w, r) == listed[w] # NoSpace => r \in listed[w]

CheckRole(c) ==
  /\ task[c].at = "check role"
  /\ \/ GoTo(c, "failed")
     \/ listed[task[c].space] # NoSpace /\ ListedIn(task[c].space, task[c].role) /\ GoTo(c, "find role")
  /\ Reads

MutUpdated(refs, body) == refs \cup body
(* The permissions of a role become those of the body.                     *)
Updated(refs, body) == body

(* updateRoleDetail: roles are never deleted, so that it finds its role.   *)
FindRole(c) == task[c].at = "find role" /\ GoTo(c, "write role") /\ Reads

UpdateRoleDetail(c) ==
  /\ task[c].at = "write role"
  /\ roles' = [roles EXCEPT ![task[c].role] = Updated(@, task[c].body)]
  /\ Written(c, "ok")
  /\ UNCHANGED <<perms, listed, beside, after>>

(* Only the workspace forgets a role: its document stays, and the members  *)
(* who have it keep it.  The answer is 200 whether it did or not.          *)
DeleteWorkspaceRole(c) ==
  /\ task[c].kind = "delete space role" /\ task[c].at = "ready"
  /\ \E w \in Kept, r \in RoleDocs :
       /\ listed' = [listed EXCEPT ![w] = @ \ {r}]
       /\ \E at \in {"ok", "null"} :
            /\ task' = [task EXCEPT ![c] = [@ EXCEPT !.space = w, !.role = r, !.at = at]]
            /\ IF at = "ok" THEN UNCHANGED refusals ELSE Refuse
  /\ Meets(c)
  /\ UNCHANGED <<perms, roles>>

(* The deletion of a workspace, whose checks Membership has.               *)
DropWorkspace(c) ==
  /\ task[c].kind = "delete space" /\ task[c].at = "ready"
  /\ \E w \in Kept : /\ listed' = [listed EXCEPT ![w] = NoSpace]
                     /\ task' = [task EXCEPT ![c] = [@ EXCEPT !.space = w, !.at = "ok"]]
  /\ Meets(c)
  /\ UNCHANGED <<perms, roles, refusals>>
-----------------------------------------------------------------------------
(* The queries that follow references: the first reads the roles to follow *)
(* and the next their permissions; todo is what is to be followed.         *)
Show(c, R) ==
  /\ Ready(c, "show")
  /\ Asked(c, [Request("show", "populate roles") EXCEPT !.todo = R, !.asked = R, !.live = Known])

(* The role of a member, whichever it is.                                  *)
GetMyWorkspacePermissions(c) == \E r \in RoleDocs : Show(c, {r})

GetWorkspaceRoles(c) == \E w \in Kept : Show(c, listed[w])

GetWorkspaceRoleDetail(c) == \E w \in Kept, r \in RoleDocs : Show(c, listed[w] \cap {r})

(* The roles of the members, which need not be among those listed.         *)
GetWorkspace(c) == \E w \in Kept, R \in SUBSET RoleDocs : Show(c, listed[w] \cup R)

(* Those of a page of its members.                                         *)
GetWorkspaceTeam(c) == \E w \in Kept, R \in SUBSET RoleDocs : Show(c, R)

GetRoles(c) == Show(c, RoleDocs)

RefsOf(R) == UNION {{r} \X roles[r] : r \in R}

(* The only one that follows none: a role as it is, in one call.           *)
GetRole(c) ==
  /\ Ready(c, "show")
  /\ \E r \in RoleDocs :
       Asked(c, [Request("show", "ok") EXCEPT !.asked = {r}, !.live = Known, !.seen = RefsOf({r})])

PopulateRoles(c) ==
  /\ task[c].at = "populate roles"
  /\ task' = [task EXCEPT ![c].at = "populate permissions", ![c].todo = RefsOf(task[c].todo)]
  /\ Reads

(* References that lead nowhere are dropped.                               *)
Populated(refs) == {x \in refs : Exists(x[2])}

PopulatePermissions(c) ==
  /\ task[c].at = "populate permissions"
  /\ task' = [task EXCEPT ![c].at = "ok", ![c].seen = Populated(task[c].todo)]
  /\ Reads
-----------------------------------------------------------------------------
PermissionCall(c) ==
  \/ AskCreatePermission(c) \/ AskUpdatePermission(c) \/ AskUpdatePermissions(c)
  \/ AskDeletePermission(c) \/ LookCode(c) \/ CreatePermission(c) \/ FindPermission(c)
  \/ UpdatePermission(c) \/ FindPermissions(c) \/ WriteOnePermission(c)
  \/ MassiveUpdatePermissions(c) \/ ListHolders(c) \/ PullOne(c) \/ PullsEnd(c)
  \/ DeletePermission(c)

RoleCall(c) ==
  \/ AskCreateRole(c) \/ AskUpdateRole(c) \/ AskCreateWorkspaceRole(c) \/ AskEditRoleWorkspace(c)
  \/ CreateRole(c) \/ CheckOwner(c) \/ CreateWorkspaceRole(c) \/ AddToWorkspace(c)
  \/ CheckRole(c) \/ FindRole(c) \/ UpdateRoleDetail(c) \/ DeleteWorkspaceRole(c)
  \/ DropWorkspace(c)

ShowCall(c) ==
  \/ GetMyWorkspacePermissions(c) \/ GetWorkspaceRoles(c) \/ GetWorkspaceRoleDetail(c)
  \/ GetWorkspace(c) \/ GetWorkspaceTeam(c) \/ GetRoles(c) \/ GetRole(c) \/ PopulateRoles(c) \/ PopulatePermissions(c)

RoleNext ==
  \E c \in RoleCalls : PermissionCall(c) \/ RoleCall(c) \/ ShowCall(c) \/ RefuseCall(c)

RoleSpec == RoleInit /\ [][RoleNext]_roleVars
-----------------------------------------------------------------------------
WritesRole(c, r) ==
  /\ task[c].kind \in {"create role", "update role", "create space role", "edit space role"}
  /\ task[c].role = r

Deletes(c, p) == task[c].kind = "delete permission" /\ task[c].perm = p

(* d did not end before c arrived: it was active together with c, or later.*)
NotBefore(d, c) == task[d].at # "ready" /\ <<c, d>> \notin after

(* "lo elimina de todos los roles que lo contienen": no role refers to a   *)
(* deleted permission, unless a request gave it to that role that did not  *)
(* end before the deletion arrived.                                        *)
RefsLive ==
  \A r \in RoleDocs : \A p \in roles[r] : perms[p] = GonePerm =>
    \E c, d \in RoleCalls : /\ Deletes(c, p) /\ task[c].at # "ready"
                            /\ WritesRole(d, r) /\ p \in task[d].body /\ NotBefore(d, c)

(* Who asks for a role after a change of it was acknowledged is shown what *)
(* the change gave it, of the permissions there are, and nothing else,     *)
(* whichever calls the query takes: unless another change of the role, or  *)
(* a deletion of the permission, did not end before that one arrived.      *)
ShownAsGiven ==
  \A c, d \in RoleCalls : \A r \in task[c].asked :
    task[c].at = "ok" /\ <<c, d>> \in after /\ WritesRole(d, r) /\ task[d].at = "ok" =>
      \A p \in PermIds :
        LET shown == <<r, p>> \in task[c].seen
            Changed == \E e \in RoleCalls \ {d} : WritesRole(e, r) /\ NotBefore(e, d)
            Off(e) == Deletes(e, p) /\ NotBefore(e, d)
        IN  /\ p \in task[d].body \cap task[c].live /\ ~shown =>
                 Changed \/ perms[p] = GonePerm \/ \E e \in RoleCalls : Off(e)
            /\ shown /\ p \notin task[d].body => Changed

GivesCode(c, k) == \E p \in DOMAIN task[c].codes : task[c].codes[p] = k

(* "Verificar si ya existe un permiso con el mismo código": no two         *)
(* permissions have one code, unless two requests that give it to one were *)
(* active together, or it was given by an update of many.                  *)
CodesOnce ==
  \A p, q \in Known : p # q /\ perms[p] = perms[q] =>
    \E c, d \in RoleCalls :
      /\ GivesCode(c, perms[p]) /\ GivesCode(d, perms[p])
      /\ <<c, d>> \in beside \/ task[c].kind = "update permissions"

Takes(c, w, r) ==
  \/ task[c].kind = "delete space" /\ task[c].space = w
  \/ task[c].kind = "delete space role" /\ task[c].space = w /\ task[c].role = r

(* A role that was made, or edited, through a workspace, and acknowledged, *)
(* is listed by it, unless a request was made that takes it from there.    *)
SpaceRolesListed ==
  \A c \in RoleCalls :
    task[c].at = "ok" /\ task[c].kind \in {"create space role", "edit space role"} =>
      LET w == task[c].space  r == task[c].role
      IN  (w \in Kept => r \in listed[w]) \/ \E d \in RoleCalls : Takes(d, w, r)
=============================================================================
