---------------------------- MODULE AccessProof -----------------------------
(***************************************************************************)
(* What Roles promises of permissions, roles and the workspaces that list  *)
(* them, for any number of requests of any kinds, any database at the      *)
(* start and any number of failing calls; what IpLists promises of the     *)
(* lists and of the requests that pass the filter, for any numbers of      *)
(* them, whatever tries are configured and whichever calls fail; what Rls  *)
(* promises of the policies, for any configuration, any number of runs of  *)
(* the script and whatever the bound on failures; and all three side by    *)
(* side.                                                                   *)
(***************************************************************************)
EXTENDS Access, SequenceTheorems, TLAPS
-----------------------------------------------------------------------------
(* PERMISSIONS, ROLES AND WORKSPACES *)

Places == RoleSteps \cup RoleEnds \cup {"ready"}

(* The codes a request may give: to permissions, or to a new one.          *)
Codings == UNION {[P -> PermCodes] : P \in SUBSET (PermIds \cup {NoPerm})}

(* The references of roles to permissions.                                 *)
Refs == RoleIds \X PermIds

(* What is under way in Promise.all, or to be followed.                    *)
Items == PermIds \cup RoleIds \cup Refs

TaskRec ==
  [kind : RoleKinds, at : Places, perm : PermIds \cup {NoPerm}, role : RoleIds \cup {NoRole},
   space : Spaces \cup {NoSpace}, codes : Codings, body : SUBSET PermIds, todo : SUBSET Items,
   bad : BOOLEAN, asked : SUBSET RoleIds, live : SUBSET PermIds, seen : SUBSET Refs]

(* Which kinds of requests pass a step.                                    *)
KindFits(t) ==
  /\ t.at \in {"look code", "write permission"} => t.kind \in {"create permission", "update permission"}
  /\ t.at = "find permission" => t.kind \in {"update permission", "delete permission"}
  /\ t.at \in {"find permissions", "write permissions"} => t.kind = "update permissions"
  /\ t.at \in {"list holders", "pull", "delete permission"} => t.kind = "delete permission"
  /\ t.at = "save role" => t.kind = "create role"
  /\ t.at \in {"find role", "write role"} => t.kind \in {"update role", "edit space role"}
  /\ t.at \in {"check owner", "save", "add to space"} => t.kind = "create space role"
  /\ t.at = "check role" => t.kind = "edit space role"
  /\ t.at \in {"populate roles", "populate permissions"} => t.kind = "show"

(* The key of the code a request gives to the permission it is about.      *)
CodeKey(t) == IF t.kind = "create permission" THEN NoPerm ELSE t.perm

(* What a request has in hand fits the step it is at.                      *)
Fits(t, docs) ==
  /\ KindFits(t)
  /\ t.kind # "show" => t.asked = {}
  /\ t.at \in {"look code", "write permission"} \/ (t.at = "find permission" /\ t.kind = "update permission")
       => CodeKey(t) \in DOMAIN t.codes /\ t.codes[CodeKey(t)] \in PermCodes
  /\ t.kind \in {"update permission", "delete permission"} /\ t.at # "ready" => t.perm \in PermIds
  /\ t.at \in {"find permissions", "write permissions"} =>
       /\ DOMAIN t.codes \subseteq PermIds
       /\ \A p \in DOMAIN t.codes : t.codes[p] \in PermCodes
  /\ t.at = "write permissions" => t.todo \subseteq DOMAIN t.codes
  /\ t.at = "pull" => t.todo \subseteq docs
  /\ t.at = "populate roles" => t.todo \subseteq docs /\ t.asked = t.todo
  /\ t.at = "populate permissions" => t.todo \subseteq Refs
  /\ t.at \in {"save role", "check owner", "save"} => t.role = NoRole
  /\ t.at \in {"find role", "write role", "check role", "add to space"} => t.role \in docs
  /\ t.at \in {"check owner", "save", "check role", "add to space"} => t.space \in Spaces

Histories ==
  beside \in SUBSET (RoleCalls \X RoleCalls) /\ after \in SUBSET (RoleCalls \X RoleCalls)

RoleTypeInv ==
  /\ perms \in [PermIds -> PermCodes \cup {NoPerm, GonePerm}]
  /\ roles \in [RoleIds -> (SUBSET PermIds) \cup {NoRole}]
  /\ listed \in [Spaces -> (SUBSET RoleIds) \cup {NoSpace}]
  /\ task \in [RoleCalls -> TaskRec]
  /\ Histories
  /\ refusals \in 0 .. MaxRefusals
  /\ \A w \in Kept : listed[w] \subseteq RoleDocs
  /\ \A c \in RoleCalls : Fits(task[c], RoleDocs)

LEMMA RoleTypeImplies == RoleTypeInv => RoleTypeOK
  <1> SUFFICES ASSUME RoleTypeInv PROVE RoleTypeOK
    OBVIOUS
  <1>1. \A c \in RoleCalls : task[c] \in TaskRec
    BY DEF RoleTypeInv
  <1>2. \A c \in RoleCalls : /\ task[c].kind \in RoleKinds /\ task[c].at \in Places
                             /\ task[c].at = "pull" => task[c].todo \subseteq RoleDocs
    BY <1>1 DEF RoleTypeInv, TaskRec, Fits
  <1>3. \A r \in RoleDocs : roles[r] \subseteq PermIds
    BY DEF RoleTypeInv, RoleDocs
  <1>4. /\ beside \subseteq RoleCalls \X RoleCalls /\ after \subseteq RoleCalls \X RoleCalls
        /\ perms \in [PermIds -> PermCodes \cup {NoPerm, GonePerm}]
        /\ refusals \in 0 .. MaxRefusals /\ \A w \in Kept : listed[w] \subseteq RoleDocs
    BY DEF RoleTypeInv, Histories
  <1> QED BY <1>2, <1>3, <1>4 DEF RoleTypeOK, Places
-----------------------------------------------------------------------------
(* How a step changes the record of its request, field by field.           *)
OthersStay(c) == task' \in [RoleCalls -> TaskRec] /\ \A d \in RoleCalls \ {c} : task'[d] = task[d]

(* What is settled when a request arrives.                                 *)
SameAsk(c) ==
  /\ task'[c].kind = task[c].kind /\ task'[c].perm = task[c].perm
  /\ task'[c].space = task[c].space /\ task'[c].codes = task[c].codes
  /\ task'[c].body = task[c].body
  /\ task'[c].asked = task[c].asked /\ task'[c].live = task[c].live

LEMMA SetAt ==
  ASSUME task \in [RoleCalls -> TaskRec], NEW c \in RoleCalls, NEW l \in Places, GoTo(c, l)
  PROVE  /\ OthersStay(c) /\ SameAsk(c) /\ task'[c].at = l
         /\ task'[c].role = task[c].role /\ task'[c].todo = task[c].todo
         /\ task'[c].bad = task[c].bad /\ task'[c].seen = task[c].seen
  BY DEF GoTo, OthersStay, SameAsk, TaskRec

SetsTodo(c, l, x) == task' = [task EXCEPT ![c].at = l, ![c].todo = x]

SetsSeen(c, l, x) == task' = [task EXCEPT ![c].at = l, ![c].seen = x]

SetsRole(c, l, r) == task' = [task EXCEPT ![c].role = r, ![c].at = l]

Drops(c, x) == task' = [task EXCEPT ![c].todo = @ \ {x}]

DropsBad(c, x) == task' = [task EXCEPT ![c].todo = @ \ {x}, ![c].bad = TRUE]

Gives(c, t) == task' = [task EXCEPT ![c] = t]

LEMMA SetTodo ==
  ASSUME task \in [RoleCalls -> TaskRec], NEW c \in RoleCalls, NEW l \in Places,
         NEW x \in SUBSET Items,
         SetsTodo(c, l, x)
  PROVE  /\ OthersStay(c) /\ SameAsk(c) /\ task'[c].at = l /\ task'[c].todo = x
         /\ task'[c].role = task[c].role
         /\ task'[c].bad = task[c].bad /\ task'[c].seen = task[c].seen
  BY ZenonT(40) DEF SetsTodo, OthersStay, SameAsk, TaskRec

LEMMA SetSettled ==
  ASSUME task \in [RoleCalls -> TaskRec], NEW c \in RoleCalls, NEW x,
         Drops(c, x)
  PROVE  /\ OthersStay(c) /\ SameAsk(c) /\ task'[c].at = task[c].at
         /\ task'[c].todo = task[c].todo \ {x} /\ task'[c].bad = task[c].bad
         /\ task'[c].role = task[c].role /\ task'[c].seen = task[c].seen
  BY DEF Drops, OthersStay, SameAsk, TaskRec

LEMMA SetBad ==
  ASSUME task \in [RoleCalls -> TaskRec], NEW c \in RoleCalls, NEW x,
         DropsBad(c, x)
  PROVE  /\ OthersStay(c) /\ SameAsk(c) /\ task'[c].at = task[c].at
         /\ task'[c].todo = task[c].todo \ {x} /\ task'[c].bad = TRUE
         /\ task'[c].role = task[c].role /\ task'[c].seen = task[c].seen
  BY ZenonT(40) DEF DropsBad, OthersStay, SameAsk, TaskRec

LEMMA SetRole ==
  ASSUME task \in [RoleCalls -> TaskRec], NEW c \in RoleCalls, NEW l \in Places, NEW r \in RoleIds,
         SetsRole(c, l, r)
  PROVE  /\ OthersStay(c) /\ SameAsk(c) /\ task'[c].at = l /\ task'[c].role = r
         /\ task'[c].todo = task[c].todo
         /\ task'[c].bad = task[c].bad /\ task'[c].seen = task[c].seen
  BY ZenonT(40) DEF SetsRole, OthersStay, SameAsk, TaskRec

LEMMA SetSeen ==
  ASSUME task \in [RoleCalls -> TaskRec], NEW c \in RoleCalls, NEW l \in Places, NEW x \in SUBSET Refs,
         SetsSeen(c, l, x)
  PROVE  /\ OthersStay(c) /\ SameAsk(c) /\ task'[c].at = l /\ task'[c].seen = x
         /\ task'[c].role = task[c].role /\ task'[c].todo = task[c].todo /\ task'[c].bad = task[c].bad
  BY ZenonT(40) DEF SetsSeen, OthersStay, SameAsk, TaskRec

SetsPlace(c, w, r, l) == task' = [task EXCEPT ![c] = [@ EXCEPT !.space = w, !.role = r, !.at = l]]

SetsSpace(c, w, l) == task' = [task EXCEPT ![c] = [@ EXCEPT !.space = w, !.at = l]]

(* What a request that is done at once keeps.                              *)
SameRest(c) ==
  /\ task'[c].kind = task[c].kind /\ task'[c].perm = task[c].perm
  /\ task'[c].codes = task[c].codes /\ task'[c].body = task[c].body
  /\ task'[c].asked = task[c].asked /\ task'[c].live = task[c].live /\ task'[c].seen = task[c].seen

LEMMA SetPlace ==
  ASSUME task \in [RoleCalls -> TaskRec], NEW c \in RoleCalls, NEW l \in Places,
         NEW w \in Spaces, NEW r \in RoleIds, SetsPlace(c, w, r, l)
  PROVE  /\ OthersStay(c) /\ SameRest(c)
         /\ task'[c].at = l /\ task'[c].space = w /\ task'[c].role = r
  BY ZenonT(40) DEF SetsPlace, OthersStay, SameRest, TaskRec

LEMMA SetSpace ==
  ASSUME task \in [RoleCalls -> TaskRec], NEW c \in RoleCalls, NEW l \in Places,
         NEW w \in Spaces, SetsSpace(c, w, l)
  PROVE  OthersStay(c) /\ SameRest(c) /\ task'[c].at = l /\ task'[c].space = w
  BY ZenonT(40) DEF SetsSpace, OthersStay, SameRest, TaskRec

LEMMA SetTask ==
  ASSUME task \in [RoleCalls -> TaskRec], NEW c \in RoleCalls, NEW t \in TaskRec,
         Gives(c, t)
  PROVE  OthersStay(c) /\ task'[c] = t
  BY DEF Gives, OthersStay
-----------------------------------------------------------------------------
LEMMA FitsGrows ==
  \A t, docs, more : Fits(t, docs) /\ docs \subseteq more => Fits(t, more)
  <1> SUFFICES ASSUME NEW t, NEW docs, NEW more, Fits(t, docs), docs \subseteq more
               PROVE  Fits(t, more)
    OBVIOUS
  <1>1. /\ t.at = "pull" => t.todo \subseteq more
        /\ t.at = "populate roles" => t.todo \subseteq more /\ t.asked = t.todo
    BY DEF Fits
  <1>2. t.at \in {"find role", "write role", "check role", "add to space"} => t.role \in more
    BY DEF Fits
  <1> QED BY <1>1, <1>2, Zenon DEF Fits

LEMMA HistoriesStay == Histories /\ UNCHANGED <<beside, after>> => Histories'
  BY DEF Histories

LEMMA TypeStart == RoleInit => RoleTypeInv
  <1> SUFFICES ASSUME RoleInit PROVE RoleTypeInv
    OBVIOUS
  <1>1. perms = StartPerms /\ roles = StartRoles /\ listed = StartListed
    BY DEF RoleInit
  <1>2. PICK mix \in Tasks : task = [c \in RoleCalls |-> Request(mix[c], "ready")]
    BY DEF RoleInit
  <1>3. [p \in {} |-> NoPerm] \in Codings
    <2>1. [p \in {} |-> NoPerm] \in [{} -> PermCodes]
      OBVIOUS
    <2> QED BY <2>1 DEF Codings
  <1>4. \A k \in RoleKinds : Request(k, "ready") \in TaskRec /\ Fits(Request(k, "ready"), RoleDocs)
    BY <1>3 DEF Request, TaskRec, Places, Fits, KindFits
  <1>5. \A c \in RoleCalls : mix[c] \in RoleKinds
    BY RoleAssumption
  <1>6. task \in [RoleCalls -> TaskRec] /\ \A c \in RoleCalls : Fits(task[c], RoleDocs)
    BY <1>2, <1>4, <1>5
  <1>7. perms \in [PermIds -> PermCodes \cup {NoPerm, GonePerm}]
    BY <1>1, RoleAssumption
  <1>8. roles \in [RoleIds -> (SUBSET PermIds) \cup {NoRole}]
    BY <1>1, RoleAssumption
  <1>9. listed \in [Spaces -> (SUBSET RoleIds) \cup {NoSpace}]
    BY <1>1, RoleAssumption
  <1>11. \A w \in Kept : listed[w] \subseteq RoleDocs
    BY <1>1, RoleAssumption DEF RoleDocs, Kept
  <1>12. Histories /\ refusals \in 0 .. MaxRefusals
    BY RoleAssumption DEF RoleInit, Histories
  <1> QED BY <1>6, <1>7, <1>8, <1>9, <1>11, <1>12, Zenon DEF RoleTypeInv
-----------------------------------------------------------------------------
(* A request arrives at its first step, and nothing else happens.          *)
FirstSteps == {"look code", "find permission", "find permissions", "save role", "find role",
               "check owner", "check role", "populate roles", "ok"}

Gone == {p \in PermIds : perms[p] = GonePerm}

(* What a reader has in hand when it asks: the roles, the permissions there*)
(* are, and the references it is shown if that takes one call.             *)
AsksFor(t) ==
  /\ t.kind = "show" =>
       /\ t.asked \subseteq RoleDocs /\ t.live = Known
       /\ t.at = "ok" => t.seen = RefsOf(t.asked)
  /\ t.at = "ok" => t.kind = "show"
  /\ t.at = "find role" => t.kind = "update role"

Arrives(c) ==
  /\ OthersStay(c) /\ task[c].at = "ready" /\ task'[c].kind = task[c].kind
  /\ task'[c].at \in FirstSteps /\ Fits(task'[c], RoleDocs) /\ AsksFor(task'[c]) /\ Meets(c)
  /\ UNCHANGED <<perms, roles, listed, refusals>>

LEMMA AskedArrives ==
  ASSUME RoleTypeInv, NEW c \in RoleCalls, NEW t \in TaskRec, Ready(c, t.kind), Asked(c, t),
         t.at \in FirstSteps, Fits(t, RoleDocs), AsksFor(t)
  PROVE  Arrives(c)
  <1>1. Gives(c, t) /\ task \in [RoleCalls -> TaskRec]
    BY DEF Asked, RoleTypeInv, Gives
  <1>2. OthersStay(c) /\ task'[c] = t
    BY <1>1, SetTask
  <1>3. /\ task[c].kind = t.kind /\ task[c].at = "ready" /\ Meets(c)
        /\ UNCHANGED <<perms, roles, listed, refusals>>
    BY DEF Asked, Ready
  <1>4. Fits(task'[c], RoleDocs) /\ AsksFor(task'[c])
    BY <1>2
  <1> QED BY <1>2, <1>3, <1>4 DEF Arrives

(* The records of the requests, by what their paths and bodies set.        *)
LEMMA CodingsHave ==
  /\ [p \in {} |-> NoPerm] \in Codings
  /\ \A P \in SUBSET (PermIds \cup {NoPerm}) : [P -> PermCodes] \subseteq Codings
  <1>1. [p \in {} |-> NoPerm] \in [{} -> PermCodes]
    OBVIOUS
  <1> QED BY <1>1 DEF Codings

LEMMA OfNothing ==
  ASSUME NEW k \in RoleKinds, NEW l \in Places
  PROVE  Request(k, l) \in TaskRec
  BY CodingsHave DEF Request, TaskRec
-----------------------------------------------------------------------------
LEMMA CreatePermissionArrives ==
  ASSUME RoleTypeInv, NEW c \in RoleCalls, AskCreatePermission(c) PROVE Arrives(c)
  <1>1. PICK k \in PermCodes :
          Asked(c, [Request("create permission", "look code") EXCEPT !.codes = [p \in {NoPerm} |-> k]])
    BY DEF AskCreatePermission
  <1>2. "create permission" \in RoleKinds /\ "look code" \in Places
    BY DEF RoleKinds, Places, RoleSteps
  <1>3. PICK t : /\ t = [Request("create permission", "look code") EXCEPT !.codes = [p \in {NoPerm} |-> k]]
                 /\ Asked(c, t)
    BY <1>1
  <1>4. [p \in {NoPerm} |-> k] \in Codings
    <2>1. [p \in {NoPerm} |-> k] \in [{NoPerm} -> PermCodes] /\ {NoPerm} \in SUBSET (PermIds \cup {NoPerm})
      OBVIOUS
    <2> QED BY <2>1, CodingsHave
  <1>5. /\ t \in TaskRec /\ t.kind = "create permission" /\ t.at = "look code" /\ t.asked = {}
        /\ t.codes = [p \in {NoPerm} |-> k]
    BY <1>2, <1>3, <1>4, OfNothing DEF Request, TaskRec
  <1>6. Fits(t, RoleDocs) /\ AsksFor(t)
    BY <1>5 DEF Fits, KindFits, CodeKey, AsksFor
  <1>7. Ready(c, t.kind)
    BY <1>5 DEF AskCreatePermission
  <1> QED BY <1>3, <1>5, <1>6, <1>7, AskedArrives DEF FirstSteps

LEMMA UpdatePermissionArrives ==
  ASSUME RoleTypeInv, NEW c \in RoleCalls, AskUpdatePermission(c) PROVE Arrives(c)
  <1>1. PICK p \in PermIds, k \in PermCodes :
          Asked(c, [Request("update permission", "find permission") EXCEPT !.perm = p, !.codes = [q \in {p} |-> k]])
    BY DEF AskUpdatePermission
  <1>2. "update permission" \in RoleKinds /\ "find permission" \in Places
    BY DEF RoleKinds, Places, RoleSteps
  <1>3. PICK t : /\ t = [Request("update permission", "find permission")
                          EXCEPT !.perm = p, !.codes = [q \in {p} |-> k]]
                 /\ Asked(c, t)
    BY <1>1
  <1>4. [q \in {p} |-> k] \in Codings
    <2>1. [q \in {p} |-> k] \in [{p} -> PermCodes] /\ {p} \in SUBSET (PermIds \cup {NoPerm})
      OBVIOUS
    <2> QED BY <2>1, CodingsHave
  <1>5. /\ t \in TaskRec /\ t.kind = "update permission" /\ t.at = "find permission" /\ t.asked = {}
        /\ t.perm = p /\ t.codes = [q \in {p} |-> k]
    BY <1>2, <1>3, <1>4, OfNothing DEF Request, TaskRec
  <1>6. Fits(t, RoleDocs) /\ AsksFor(t)
    BY <1>5 DEF Fits, KindFits, CodeKey, AsksFor
  <1>7. Ready(c, t.kind)
    BY <1>5 DEF AskUpdatePermission
  <1> QED BY <1>3, <1>5, <1>6, <1>7, AskedArrives DEF FirstSteps

LEMMA UpdatePermissionsArrives ==
  ASSUME RoleTypeInv, NEW c \in RoleCalls, AskUpdatePermissions(c) PROVE Arrives(c)
  <1>1. PICK P \in SUBSET {p \in PermIds : perms[p] # NoPerm} \ {{}} :
          \E codes \in [P -> PermCodes] :
            Asked(c, [Request("update permissions", "find permissions") EXCEPT !.codes = codes])
    BY DEF AskUpdatePermissions
  <1>2. PICK codes \in [P -> PermCodes] :
          Asked(c, [Request("update permissions", "find permissions") EXCEPT !.codes = codes])
    BY <1>1
  <1>3. "update permissions" \in RoleKinds /\ "find permissions" \in Places
    BY DEF RoleKinds, Places, RoleSteps
  <1>4. PICK t : t = [Request("update permissions", "find permissions") EXCEPT !.codes = codes] /\ Asked(c, t)
    BY <1>2
  <1>5. codes \in Codings
    <2>1. P \in SUBSET (PermIds \cup {NoPerm})
      OBVIOUS
    <2> QED BY <2>1, CodingsHave
  <1>6. /\ t \in TaskRec /\ t.kind = "update permissions" /\ t.at = "find permissions" /\ t.asked = {}
        /\ t.codes = codes
    BY <1>3, <1>4, <1>5, OfNothing DEF Request, TaskRec
  <1>7. Fits(t, RoleDocs) /\ AsksFor(t)
    BY <1>2, <1>6 DEF Fits, KindFits, CodeKey, AsksFor
  <1>8. Ready(c, t.kind)
    BY <1>6 DEF AskUpdatePermissions
  <1> QED BY <1>4, <1>6, <1>7, <1>8, AskedArrives DEF FirstSteps

LEMMA DeletePermissionArrives ==
  ASSUME RoleTypeInv, NEW c \in RoleCalls, AskDeletePermission(c) PROVE Arrives(c)
  <1>1. PICK p \in PermIds :
          Asked(c, [Request("delete permission", "find permission") EXCEPT !.perm = p])
    BY DEF AskDeletePermission
  <1>2. "delete permission" \in RoleKinds /\ "find permission" \in Places
    BY DEF RoleKinds, Places, RoleSteps
  <1>3. PICK t : t = [Request("delete permission", "find permission") EXCEPT !.perm = p] /\ Asked(c, t)
    BY <1>1
  <1>4. /\ t \in TaskRec /\ t.kind = "delete permission" /\ t.at = "find permission" /\ t.asked = {}
        /\ t.perm = p
    BY <1>2, <1>3, OfNothing DEF Request, TaskRec
  <1>5. Fits(t, RoleDocs) /\ AsksFor(t)
    BY <1>4 DEF Fits, KindFits, CodeKey, AsksFor
  <1>6. Ready(c, t.kind)
    BY <1>4 DEF AskDeletePermission
  <1> QED BY <1>3, <1>4, <1>5, <1>6, AskedArrives DEF FirstSteps

LEMMA CreateRoleArrives ==
  ASSUME RoleTypeInv, NEW c \in RoleCalls, AskCreateRole(c) PROVE Arrives(c)
  <1>1. PICK P \in Bodies :
          Asked(c, [Request("create role", "save role") EXCEPT !.body = P])
    BY DEF AskCreateRole
  <1>2. "create role" \in RoleKinds /\ "save role" \in Places
    BY DEF RoleKinds, Places, RoleSteps
  <1>3. PICK t : t = [Request("create role", "save role") EXCEPT !.body = P] /\ Asked(c, t)
    BY <1>1
  <1>4. P \in SUBSET PermIds
    BY RoleAssumption
  <1>5. /\ t \in TaskRec /\ t.kind = "create role" /\ t.at = "save role" /\ t.asked = {} /\ t.role = NoRole
        /\ t.body = P
    BY <1>2, <1>3, <1>4, OfNothing DEF Request, TaskRec
  <1>6. Fits(t, RoleDocs) /\ AsksFor(t)
    BY <1>4, <1>5 DEF Fits, KindFits, CodeKey, AsksFor
  <1>7. Ready(c, t.kind)
    BY <1>5 DEF AskCreateRole
  <1> QED BY <1>3, <1>5, <1>6, <1>7, AskedArrives DEF FirstSteps

LEMMA UpdateRoleArrives ==
  ASSUME RoleTypeInv, NEW c \in RoleCalls, AskUpdateRole(c) PROVE Arrives(c)
  <1>1. PICK r \in RoleDocs, P \in Bodies :
          Asked(c, [Request("update role", "find role") EXCEPT !.role = r, !.body = P])
    BY DEF AskUpdateRole
  <1>2. "update role" \in RoleKinds /\ "find role" \in Places
    BY DEF RoleKinds, Places, RoleSteps
  <1>3. PICK t : t = [Request("update role", "find role") EXCEPT !.role = r, !.body = P] /\ Asked(c, t)
    BY <1>1
  <1>4. r \in RoleIds /\ P \in SUBSET PermIds
    BY RoleAssumption DEF RoleDocs
  <1>5. /\ t \in TaskRec /\ t.kind = "update role" /\ t.at = "find role" /\ t.asked = {}
        /\ t.role = r /\ t.body = P
    BY <1>2, <1>3, <1>4, OfNothing DEF Request, TaskRec
  <1>6. Fits(t, RoleDocs) /\ AsksFor(t)
    BY <1>4, <1>5 DEF Fits, KindFits, CodeKey, AsksFor
  <1>7. Ready(c, t.kind)
    BY <1>5 DEF AskUpdateRole
  <1> QED BY <1>3, <1>5, <1>6, <1>7, AskedArrives DEF FirstSteps

LEMMA CreateWorkspaceRoleArrives ==
  ASSUME RoleTypeInv, NEW c \in RoleCalls, AskCreateWorkspaceRole(c) PROVE Arrives(c)
  <1>1. PICK w \in Kept, P \in Bodies :
          Asked(c, [Request("create space role", "check owner") EXCEPT !.space = w, !.body = P])
    BY DEF AskCreateWorkspaceRole
  <1>2. "create space role" \in RoleKinds /\ "check owner" \in Places
    BY DEF RoleKinds, Places, RoleSteps
  <1>3. PICK t : /\ t = [Request("create space role", "check owner") EXCEPT !.space = w, !.body = P]
                 /\ Asked(c, t)
    BY <1>1
  <1>4. w \in Spaces /\ P \in SUBSET PermIds
    BY RoleAssumption DEF Kept
  <1>5. /\ t \in TaskRec /\ t.kind = "create space role" /\ t.at = "check owner" /\ t.asked = {} /\ t.role = NoRole
        /\ t.space = w /\ t.body = P
    BY <1>2, <1>3, <1>4, OfNothing DEF Request, TaskRec
  <1>6. Fits(t, RoleDocs) /\ AsksFor(t)
    BY <1>4, <1>5 DEF Fits, KindFits, CodeKey, AsksFor
  <1>7. Ready(c, t.kind)
    BY <1>5 DEF AskCreateWorkspaceRole
  <1> QED BY <1>3, <1>5, <1>6, <1>7, AskedArrives DEF FirstSteps

LEMMA EditRoleArrives ==
  ASSUME RoleTypeInv, NEW c \in RoleCalls, AskEditRoleWorkspace(c) PROVE Arrives(c)
  <1>1. PICK w \in Kept, r \in RoleDocs, P \in Bodies :
          Asked(c, [Request("edit space role", "check role") EXCEPT !.space = w, !.role = r, !.body = P])
    BY DEF AskEditRoleWorkspace
  <1>2. "edit space role" \in RoleKinds /\ "check role" \in Places
    BY DEF RoleKinds, Places, RoleSteps
  <1>3. PICK t : /\ t = [Request("edit space role", "check role") EXCEPT !.space = w, !.role = r, !.body = P]
                 /\ Asked(c, t)
    BY <1>1
  <1>4. w \in Spaces /\ r \in RoleIds /\ P \in SUBSET PermIds
    BY RoleAssumption DEF Kept, RoleDocs
  <1>5. /\ t \in TaskRec /\ t.kind = "edit space role" /\ t.at = "check role" /\ t.asked = {}
        /\ t.space = w /\ t.role = r /\ t.body = P
    BY <1>2, <1>3, <1>4, OfNothing DEF Request, TaskRec
  <1>6. Fits(t, RoleDocs) /\ AsksFor(t)
    BY <1>1, <1>4, <1>5 DEF Fits, KindFits, CodeKey, AsksFor
  <1>7. Ready(c, t.kind)
    BY <1>5 DEF AskEditRoleWorkspace
  <1> QED BY <1>3, <1>5, <1>6, <1>7, AskedArrives DEF FirstSteps

LEMMA ShowArrives ==
  ASSUME RoleTypeInv, NEW c \in RoleCalls, NEW R \in SUBSET RoleDocs, Show(c, R) PROVE Arrives(c)
  <1>1. "show" \in RoleKinds /\ "populate roles" \in Places
    BY DEF RoleKinds, Places, RoleSteps
  <1>2. PICK t : /\ t = [Request("show", "populate roles") EXCEPT !.todo = R, !.asked = R, !.live = Known]
                 /\ Asked(c, t)
    BY DEF Show
  <1>3. R \in SUBSET Items /\ R \in SUBSET RoleIds /\ Known \in SUBSET PermIds
    BY DEF Items, RoleDocs, Known
  <1>4. /\ t \in TaskRec /\ t.kind = "show" /\ t.at = "populate roles"
        /\ t.todo = R /\ t.asked = R /\ t.live = Known
    BY <1>1, <1>2, <1>3, OfNothing DEF Request, TaskRec
  <1>5. Fits(t, RoleDocs) /\ AsksFor(t)
    BY <1>4 DEF Fits, KindFits, CodeKey, AsksFor
  <1>6. Ready(c, t.kind)
    BY <1>4 DEF Show
  <1> QED BY <1>2, <1>4, <1>5, <1>6, AskedArrives DEF FirstSteps

LEMMA RefsOfDocs ==
  ASSUME RoleTypeInv, NEW R \in SUBSET RoleDocs
  PROVE  /\ RefsOf(R) \in SUBSET Refs
         /\ \A r \in R : roles[r] = {p \in PermIds : <<r, p>> \in RefsOf(R)}
  <1>1. \A r \in R : r \in RoleIds /\ roles[r] \in SUBSET PermIds
    BY DEF RoleTypeInv, RoleDocs
  <1>2. RefsOf(R) \in SUBSET Refs
    BY <1>1 DEF RefsOf, Refs
  <1>3. \A r \in R : \A p \in PermIds : <<r, p>> \in RefsOf(R) <=> p \in roles[r]
    <2> TAKE r \in R
    <2> TAKE p \in PermIds
    <2>1. <<r, p>> \in RefsOf(R) <=> \E q \in R : <<r, p>> \in {q} \X roles[q]
      BY DEF RefsOf
    <2> QED BY <2>1
  <1> QED BY <1>1, <1>2, <1>3

LEMMA GetRoleArrives ==
  ASSUME RoleTypeInv, NEW c \in RoleCalls, GetRole(c) PROVE Arrives(c)
  <1>1. "show" \in RoleKinds /\ "ok" \in Places
    BY DEF RoleKinds, Places, RoleEnds
  <1>2. PICK r \in RoleDocs :
          Asked(c, [Request("show", "ok") EXCEPT !.asked = {r}, !.live = Known, !.seen = RefsOf({r})])
    BY DEF GetRole
  <1>3. PICK t : /\ t = [Request("show", "ok") EXCEPT !.asked = {r}, !.live = Known, !.seen = RefsOf({r})]
                 /\ Asked(c, t)
    BY <1>2
  <1>4. {r} \in SUBSET RoleDocs /\ {r} \in SUBSET RoleIds /\ Known \in SUBSET PermIds
    BY DEF RoleDocs, Known
  <1>5. RefsOf({r}) \in SUBSET Refs
    BY <1>4, RefsOfDocs
  <1>6. /\ t \in TaskRec /\ t.kind = "show" /\ t.at = "ok"
        /\ t.asked = {r} /\ t.live = Known /\ t.seen = RefsOf({r})
    BY <1>1, <1>3, <1>4, <1>5, OfNothing DEF Request, TaskRec
  <1>7. Fits(t, RoleDocs) /\ AsksFor(t)
    BY <1>4, <1>6 DEF Fits, KindFits, CodeKey, AsksFor
  <1>8. Ready(c, t.kind)
    BY <1>6 DEF GetRole
  <1> QED BY <1>3, <1>6, <1>7, <1>8, AskedArrives DEF FirstSteps

Shows(c) ==
  \/ GetMyWorkspacePermissions(c) \/ GetWorkspaceRoles(c) \/ GetWorkspaceRoleDetail(c)
  \/ GetWorkspace(c) \/ GetWorkspaceTeam(c) \/ GetRoles(c) \/ GetRole(c)

LEMMA ShowsArrive ==
  ASSUME RoleTypeInv, NEW c \in RoleCalls, Shows(c) PROVE Arrives(c)
  <1>1. \A w \in Kept : listed[w] \subseteq RoleDocs
    BY DEF RoleTypeInv
  <1>2. GetRole(c) \/ \E R \in SUBSET RoleDocs : Show(c, R)
    <2>1. CASE GetMyWorkspacePermissions(c)
      BY <2>1 DEF GetMyWorkspacePermissions
    <2>2. CASE GetWorkspaceRoles(c)
      BY <2>2, <1>1 DEF GetWorkspaceRoles
    <2>3. CASE GetWorkspaceRoleDetail(c)
      BY <2>3, <1>1 DEF GetWorkspaceRoleDetail
    <2>4. CASE GetWorkspace(c)
      <3>1. PICK w \in Kept, R \in SUBSET RoleDocs : Show(c, listed[w] \cup R)
        BY <2>4 DEF GetWorkspace
      <3>2. listed[w] \cup R \in SUBSET RoleDocs
        BY <1>1
      <3> QED BY <3>1, <3>2
    <2>5. CASE GetWorkspaceTeam(c)
      BY <2>5 DEF GetWorkspaceTeam
    <2>6. CASE GetRoles(c)
      BY <2>6 DEF GetRoles
    <2> QED BY <2>1, <2>2, <2>3, <2>4, <2>5, <2>6 DEF Shows
  <1> QED BY <1>2, ShowArrives, GetRoleArrives

Asks(c) ==
  \/ AskCreatePermission(c) \/ AskUpdatePermission(c) \/ AskUpdatePermissions(c)
  \/ AskDeletePermission(c) \/ AskCreateRole(c) \/ AskUpdateRole(c)
  \/ AskCreateWorkspaceRole(c) \/ AskEditRoleWorkspace(c) \/ Shows(c)

LEMMA AsksArrive ==
  ASSUME RoleTypeInv, NEW c \in RoleCalls, Asks(c) PROVE Arrives(c)
  BY CreatePermissionArrives, UpdatePermissionArrives, UpdatePermissionsArrives, DeletePermissionArrives,
     CreateRoleArrives, UpdateRoleArrives, CreateWorkspaceRoleArrives, EditRoleArrives, ShowsArrive DEF Asks
-----------------------------------------------------------------------------
(* A request under way makes a step.                                       *)
Moves(c) ==
  /\ OthersStay(c) /\ SameAsk(c) /\ UNCHANGED <<beside, after>>
  /\ task[c].role \in RoleIds => task'[c].role = task[c].role
  /\ task[c].at \in RoleSteps /\ task'[c].at \in RoleSteps \cup RoleEnds

KeepsRest(c) ==
  /\ task'[c].role = task[c].role /\ task'[c].todo = task[c].todo
  /\ task'[c].bad = task[c].bad /\ task'[c].seen = task[c].seen

LEMMA PlacesApart ==
  /\ RoleSteps \subseteq Places /\ RoleEnds \subseteq Places /\ "ready" \in Places
  /\ "ready" \notin RoleSteps /\ RoleSteps \cap RoleEnds = {} /\ "ready" \notin RoleEnds
  BY DEF Places, RoleSteps, RoleEnds

LEMMA GoMoves ==
  ASSUME RoleTypeInv, NEW c \in RoleCalls, NEW l \in RoleSteps \cup RoleEnds, GoTo(c, l),
         task[c].at \in RoleSteps, UNCHANGED <<beside, after>>
  PROVE  Moves(c) /\ KeepsRest(c) /\ task'[c].at = l
  BY SetAt, PlacesApart DEF RoleTypeInv, Moves, KeepsRest

LEMMA RefusalsStay ==
  ASSUME RoleTypeInv, UNCHANGED refusals \/ Refuse
  PROVE  refusals' \in 0 .. MaxRefusals
  <1>1. refusals \in 0 .. MaxRefusals /\ MaxRefusals \in Nat
    BY RoleAssumption DEF RoleTypeInv
  <1> QED BY <1>1 DEF Refuse

LEMMA LostEnds ==
  ASSUME NEW c \in RoleCalls PROVE Lost(c) \in {"null", "failed"} /\ Lost(c) \in RoleEnds
  BY DEF Lost, RoleEnds

LEMMA WrittenMoves ==
  ASSUME RoleTypeInv, NEW c \in RoleCalls, NEW l \in RoleSteps \cup RoleEnds, Written(c, l),
         task[c].at \in RoleSteps, UNCHANGED <<beside, after>>
  PROVE  Moves(c) /\ KeepsRest(c) /\ task'[c].at \in {l, "null", "failed"} /\ refusals' \in 0 .. MaxRefusals
  <1>1. refusals' \in 0 .. MaxRefusals
    BY RoleAssumption DEF Written, Refuse, RoleTypeInv
  <1>2. CASE GoTo(c, l)
    BY <1>1, <1>2, GoMoves
  <1>3. CASE GoTo(c, Lost(c))
    BY <1>1, <1>3, GoMoves, LostEnds
  <1> QED BY <1>2, <1>3 DEF Written

LEMMA FitsEnd ==
  ASSUME RoleTypeInv, NEW c \in RoleCalls, Moves(c), task'[c].at \in RoleEnds
  PROVE  Fits(task'[c], RoleDocs)
  <1>1. Fits(task[c], RoleDocs) /\ task[c].at # "ready"
    BY PlacesApart DEF RoleTypeInv, Moves
  <1>2. task'[c].at \notin RoleSteps
    BY PlacesApart
  <1> QED BY <1>1, <1>2 DEF Fits, KindFits, SameAsk, Moves, RoleSteps

LEMMA RoleTypesFrom ==
  ASSUME RoleTypeInv, NEW c \in RoleCalls, OthersStay(c), Fits(task'[c], RoleDocs'),
         perms' \in [PermIds -> PermCodes \cup {NoPerm, GonePerm}],
         roles' \in [RoleIds -> (SUBSET PermIds) \cup {NoRole}],
         listed' \in [Spaces -> (SUBSET RoleIds) \cup {NoSpace}],
         Histories', refusals' \in 0 .. MaxRefusals,
         RoleDocs \subseteq RoleDocs',
         \A w \in Kept' : listed'[w] \subseteq RoleDocs'
  PROVE  RoleTypeInv'
  <1>1. \A d \in RoleCalls : Fits(task'[d], RoleDocs')
    <2>1. SUFFICES ASSUME NEW d \in RoleCalls, d # c PROVE Fits(task'[d], RoleDocs')
      OBVIOUS
    <2>2. task'[d] = task[d]
      BY <2>1 DEF OthersStay
    <2>3. Fits(task[d], RoleDocs)
      BY DEF RoleTypeInv
    <2> QED BY <2>2, <2>3, FitsGrows
  <1>2. task' \in [RoleCalls -> TaskRec]
    BY DEF OthersStay
  <1> QED BY <1>1, <1>2, Zenon DEF RoleTypeInv

LEMMA TypesRead ==
  ASSUME RoleTypeInv, NEW c \in RoleCalls, OthersStay(c), Fits(task'[c], RoleDocs),
         UNCHANGED <<perms, roles, listed>>,
         Histories', refusals' \in 0 .. MaxRefusals
  PROVE  RoleTypeInv'
  <1>1. RoleDocs' = RoleDocs /\ Kept' = Kept
    BY DEF RoleDocs, Kept
  <1>2. /\ perms' \in [PermIds -> PermCodes \cup {NoPerm, GonePerm}]
        /\ roles' \in [RoleIds -> (SUBSET PermIds) \cup {NoRole}]
        /\ listed' \in [Spaces -> (SUBSET RoleIds) \cup {NoSpace}]
    BY DEF RoleTypeInv
  <1>4. \A w \in Kept' : listed'[w] \subseteq RoleDocs'
    BY <1>1 DEF RoleTypeInv
  <1> QED BY <1>1, <1>2, <1>4, RoleTypesFrom
-----------------------------------------------------------------------------
(* The steps that read only.                                               *)
LEMMA HasFits ==
  ASSUME RoleTypeInv, NEW c \in RoleCalls
  PROVE  /\ Fits(task[c], RoleDocs) /\ task[c] \in TaskRec /\ KindFits(task[c])
         /\ task[c].body \subseteq PermIds
  <1>1. Fits(task[c], RoleDocs) /\ task[c] \in TaskRec
    BY DEF RoleTypeInv
  <1> QED BY <1>1 DEF Fits, TaskRec

LEMMA LookCodeFits ==
  ASSUME RoleTypeInv, NEW c \in RoleCalls, LookCode(c)
  PROVE  /\ Moves(c) /\ Fits(task'[c], RoleDocs) /\ KeepsRest(c)
         /\ task[c].at = "look code" /\ task'[c].at \in {"refused", "write permission"}
         /\ task'[c].at = "write permission" => ~Taken(c)
  <1>1. task[c].at = "look code" /\ UNCHANGED <<beside, after>> /\ Fits(task[c], RoleDocs)
    BY HasFits DEF LookCode, Reads
  <1>2. PICK l \in {"refused", "write permission"} : GoTo(c, l) /\ (l = "write permission" => ~Taken(c))
    BY DEF LookCode
  <1>3. Moves(c) /\ task'[c].at = l /\ KeepsRest(c)
    BY <1>1, <1>2, GoMoves DEF RoleSteps, RoleEnds
  <1>4. Fits(task'[c], RoleDocs)
    BY <1>1, <1>3 DEF Fits, KindFits, CodeKey, Moves, SameAsk, KeepsRest
  <1> QED BY <1>1, <1>2, <1>3, <1>4

LEMMA FindPermissionFits ==
  ASSUME RoleTypeInv, NEW c \in RoleCalls, FindPermission(c)
  PROVE  /\ Moves(c) /\ Fits(task'[c], RoleDocs) /\ KeepsRest(c) /\ task[c].at = "find permission"
         /\ task'[c].at \in {"refused", "list holders", "look code", "write permission"}
         /\ task'[c].at = "write permission" =>
              task[c].kind = "update permission" /\ CodeIn(c) = perms[task[c].perm]
  <1>1. task[c].at = "find permission" /\ UNCHANGED <<beside, after>> /\ Fits(task[c], RoleDocs)
    BY HasFits DEF FindPermission, Reads
  <1>2. PICK l \in {"refused", "list holders", "look code", "write permission"} :
          /\ GoTo(c, l)
          /\ l = "list holders" => task[c].kind = "delete permission"
          /\ l \in {"look code", "write permission"} => task[c].kind # "delete permission"
          /\ l = "write permission" => CodeIn(c) = perms[task[c].perm]
    BY DEF FindPermission
  <1>3. Moves(c) /\ task'[c].at = l /\ KeepsRest(c)
    BY <1>1, <1>2, GoMoves DEF RoleSteps, RoleEnds
  <1>4. Fits(task'[c], RoleDocs)
    BY <1>1, <1>2, <1>3 DEF Fits, KindFits, CodeKey, Moves, SameAsk, KeepsRest
  <1>5. task[c].kind \in {"update permission", "delete permission"}
    BY <1>1 DEF Fits, KindFits
  <1> QED BY <1>1, <1>2, <1>3, <1>4, <1>5

LEMMA FindPermissionsFits ==
  ASSUME RoleTypeInv, NEW c \in RoleCalls, FindPermissions(c)
  PROVE  /\ Moves(c) /\ Fits(task'[c], RoleDocs) /\ task[c].at = "find permissions"
         /\ task'[c].at \in {"write permissions", "failed"} /\ task'[c].seen = task[c].seen
  <1>1. /\ task[c].at = "find permissions" /\ UNCHANGED <<beside, after>> /\ Fits(task[c], RoleDocs)
        /\ task \in [RoleCalls -> TaskRec]
    BY HasFits DEF FindPermissions, Reads, RoleTypeInv
  <1>2. PICK x : x = DOMAIN task[c].codes
    OBVIOUS
  <1>3. PICK l \in {"write permissions", "failed"} : SetsTodo(c, l, x)
    BY <1>2 DEF FindPermissions, SetsTodo
  <1>4. x \in SUBSET Items
    BY <1>2, <1>1, <1>3 DEF Fits, Items
  <1>5. l \in Places
    BY DEF Places, RoleSteps, RoleEnds
  <1>6. /\ OthersStay(c) /\ SameAsk(c) /\ task'[c].at = l /\ task'[c].todo = x
        /\ task'[c].role = task[c].role /\ task'[c].seen = task[c].seen
    BY <1>1, <1>3, <1>4, <1>5, SetTodo
  <1>7. Moves(c)
    BY <1>1, <1>6 DEF Moves, RoleSteps, RoleEnds
  <1>8. Fits(task'[c], RoleDocs)
    BY <1>2, <1>1, <1>3, <1>6 DEF Fits, KindFits, CodeKey, SameAsk
  <1> QED BY <1>1, <1>3, <1>6, <1>7, <1>8

LEMMA UpdatesEndFits ==
  ASSUME RoleTypeInv, NEW c \in RoleCalls, MassiveUpdatePermissions(c)
  PROVE  /\ Moves(c) /\ Fits(task'[c], RoleDocs) /\ KeepsRest(c)
         /\ task'[c].at \in {"failed", "ok"} /\ task[c].at = "write permissions"
  <1>1. task[c].at = "write permissions" /\ UNCHANGED <<beside, after>>
    BY DEF MassiveUpdatePermissions, Reads
  <1>2. PICK l \in {"failed", "ok"} : GoTo(c, l)
    BY DEF MassiveUpdatePermissions
  <1>3. Moves(c) /\ KeepsRest(c) /\ task'[c].at \in {"failed", "ok"} /\ task'[c].at \in RoleEnds
    BY <1>1, <1>2, GoMoves DEF RoleSteps, RoleEnds
  <1> QED BY <1>1, <1>3, FitsEnd

LEMMA ListHoldersFits ==
  ASSUME RoleTypeInv, NEW c \in RoleCalls, ListHolders(c)
  PROVE  /\ Moves(c) /\ Fits(task'[c], RoleDocs)
         /\ task'[c].at = "pull" /\ task'[c].todo = Holders(task[c].perm) /\ task'[c].bad = task[c].bad
         /\ task[c].at = "list holders" /\ task'[c].seen = task[c].seen
  <1>1. /\ task[c].at = "list holders" /\ UNCHANGED <<beside, after>> /\ Fits(task[c], RoleDocs)
        /\ task \in [RoleCalls -> TaskRec]
    BY HasFits DEF ListHolders, Reads, RoleTypeInv
  <1>2. PICK l, x : l = "pull" /\ x = Holders(task[c].perm) /\ SetsTodo(c, l, x)
    BY DEF ListHolders, SetsTodo
  <1>3. x \in SUBSET Items /\ x \subseteq RoleDocs
    BY <1>2 DEF Holders, RoleDocs, Items
  <1>4. l \in Places
    BY <1>2 DEF Places, RoleSteps
  <1>5. /\ OthersStay(c) /\ SameAsk(c) /\ task'[c].at = l /\ task'[c].todo = x
        /\ task'[c].role = task[c].role /\ task'[c].bad = task[c].bad /\ task'[c].seen = task[c].seen
    BY <1>1, <1>2, <1>3, <1>4, SetTodo, ZenonT(40)
  <1>6. Moves(c)
    BY <1>1, <1>2, <1>5 DEF Moves, RoleSteps
  <1>7. Fits(task'[c], RoleDocs)
    BY <1>1, <1>2, <1>3, <1>5 DEF Fits, KindFits, CodeKey, SameAsk
  <1> QED BY <1>1, <1>2, <1>5, <1>6, <1>7

LEMMA PullsEndFits ==
  ASSUME RoleTypeInv, NEW c \in RoleCalls, PullsEnd(c)
  PROVE  /\ Moves(c) /\ Fits(task'[c], RoleDocs) /\ task[c].todo = {}
         /\ task[c].at = "pull" /\ KeepsRest(c)
         /\ task'[c].at = IF task[c].bad THEN "failed" ELSE "delete permission"
  <1>1. task[c].at = "pull" /\ task[c].todo = {} /\ UNCHANGED <<beside, after>> /\ Fits(task[c], RoleDocs)
    BY HasFits DEF PullsEnd, Reads
  <1>2. PICK l \in {"failed", "delete permission"} :
          GoTo(c, l) /\ l = IF task[c].bad THEN "failed" ELSE "delete permission"
    BY DEF PullsEnd
  <1>3. Moves(c) /\ task'[c].at = l /\ KeepsRest(c)
    BY <1>1, <1>2, GoMoves DEF RoleSteps, RoleEnds
  <1>4. Fits(task'[c], RoleDocs)
    BY <1>1, <1>3 DEF Fits, KindFits, CodeKey, Moves, SameAsk
  <1> QED BY <1>1, <1>2, <1>3, <1>4

LEMMA CheckOwnerFits ==
  ASSUME RoleTypeInv, NEW c \in RoleCalls, CheckOwner(c)
  PROVE  /\ Moves(c) /\ Fits(task'[c], RoleDocs) /\ task[c].at = "check owner"
         /\ task'[c].at \in {"failed", "save"} /\ KeepsRest(c)
  <1>1. task[c].at = "check owner" /\ UNCHANGED <<beside, after>> /\ Fits(task[c], RoleDocs)
    BY HasFits DEF CheckOwner, Reads
  <1>2. PICK l \in {"failed", "save"} : GoTo(c, l)
    BY DEF CheckOwner
  <1>3. Moves(c) /\ task'[c].at = l /\ KeepsRest(c)
    BY <1>1, <1>2, GoMoves DEF RoleSteps, RoleEnds
  <1>4. Fits(task'[c], RoleDocs)
    BY <1>1, <1>3 DEF Fits, KindFits, CodeKey, Moves, SameAsk, KeepsRest
  <1> QED BY <1>1, <1>3, <1>4

LEMMA CheckRoleFits ==
  ASSUME RoleTypeInv, NEW c \in RoleCalls, CheckRole(c)
  PROVE  /\ Moves(c) /\ Fits(task'[c], RoleDocs) /\ KeepsRest(c) /\ task[c].at = "check role"
         /\ \/ task'[c].at = "failed"
            \/ /\ task'[c].at = "find role" /\ listed[task[c].space] # NoSpace
               /\ task[c].role \in listed[task[c].space]
  <1>1. task[c].at = "check role" /\ UNCHANGED <<beside, after>> /\ Fits(task[c], RoleDocs)
    BY HasFits DEF CheckRole, Reads
  <1>2. PICK l \in {"failed", "find role"} :
          GoTo(c, l) /\ (l = "find role" => listed[task[c].space] # NoSpace /\ ListedIn(task[c].space, task[c].role))
    BY DEF CheckRole
  <1>3. Moves(c) /\ task'[c].at = l /\ KeepsRest(c)
    BY <1>1, <1>2, GoMoves DEF RoleSteps, RoleEnds
  <1>4. Fits(task'[c], RoleDocs)
    BY <1>1, <1>3 DEF Fits, KindFits, CodeKey, Moves, SameAsk, KeepsRest
  <1>5. l = "find role" => listed[task[c].space] # NoSpace /\ task[c].role \in listed[task[c].space]
    BY <1>2 DEF ListedIn
  <1> QED BY <1>1, <1>3, <1>4, <1>5

LEMMA FindRoleFits ==
  ASSUME RoleTypeInv, NEW c \in RoleCalls, FindRole(c)
  PROVE  /\ Moves(c) /\ Fits(task'[c], RoleDocs) /\ KeepsRest(c)
         /\ task[c].at = "find role" /\ task'[c].at = "write role"
  <1>1. task[c].at = "find role" /\ UNCHANGED <<beside, after>> /\ Fits(task[c], RoleDocs) /\ GoTo(c, "write role")
    BY HasFits DEF FindRole, Reads
  <1>2. Moves(c) /\ task'[c].at = "write role" /\ KeepsRest(c)
    BY <1>1, GoMoves DEF RoleSteps, RoleEnds
  <1>3. Fits(task'[c], RoleDocs)
    BY <1>1, <1>2 DEF Fits, KindFits, CodeKey, Moves, SameAsk, KeepsRest
  <1> QED BY <1>1, <1>2, <1>3

LEMMA PopulateRolesFits ==
  ASSUME RoleTypeInv, NEW c \in RoleCalls, PopulateRoles(c)
  PROVE  /\ Moves(c) /\ Fits(task'[c], RoleDocs)
         /\ task'[c].at = "populate permissions" /\ task'[c].seen = task[c].seen
         /\ task'[c].todo = RefsOf(task[c].asked) /\ task[c].asked \subseteq RoleDocs
         /\ task[c].at = "populate roles"
  <1>1. /\ task[c].at = "populate roles" /\ UNCHANGED <<beside, after>> /\ Fits(task[c], RoleDocs)
        /\ task \in [RoleCalls -> TaskRec]
    BY HasFits DEF PopulateRoles, Reads, RoleTypeInv
  <1>2. task[c].asked = task[c].todo /\ task[c].asked \in SUBSET RoleDocs
    BY <1>1 DEF Fits
  <1>3. PICK l, x : /\ l = "populate permissions" /\ x = RefsOf(task[c].asked)
                    /\ SetsTodo(c, l, x)
    BY <1>2 DEF PopulateRoles, SetsTodo
  <1>4. x \in SUBSET Refs /\ x \in SUBSET Items
    BY <1>2, <1>3, RefsOfDocs DEF Items
  <1>5. l \in Places
    BY <1>3 DEF Places, RoleSteps
  <1>6. /\ OthersStay(c) /\ SameAsk(c) /\ task'[c].at = l /\ task'[c].todo = x
        /\ task'[c].role = task[c].role /\ task'[c].seen = task[c].seen
    <2>1. SetsTodo(c, l, x) /\ task \in [RoleCalls -> TaskRec]
      BY <1>1, <1>3
    <2> QED BY <2>1, <1>4, <1>5, SetTodo
  <1>7. Moves(c)
    BY <1>1, <1>3, <1>6 DEF Moves, RoleSteps
  <1>8. Fits(task'[c], RoleDocs)
    BY <1>1, <1>3, <1>4, <1>6 DEF Fits, KindFits, CodeKey, SameAsk
  <1> QED BY <1>1, <1>2, <1>3, <1>6, <1>7, <1>8

LEMMA PopulatePermissionsFits ==
  ASSUME RoleTypeInv, NEW c \in RoleCalls, PopulatePermissions(c)
  PROVE  /\ Moves(c) /\ Fits(task'[c], RoleDocs)
         /\ task'[c].at = "ok" /\ task'[c].seen = Populated(task[c].todo)
         /\ task[c].at = "populate permissions"
  <1>1. /\ task[c].at = "populate permissions" /\ UNCHANGED <<beside, after>> /\ Fits(task[c], RoleDocs)
        /\ task \in [RoleCalls -> TaskRec]
    BY HasFits DEF PopulatePermissions, Reads, RoleTypeInv
  <1>2. PICK l, x : l = "ok" /\ x = Populated(task[c].todo) /\ SetsSeen(c, l, x)
    BY DEF PopulatePermissions, SetsSeen
  <1>3. x \in SUBSET Refs
    BY <1>1, <1>2 DEF Populated, Fits
  <1>4. l \in Places
    BY <1>2 DEF Places, RoleEnds
  <1>5. /\ OthersStay(c) /\ SameAsk(c) /\ task'[c].at = l /\ task'[c].seen = x
        /\ task'[c].role = task[c].role
    BY <1>1, <1>2, <1>3, <1>4, SetSeen, ZenonT(40)
  <1>6. Moves(c)
    BY <1>1, <1>2, <1>5 DEF Moves, RoleSteps, RoleEnds
  <1> QED BY <1>1, <1>2, <1>3, <1>5, <1>6, FitsEnd DEF RoleEnds

LEMMA RefuseCallFits ==
  ASSUME RoleTypeInv, NEW c \in RoleCalls, RefuseCall(c)
  PROVE  /\ Moves(c) /\ Fits(task'[c], RoleDocs) /\ KeepsRest(c)
         /\ task'[c].at \in {"null", "failed"} /\ refusals' \in 0 .. MaxRefusals
  <1>1. GoTo(c, Lost(c)) /\ task[c].at \in RoleSteps /\ UNCHANGED <<beside, after>> /\ Refuse
    BY DEF RefuseCall
  <1>2. Lost(c) \in {"null", "failed"} /\ Lost(c) \in RoleEnds
    BY LostEnds
  <1>3. Moves(c) /\ task'[c].at \in {"null", "failed"} /\ task'[c].at \in RoleEnds /\ KeepsRest(c)
    BY <1>1, <1>2, GoMoves
  <1>4. refusals' \in 0 .. MaxRefusals
    BY <1>1, RoleAssumption DEF Refuse, RoleTypeInv
  <1> QED BY <1>3, <1>4, FitsEnd
-----------------------------------------------------------------------------
(* What a step writes.                                                     *)
SetsCode(p, k) == perms' = [perms EXCEPT ![p] = k]

SetsRefs(r, P) == roles' = [roles EXCEPT ![r] = P]

SetsList(w, R) == listed' = [listed EXCEPT ![w] = R]

LEMMA CodeSet ==
  ASSUME RoleTypeInv, NEW p \in PermIds, NEW k \in PermCodes \cup {GonePerm}, SetsCode(p, k)
  PROVE  /\ perms' \in [PermIds -> PermCodes \cup {NoPerm, GonePerm}]
         /\ perms'[p] = k /\ \A q \in PermIds \ {p} : perms'[q] = perms[q]
  BY DEF SetsCode, RoleTypeInv

LEMMA RefsSet ==
  ASSUME RoleTypeInv, NEW r \in RoleIds, NEW P \in SUBSET PermIds, SetsRefs(r, P)
  PROVE  /\ roles' \in [RoleIds -> (SUBSET PermIds) \cup {NoRole}]
         /\ roles'[r] = P /\ \A q \in RoleIds \ {r} : roles'[q] = roles[q]
         /\ RoleDocs' = RoleDocs \cup {r}
  <1>1. /\ roles' \in [RoleIds -> (SUBSET PermIds) \cup {NoRole}]
        /\ roles'[r] = P /\ \A q \in RoleIds \ {r} : roles'[q] = roles[q]
    BY DEF SetsRefs, RoleTypeInv
  <1>2. P # NoRole
    BY RoleAssumption
  <1> QED BY <1>1, <1>2 DEF RoleDocs

LEMMA ListSet ==
  ASSUME RoleTypeInv, NEW w \in Spaces, NEW R \in (SUBSET RoleIds) \cup {NoSpace}, SetsList(w, R)
  PROVE  /\ listed' \in [Spaces -> (SUBSET RoleIds) \cup {NoSpace}]
         /\ listed'[w] = R /\ \A v \in Spaces \ {w} : listed'[v] = listed[v]
  BY DEF SetsList, RoleTypeInv

LEMMA TypesCode ==
  ASSUME RoleTypeInv, NEW c \in RoleCalls, OthersStay(c), Fits(task'[c], RoleDocs),
         NEW p \in PermIds, NEW k \in PermCodes \cup {GonePerm}, SetsCode(p, k),
         UNCHANGED <<roles, listed, beside, after>>, refusals' \in 0 .. MaxRefusals
  PROVE  RoleTypeInv'
  <1>1. perms' \in [PermIds -> PermCodes \cup {NoPerm, GonePerm}]
    BY CodeSet
  <1>2. RoleDocs' = RoleDocs /\ Kept' = Kept
    BY DEF RoleDocs, Kept
  <1>3. Fits(task'[c], RoleDocs')
    BY <1>2
  <1>4. \A w \in Kept' : listed'[w] \subseteq RoleDocs'
    BY <1>2 DEF RoleTypeInv
  <1>5. /\ roles' \in [RoleIds -> (SUBSET PermIds) \cup {NoRole}]
        /\ listed' \in [Spaces -> (SUBSET RoleIds) \cup {NoSpace}]
        /\ Histories'
    BY HistoriesStay DEF RoleTypeInv
  <1> QED BY <1>1, <1>2, <1>3, <1>4, <1>5, RoleTypesFrom

LEMMA TypesRefs ==
  ASSUME RoleTypeInv, NEW c \in RoleCalls, OthersStay(c), Fits(task'[c], RoleDocs'),
         NEW r \in RoleIds, NEW P \in SUBSET PermIds, SetsRefs(r, P),
         UNCHANGED <<perms, listed, beside, after>>, refusals' \in 0 .. MaxRefusals
  PROVE  RoleTypeInv'
  <1>1. /\ roles' \in [RoleIds -> (SUBSET PermIds) \cup {NoRole}]
        /\ RoleDocs' = RoleDocs \cup {r}
    BY RefsSet
  <1>2. Kept' = Kept /\ RoleDocs \subseteq RoleDocs'
    BY <1>1 DEF Kept
  <1>3. \A w \in Kept' : listed'[w] \subseteq RoleDocs'
    BY <1>2 DEF RoleTypeInv
  <1>4. /\ perms' \in [PermIds -> PermCodes \cup {NoPerm, GonePerm}]
        /\ listed' \in [Spaces -> (SUBSET RoleIds) \cup {NoSpace}]
        /\ Histories'
    BY HistoriesStay DEF RoleTypeInv
  <1> QED BY <1>1, <1>2, <1>3, <1>4, RoleTypesFrom

LEMMA TypesList ==
  ASSUME RoleTypeInv, NEW c \in RoleCalls, OthersStay(c), Fits(task'[c], RoleDocs),
         NEW w \in Spaces, NEW R, SetsList(w, R), R = NoSpace \/ R \in SUBSET RoleDocs,
         UNCHANGED <<perms, roles>>, Histories', refusals' \in 0 .. MaxRefusals
  PROVE  RoleTypeInv'
  <1>1. R \in (SUBSET RoleIds) \cup {NoSpace}
    BY DEF RoleDocs
  <1>2. /\ listed' \in [Spaces -> (SUBSET RoleIds) \cup {NoSpace}]
        /\ listed'[w] = R /\ \A v \in Spaces \ {w} : listed'[v] = listed[v]
    BY <1>1, ListSet
  <1>3. RoleDocs' = RoleDocs
    BY DEF RoleDocs
  <1>4. \A v \in Kept' : listed'[v] \subseteq RoleDocs'
    BY <1>2, <1>3 DEF RoleTypeInv, Kept
  <1>5. Fits(task'[c], RoleDocs')
    BY <1>3
  <1>6. /\ perms' \in [PermIds -> PermCodes \cup {NoPerm, GonePerm}]
        /\ roles' \in [RoleIds -> (SUBSET PermIds) \cup {NoRole}]
    BY DEF RoleTypeInv
  <1> QED BY <1>2, <1>3, <1>4, <1>5, <1>6, RoleTypesFrom
-----------------------------------------------------------------------------
(* The steps that write.                                                   *)
Ended(c) ==
  /\ Moves(c) /\ KeepsRest(c) /\ refusals' \in 0 .. MaxRefusals
  /\ task'[c].at \in {"ok", "null", "failed"} /\ Fits(task'[c], RoleDocs)

LEMMA WrittenEnds ==
  ASSUME RoleTypeInv, NEW c \in RoleCalls, Written(c, "ok"), task[c].at \in RoleSteps, UNCHANGED <<beside, after>>
  PROVE  Ended(c)
  <1>1. "ok" \in RoleSteps \cup RoleEnds
    BY DEF RoleEnds
  <1>2. /\ Moves(c) /\ KeepsRest(c) /\ task'[c].at \in {"ok", "null", "failed"}
        /\ refusals' \in 0 .. MaxRefusals
    BY <1>1, WrittenMoves
  <1>3. task'[c].at \in RoleEnds
    BY <1>2 DEF RoleEnds
  <1> QED BY <1>2, <1>3, FitsEnd DEF Ended

LEMMA CreatePermissionShape ==
  ASSUME RoleTypeInv, NEW c \in RoleCalls, CreatePermission(c)
  PROVE  /\ Ended(c) /\ task[c].at = "write permission" /\ task[c].kind = "create permission"
         /\ CodeIn(c) \in PermCodes /\ UNCHANGED <<roles, listed, beside, after>>
         /\ \E p \in PermIds : perms[p] = NoPerm /\ SetsCode(p, CodeIn(c))
  <1>1. /\ task[c].at = "write permission" /\ task[c].kind = "create permission"
        /\ Written(c, "ok") /\ UNCHANGED <<roles, listed, beside, after>>
        /\ \E p \in PermIds : perms[p] = NoPerm /\ SetsCode(p, CodeIn(c))
    BY DEF CreatePermission, SetsCode
  <1>2. CodeIn(c) \in PermCodes
    BY <1>1, HasFits DEF Fits, CodeKey, CodeIn
  <1> QED BY <1>1, <1>2, WrittenEnds DEF RoleSteps

LEMMA UpdatePermissionShape ==
  ASSUME RoleTypeInv, NEW c \in RoleCalls, UpdatePermission(c)
  PROVE  /\ Ended(c) /\ task[c].at = "write permission" /\ task[c].kind = "update permission"
         /\ CodeIn(c) \in PermCodes /\ task[c].perm \in PermIds /\ UNCHANGED <<roles, listed, beside, after>>
         /\ \/ Exists(task[c].perm) /\ SetsCode(task[c].perm, CodeIn(c))
            \/ UNCHANGED perms
  <1>1. /\ task[c].at = "write permission" /\ task[c].kind = "update permission"
        /\ Written(c, "ok") /\ UNCHANGED <<roles, listed, beside, after>>
        /\ \/ Exists(task[c].perm) /\ SetsCode(task[c].perm, CodeIn(c))
           \/ UNCHANGED perms
    BY DEF UpdatePermission, SetCode, SetsCode
  <1>2. CodeIn(c) \in PermCodes /\ task[c].perm \in PermIds
    BY <1>1, HasFits DEF Fits, CodeKey, CodeIn
  <1> QED BY <1>1, <1>2, WrittenEnds DEF RoleSteps

(* One of the updates of Promise.all is done.                              *)
Settled(c, x) ==
  /\ Moves(c) /\ task'[c].at = task[c].at /\ task'[c].todo = task[c].todo \ {x}
  /\ task'[c].role = task[c].role /\ task'[c].seen = task[c].seen /\ refusals' \in 0 .. MaxRefusals

LEMMA SettleShape ==
  ASSUME RoleTypeInv, NEW c \in RoleCalls, NEW x, task[c].at \in RoleSteps, UNCHANGED <<beside, after>>,
         \/ Drops(c, x) /\ UNCHANGED refusals
         \/ DropsBad(c, x) /\ Refuse
  PROVE  /\ Settled(c, x)
         /\ Drops(c, x) => task'[c].bad = task[c].bad
         /\ DropsBad(c, x) => task'[c].bad = TRUE
  <1>1. task \in [RoleCalls -> TaskRec] /\ refusals \in 0 .. MaxRefusals
    BY DEF RoleTypeInv
  <1>2. CASE Drops(c, x) /\ UNCHANGED refusals
    <2>1. Settled(c, x)
      BY <1>1, <1>2, SetSettled DEF Settled, Moves
    <2>2. Drops(c, x) => task'[c].bad = task[c].bad
      BY <1>1, SetSettled
    <2>3. DropsBad(c, x) => task'[c].bad = TRUE
      BY <1>1, SetBad
    <2> QED BY <2>1, <2>2, <2>3
  <1>3. CASE Refuse /\ DropsBad(c, x)
    <2>1. refusals' \in 0 .. MaxRefusals
      BY <1>1, <1>3, RoleAssumption DEF Refuse
    <2>2. Settled(c, x)
      BY <1>1, <1>3, <2>1, SetBad DEF Settled, Moves
    <2>3. Drops(c, x) => task'[c].bad = task[c].bad
      BY <1>1, SetSettled
    <2>4. DropsBad(c, x) => task'[c].bad = TRUE
      BY <1>1, SetBad
    <2> QED BY <2>2, <2>3, <2>4
  <1> QED BY <1>2, <1>3

LEMMA WriteOneShape ==
  ASSUME RoleTypeInv, NEW c \in RoleCalls, WriteOnePermission(c)
  PROVE  /\ Moves(c) /\ Fits(task'[c], RoleDocs) /\ task'[c].at = "write permissions"
         /\ task[c].at = "write permissions" /\ task[c].kind = "update permissions"
         /\ task'[c].role = task[c].role /\ task'[c].seen = task[c].seen
         /\ UNCHANGED <<roles, listed, beside, after>> /\ refusals' \in 0 .. MaxRefusals
         /\ \E p \in DOMAIN task[c].codes :
              /\ p \in PermIds /\ task[c].codes[p] \in PermCodes
              /\ \/ Exists(p) /\ SetsCode(p, task[c].codes[p])
                 \/ UNCHANGED perms
  <1>1. /\ task[c].at = "write permissions" /\ UNCHANGED <<roles, listed, beside, after>>
        /\ Fits(task[c], RoleDocs) /\ task[c].at \in RoleSteps
    BY HasFits DEF WriteOnePermission, RoleSteps
  <1>2. PICK p \in task[c].todo :
          /\ SetCode(p, task[c].codes[p]) \/ UNCHANGED perms
          /\ \/ Drops(c, p) /\ UNCHANGED refusals
             \/ DropsBad(c, p) /\ Refuse
    BY DEF WriteOnePermission, Settle, Drops, DropsBad
  <1>3. Settled(c, p)
    BY <1>1, <1>2, SettleShape
  <1>4. p \in DOMAIN task[c].codes /\ p \in PermIds /\ task[c].codes[p] \in PermCodes
    BY <1>1 DEF Fits
  <1>5. \/ Exists(p) /\ SetsCode(p, task[c].codes[p])
        \/ UNCHANGED perms
    BY <1>2 DEF SetCode, SetsCode
  <1>6. Fits(task'[c], RoleDocs)
    BY <1>1, <1>3 DEF Fits, KindFits, CodeKey, Settled, Moves, SameAsk
  <1>7. task[c].kind = "update permissions"
    BY <1>1 DEF Fits, KindFits
  <1> QED BY <1>1, <1>3, <1>4, <1>5, <1>6, <1>7 DEF Settled

LEMMA PullOneShape ==
  ASSUME RoleTypeInv, NEW c \in RoleCalls, PullOne(c)
  PROVE  /\ Moves(c) /\ Fits(task'[c], RoleDocs) /\ task'[c].at = "pull"
         /\ task[c].at = "pull" /\ task[c].kind = "delete permission" /\ task[c].perm \in PermIds
         /\ task'[c].seen = task[c].seen
         /\ UNCHANGED <<perms, listed, beside, after>> /\ refusals' \in 0 .. MaxRefusals
         /\ \E r \in RoleDocs :
              /\ task'[c].todo = task[c].todo \ {r}
              /\ \/ SetsRefs(r, roles[r] \ {task[c].perm}) /\ task'[c].bad \in {task[c].bad, TRUE}
                 \/ UNCHANGED roles /\ task'[c].bad = TRUE
  <1>1. /\ task[c].at = "pull" /\ UNCHANGED <<perms, listed, beside, after>>
        /\ Fits(task[c], RoleDocs) /\ task[c].at \in RoleSteps
    BY HasFits DEF PullOne, RoleSteps
  <1>2. PICK r \in task[c].todo :
          \/ SetsRefs(r, roles[r] \ {task[c].perm}) /\ Drops(c, r) /\ UNCHANGED refusals
          \/ SetsRefs(r, roles[r] \ {task[c].perm}) /\ DropsBad(c, r) /\ Refuse
          \/ UNCHANGED roles /\ DropsBad(c, r) /\ Refuse
    BY DEF PullOne, Settle, Drops, DropsBad, SetsRefs
  <1>3. Settled(c, r)
    BY <1>1, <1>2, SettleShape
  <1>4. r \in RoleDocs /\ task[c].kind = "delete permission" /\ task[c].perm \in PermIds
    BY <1>1 DEF Fits, KindFits
  <1>5. \/ SetsRefs(r, roles[r] \ {task[c].perm}) /\ task'[c].bad \in {task[c].bad, TRUE}
        \/ UNCHANGED roles /\ task'[c].bad = TRUE
    BY <1>1, <1>2, SettleShape
  <1>6. Fits(task'[c], RoleDocs)
    BY <1>1, <1>3, <1>4 DEF Fits, KindFits, CodeKey, Settled, Moves, SameAsk
  <1> QED BY <1>1, <1>3, <1>4, <1>5, <1>6 DEF Settled

LEMMA DeletePermissionShape ==
  ASSUME RoleTypeInv, NEW c \in RoleCalls, DeletePermission(c)
  PROVE  /\ Ended(c) /\ task[c].at = "delete permission" /\ task[c].kind = "delete permission"
         /\ task[c].perm \in PermIds /\ SetsCode(task[c].perm, GonePerm) /\ UNCHANGED <<roles, listed, beside, after>>
  <1>1. /\ task[c].at = "delete permission" /\ Written(c, "ok") /\ UNCHANGED <<roles, listed, beside, after>>
        /\ SetsCode(task[c].perm, GonePerm)
    BY DEF DeletePermission, SetsCode
  <1>2. task[c].kind = "delete permission" /\ task[c].perm \in PermIds
    BY <1>1, HasFits DEF Fits, KindFits
  <1> QED BY <1>1, <1>2, WrittenEnds DEF RoleSteps

LEMMA SaveRoleShape ==
  ASSUME RoleTypeInv, NEW c \in RoleCalls, NEW l \in {"ok", "add to space"}, SaveRole(c, l),
         task[c].at \in {"save role", "save"}, l = "add to space" => task[c].at = "save"
  PROVE  /\ Moves(c) /\ task'[c].at \in {l, "failed"} /\ task'[c].seen = task[c].seen
         /\ UNCHANGED <<perms, listed, beside, after>> /\ refusals' \in 0 .. MaxRefusals
         /\ \E r \in RoleIds : roles[r] = NoRole /\ SetsRefs(r, task[c].body) /\ task'[c].role = r
         /\ Fits(task'[c], RoleDocs')
  <1>1. PICK r \in RoleIds :
          /\ roles[r] = NoRole /\ SetsRefs(r, task[c].body) /\ UNCHANGED <<perms, listed, beside, after>>
          /\ \/ SetsRole(c, l, r) /\ UNCHANGED refusals
             \/ SetsRole(c, "failed", r) /\ Refuse
    BY DEF SaveRole, SetsRefs, SetsRole
  <1>2. PICK m \in {l, "failed"} : SetsRole(c, m, r)
    BY <1>1
  <1>3. refusals' \in 0 .. MaxRefusals
    BY <1>1, RefusalsStay, Zenon
  <1>4. Fits(task[c], RoleDocs) /\ task \in [RoleCalls -> TaskRec] /\ m \in Places
    BY HasFits DEF RoleTypeInv, Places, RoleSteps, RoleEnds
  <1>5. /\ OthersStay(c) /\ SameAsk(c) /\ task'[c].at = m /\ task'[c].role = r
        /\ task'[c].todo = task[c].todo /\ task'[c].seen = task[c].seen
    BY <1>2, <1>4, SetRole
  <1>6. Moves(c)
    <2>1. task[c].role \notin RoleIds
      BY <1>4, RoleAssumption DEF Fits
    <2> QED BY <1>1, <1>2, <1>5, <2>1 DEF Moves, RoleSteps, RoleEnds
  <1>7. r \in RoleDocs'
    <2>1. task[c].body \in SUBSET PermIds
      BY HasFits
    <2> QED BY <1>1, <2>1, RefsSet
  <1>8. Fits(task'[c], RoleDocs')
    BY <1>4, <1>5, <1>7 DEF Fits, KindFits, CodeKey, SameAsk
  <1> QED BY <1>1, <1>2, <1>3, <1>5, <1>6, <1>8

LEMMA AddToWorkspaceShape ==
  ASSUME RoleTypeInv, NEW c \in RoleCalls, AddToWorkspace(c)
  PROVE  /\ Ended(c) /\ task[c].at = "add to space" /\ task[c].kind = "create space role"
         /\ task[c].space \in Spaces /\ task[c].role \in RoleDocs /\ UNCHANGED <<perms, roles, beside, after>>
         /\ \/ /\ task[c].space \in Kept
               /\ SetsList(task[c].space, listed[task[c].space] \cup {task[c].role})
            \/ task[c].space \notin Kept /\ UNCHANGED listed
  <1>1. /\ task[c].at = "add to space" /\ Written(c, "ok") /\ UNCHANGED <<perms, roles, beside, after>>
        /\ listed' = AddedTo(task[c].space, task[c].role)
    BY DEF AddToWorkspace
  <1>2. task[c].space \in Spaces /\ task[c].role \in RoleDocs /\ task[c].kind = "create space role"
    BY <1>1, HasFits DEF Fits, KindFits
  <1>3. \/ /\ task[c].space \in Kept
           /\ SetsList(task[c].space, listed[task[c].space] \cup {task[c].role})
        \/ task[c].space \notin Kept /\ UNCHANGED listed
    BY <1>1, <1>2 DEF AddedTo, SetsList, Kept
  <1> QED BY <1>1, <1>2, <1>3, WrittenEnds DEF RoleSteps

LEMMA UpdateRoleShape ==
  ASSUME RoleTypeInv, NEW c \in RoleCalls, UpdateRoleDetail(c)
  PROVE  /\ Ended(c) /\ task[c].at = "write role" /\ task[c].role \in RoleDocs
         /\ SetsRefs(task[c].role, task[c].body) /\ UNCHANGED <<perms, listed, beside, after>>
         /\ Fits(task'[c], RoleDocs')
  <1>1. /\ task[c].at = "write role" /\ Written(c, "ok") /\ UNCHANGED <<perms, listed, beside, after>>
        /\ SetsRefs(task[c].role, task[c].body)
    BY DEF UpdateRoleDetail, SetsRefs, Updated
  <1>2. task[c].role \in RoleDocs /\ task[c].body \in SUBSET PermIds
    BY <1>1, HasFits DEF Fits
  <1>3. Ended(c)
    BY <1>1, WrittenEnds DEF RoleSteps
  <1>4. RoleDocs \subseteq RoleDocs'
    <2>1. task[c].role \in RoleIds
      BY <1>2 DEF RoleDocs
    <2>2. RoleDocs' = RoleDocs \cup {task[c].role}
      BY <1>1, <1>2, <2>1, RefsSet
    <2> QED BY <2>2
  <1>5. Fits(task'[c], RoleDocs')
    BY <1>3, <1>4, FitsGrows DEF Ended
  <1> QED BY <1>1, <1>2, <1>3, <1>5

(* A request that is done in its first step: nothing is known to run       *)
(* between.                                                                *)
Leaps(c) ==
  /\ OthersStay(c) /\ SameRest(c) /\ task[c].at = "ready" /\ task'[c].at \in {"ok", "null"}
  /\ task[c].kind # "show"
  /\ task'[c].space \in Kept /\ Fits(task'[c], RoleDocs)
  /\ Meets(c) /\ refusals' \in 0 .. MaxRefusals /\ UNCHANGED <<perms, roles>>

LEMMA DeleteRoleShape ==
  ASSUME RoleTypeInv, NEW c \in RoleCalls, DeleteWorkspaceRole(c)
  PROVE  /\ Leaps(c) /\ task[c].kind = "delete space role"
         /\ task'[c].role \in RoleDocs
         /\ SetsList(task'[c].space, listed[task'[c].space] \ {task'[c].role})
  <1>1. /\ task[c].kind = "delete space role" /\ task[c].at = "ready"
        /\ Meets(c) /\ UNCHANGED <<perms, roles>>
    BY DEF DeleteWorkspaceRole
  <1>2. PICK w \in Kept, r \in RoleDocs, l \in {"ok", "null"} :
          /\ SetsList(w, listed[w] \ {r}) /\ SetsPlace(c, w, r, l)
          /\ IF l = "ok" THEN UNCHANGED refusals ELSE Refuse
    BY DEF DeleteWorkspaceRole, SetsList, SetsPlace
  <1>3. refusals' \in 0 .. MaxRefusals
    BY <1>2, RefusalsStay
  <1>4. l \in Places /\ w \in Spaces /\ r \in RoleIds /\ task \in [RoleCalls -> TaskRec]
    BY DEF Places, RoleEnds, Kept, RoleDocs, RoleTypeInv
  <1>5. OthersStay(c) /\ SameRest(c) /\ task'[c].at = l /\ task'[c].space = w /\ task'[c].role = r
    BY <1>2, <1>4, SetPlace
  <1>6. Fits(task'[c], RoleDocs)
    BY <1>1, <1>5, HasFits DEF Fits, KindFits, CodeKey, SameRest
  <1> QED BY <1>1, <1>2, <1>3, <1>5, <1>6 DEF Leaps

LEMMA DropWorkspaceShape ==
  ASSUME RoleTypeInv, NEW c \in RoleCalls, DropWorkspace(c)
  PROVE  /\ Leaps(c) /\ task[c].kind = "delete space"
         /\ SetsList(task'[c].space, NoSpace)
  <1>1. /\ task[c].kind = "delete space" /\ task[c].at = "ready" /\ UNCHANGED <<perms, roles, refusals>>
        /\ Meets(c)
    BY DEF DropWorkspace
  <1>2. PICK w \in Kept : SetsList(w, NoSpace) /\ SetsSpace(c, w, "ok")
    BY DEF DropWorkspace, SetsList, SetsSpace
  <1>3. "ok" \in Places /\ w \in Spaces /\ task \in [RoleCalls -> TaskRec] /\ refusals \in 0 .. MaxRefusals
    BY DEF Places, RoleEnds, Kept, RoleTypeInv
  <1>4. OthersStay(c) /\ SameRest(c) /\ task'[c].at = "ok" /\ task'[c].space = w
    BY <1>2, <1>3, SetSpace
  <1>5. Fits(task'[c], RoleDocs)
    BY <1>1, <1>4, HasFits DEF Fits, KindFits, CodeKey, SameRest
  <1> QED BY <1>1, <1>2, <1>3, <1>4, <1>5 DEF Leaps
-----------------------------------------------------------------------------
(* The type invariant is kept.                                             *)
ReadSteps(c) ==
  \/ LookCode(c) \/ FindPermission(c) \/ FindPermissions(c) \/ MassiveUpdatePermissions(c)
  \/ ListHolders(c) \/ PullsEnd(c) \/ CheckOwner(c) \/ CheckRole(c) \/ FindRole(c)
  \/ PopulateRoles(c) \/ PopulatePermissions(c)

LEMMA ReadStepsFit ==
  ASSUME RoleTypeInv, NEW c \in RoleCalls, ReadSteps(c)
  PROVE  /\ Moves(c) /\ Fits(task'[c], RoleDocs)
         /\ UNCHANGED <<perms, roles, listed, beside, after, refusals>>
  <1>1. UNCHANGED <<perms, roles, listed, beside, after, refusals>>
    BY DEF ReadSteps, Reads, LookCode, FindPermission, FindPermissions, MassiveUpdatePermissions,
           ListHolders, PullsEnd, CheckOwner, CheckRole, FindRole, PopulateRoles, PopulatePermissions
  <1>2. Moves(c) /\ Fits(task'[c], RoleDocs)
    BY ZenonT(40), LookCodeFits, FindPermissionFits, FindPermissionsFits, UpdatesEndFits, ListHoldersFits,
       PullsEndFits, CheckOwnerFits, CheckRoleFits, FindRoleFits, PopulateRolesFits,
       PopulatePermissionsFits DEF ReadSteps
  <1> QED BY <1>1, <1>2

WriteSteps(c) ==
  \/ CreatePermission(c) \/ UpdatePermission(c) \/ WriteOnePermission(c) \/ PullOne(c)
  \/ DeletePermission(c) \/ CreateRole(c) \/ CreateWorkspaceRole(c) \/ AddToWorkspace(c)
  \/ UpdateRoleDetail(c) \/ DeleteWorkspaceRole(c) \/ DropWorkspace(c)

LEMMA StepIs ==
  ASSUME RoleNext
  PROVE  \E c \in RoleCalls : Asks(c) \/ ReadSteps(c) \/ WriteSteps(c) \/ RefuseCall(c)
  BY DEF RoleNext, PermissionCall, RoleCall, ShowCall, Asks, Shows, ReadSteps, WriteSteps

LEMMA TypeAsks ==
  ASSUME RoleTypeInv, NEW c \in RoleCalls, Arrives(c) \/ Leaps(c)
  PROVE  Histories' /\ refusals' \in 0 .. MaxRefusals
  <1>1. InFlightCalls \subseteq RoleCalls
    BY DEF InFlightCalls
  <1>2. Meets(c)
    BY DEF Arrives, Leaps
  <1>3. refusals' \in 0 .. MaxRefusals
    BY DEF Arrives, Leaps, RoleTypeInv
  <1> QED BY <1>1, <1>2, <1>3 DEF RoleTypeInv, Histories, Meets

LEMMA TypeWrites ==
  ASSUME RoleTypeInv, NEW c \in RoleCalls, WriteSteps(c)
  PROVE  RoleTypeInv'
  <1>0. Moves(c) => Histories'
    BY HistoriesStay DEF Moves, RoleTypeInv
  <1>1. CASE CreatePermission(c)
    <2>1. PICK p \in PermIds : SetsCode(p, CodeIn(c))
      BY <1>1, CreatePermissionShape
    <2> QED BY <1>1, <2>1, CreatePermissionShape, TypesCode DEF Ended, Moves
  <1>2. CASE UpdatePermission(c)
    <2>1. CASE SetsCode(task[c].perm, CodeIn(c))
      BY <1>2, <2>1, UpdatePermissionShape, TypesCode DEF Ended, Moves
    <2>2. CASE UNCHANGED perms
      BY <1>0, <1>2, <2>2, UpdatePermissionShape, TypesRead DEF Ended, Moves
    <2> QED BY <1>2, <2>1, <2>2, UpdatePermissionShape
  <1>3. CASE WriteOnePermission(c)
    <2>1. PICK p \in DOMAIN task[c].codes :
            /\ p \in PermIds /\ task[c].codes[p] \in PermCodes
            /\ SetsCode(p, task[c].codes[p]) \/ UNCHANGED perms
      BY <1>3, WriteOneShape
    <2>2. CASE SetsCode(p, task[c].codes[p])
      BY <1>3, <2>1, <2>2, WriteOneShape, TypesCode DEF Moves
    <2>3. CASE UNCHANGED perms
      BY <1>0, <1>3, <2>3, WriteOneShape, TypesRead DEF Moves
    <2> QED BY <2>1, <2>2, <2>3
  <1>4. CASE PullOne(c)
    <2>1. PICK r \in RoleDocs : SetsRefs(r, roles[r] \ {task[c].perm}) \/ UNCHANGED roles
      BY <1>4, PullOneShape
    <2>2. CASE SetsRefs(r, roles[r] \ {task[c].perm})
      <3>1. r \in RoleIds /\ roles[r] \ {task[c].perm} \in SUBSET PermIds
        BY DEF RoleDocs, RoleTypeInv
      <3>2. RoleDocs \subseteq RoleDocs'
        BY <2>2, <3>1, RefsSet
      <3>3. Fits(task'[c], RoleDocs')
        BY <1>4, <3>2, PullOneShape, FitsGrows
      <3> QED BY <1>4, <2>2, <3>1, <3>3, PullOneShape, TypesRefs DEF Moves
    <2>3. CASE UNCHANGED roles
      BY <1>0, <1>4, <2>3, PullOneShape, TypesRead DEF Moves
    <2> QED BY <2>1, <2>2, <2>3
  <1>5. CASE DeletePermission(c)
    BY <1>5, DeletePermissionShape, TypesCode DEF Ended, Moves
  <1>6. CASE CreateRole(c) \/ CreateWorkspaceRole(c)
    <2>1. PICK l \in {"ok", "add to space"} :
            /\ SaveRole(c, l) /\ task[c].at \in {"save role", "save"}
            /\ l = "add to space" => task[c].at = "save"
      BY <1>6 DEF CreateRole, CreateWorkspaceRole
    <2>2. PICK r \in RoleIds : SetsRefs(r, task[c].body) /\ Fits(task'[c], RoleDocs')
      BY <2>1, SaveRoleShape
    <2>3. task[c].body \in SUBSET PermIds
      BY HasFits
    <2>4. Moves(c) /\ UNCHANGED <<perms, listed, beside, after>> /\ refusals' \in 0 .. MaxRefusals
      BY <2>1, SaveRoleShape
    <2> QED BY <2>2, <2>3, <2>4, TypesRefs DEF Moves
  <1>7. CASE AddToWorkspace(c)
    <2>2. CASE UNCHANGED listed
      BY <1>0, <1>7, <2>2, AddToWorkspaceShape, TypesRead DEF Ended, Moves
    <2>3. CASE /\ task[c].space \in Kept
               /\ SetsList(task[c].space, listed[task[c].space] \cup {task[c].role})
      <3>1. listed[task[c].space] \cup {task[c].role} \in SUBSET RoleDocs
        BY <1>7, <2>3, AddToWorkspaceShape DEF RoleTypeInv
      <3> QED BY <1>0, <1>7, <2>3, <3>1, AddToWorkspaceShape, TypesList DEF Ended, Moves
    <2> QED BY <1>7, <2>2, <2>3, AddToWorkspaceShape
  <1>8. CASE UpdateRoleDetail(c)
    <2>1. task[c].role \in RoleIds /\ task[c].body \in SUBSET PermIds
      BY <1>8, UpdateRoleShape, HasFits DEF RoleDocs
    <2> QED BY <1>8, <2>1, UpdateRoleShape, TypesRefs DEF Ended, Moves
  <1>9. CASE DeleteWorkspaceRole(c)
    <2>1. task'[c].space \in Spaces /\ listed[task'[c].space] \ {task'[c].role} \in SUBSET RoleDocs
      BY <1>9, DeleteRoleShape DEF Leaps, Kept, RoleTypeInv
    <2> QED BY <1>9, <2>1, DeleteRoleShape, TypeAsks, TypesList DEF Leaps
  <1>10. CASE DropWorkspace(c)
    <2>1. task'[c].space \in Spaces
      BY <1>10, DropWorkspaceShape DEF Leaps, Kept
    <2> QED BY <1>10, <2>1, DropWorkspaceShape, TypeAsks, TypesList DEF Leaps
  <1> QED BY <1>1, <1>2, <1>3, <1>4, <1>5, <1>6, <1>7, <1>8, <1>9, <1>10 DEF WriteSteps

LEMMA RoleTypeStep ==
  ASSUME RoleTypeInv, [RoleNext]_roleVars PROVE RoleTypeInv'
  <1>1. CASE UNCHANGED roleVars
    <2>1. RoleDocs' = RoleDocs /\ Kept' = Kept /\ Histories'
      BY <1>1, HistoriesStay DEF roleVars, RoleDocs, Kept, RoleTypeInv
    <2> QED BY <1>1, <2>1 DEF roleVars, RoleTypeInv
  <1>2. ASSUME NEW c \in RoleCalls, Asks(c) \/ ReadSteps(c) \/ WriteSteps(c) \/ RefuseCall(c)
        PROVE  RoleTypeInv'
    <2>1. CASE Asks(c)
      <3>1. Arrives(c)
        BY <2>1, AsksArrive
      <3> QED BY <3>1, TypeAsks, TypesRead DEF Arrives
    <2>2. CASE ReadSteps(c)
      <3>1. Histories' /\ refusals' \in 0 .. MaxRefusals
        BY <2>2, ReadStepsFit, HistoriesStay DEF RoleTypeInv
      <3> QED BY <2>2, <3>1, ReadStepsFit, TypesRead DEF Moves
    <2>3. CASE WriteSteps(c)
      BY <2>3, TypeWrites
    <2>4. CASE RefuseCall(c)
      <3>1. UNCHANGED <<perms, roles, listed, beside, after>> /\ Histories'
        BY <2>4, HistoriesStay DEF RefuseCall, RoleTypeInv
      <3> QED BY <2>4, <3>1, RefuseCallFits, TypesRead DEF Moves
    <2> QED BY <1>2, <2>1, <2>2, <2>3, <2>4
  <1> QED BY <1>1, <1>2, StepIs

LEMMA TypesKept == RoleSpec => []RoleTypeInv
  BY TypeStart, RoleTypeStep, PTL DEF RoleSpec

(* Whatever is asked, in any order and with any calls failing, the data of *)
(* permissions, roles and workspaces keeps its type.                       *)
THEOREM RoleTypesCorrect == RoleSpec => []RoleTypeOK
  BY TypesKept, RoleTypeImplies, PTL
-----------------------------------------------------------------------------
(* A step is of one request, which arrives, moves on or is done at once.   *)
RoleMoves(c) == Arrives(c) \/ Moves(c) \/ Leaps(c)

LEMMA WritesMove ==
  ASSUME RoleTypeInv, NEW c \in RoleCalls, WriteSteps(c)
  PROVE  Moves(c) \/ Leaps(c)
  <1>1. CASE CreateRole(c) \/ CreateWorkspaceRole(c)
    <2>1. PICK l \in {"ok", "add to space"} :
            /\ SaveRole(c, l) /\ task[c].at \in {"save role", "save"}
            /\ l = "add to space" => task[c].at = "save"
      BY <1>1 DEF CreateRole, CreateWorkspaceRole
    <2> QED BY <2>1, SaveRoleShape
  <1>2. CASE ~(CreateRole(c) \/ CreateWorkspaceRole(c))
    BY <1>2, CreatePermissionShape, UpdatePermissionShape, WriteOneShape, PullOneShape,
       DeletePermissionShape, AddToWorkspaceShape, UpdateRoleShape, DeleteRoleShape,
       DropWorkspaceShape DEF WriteSteps, Ended
  <1> QED BY <1>1, <1>2

LEMMA StepShapes ==
  ASSUME RoleTypeInv, NEW c \in RoleCalls, Asks(c) \/ ReadSteps(c) \/ WriteSteps(c) \/ RefuseCall(c)
  PROVE  RoleMoves(c)
  BY AsksArrive, ReadStepsFit, WritesMove, RefuseCallFits DEF RoleMoves

(* What was asked stays as it was asked.                                   *)
Lasts(d) ==
  /\ task'[d].kind = task[d].kind
  /\ task[d].at # "ready" =>
       /\ task'[d].at # "ready" /\ task'[d].perm = task[d].perm /\ task'[d].space = task[d].space
       /\ task'[d].codes = task[d].codes /\ task'[d].body = task[d].body
       /\ task'[d].asked = task[d].asked /\ task'[d].live = task[d].live
       /\ task[d].role \in RoleIds => task'[d].role = task[d].role

LEMMA AskedLasts ==
  ASSUME RoleTypeInv, NEW c \in RoleCalls, RoleMoves(c)
  PROVE  /\ beside \subseteq beside' /\ \A d \in RoleCalls : Lasts(d)
         /\ \A d \in RoleCalls \ {c} : task'[d] = task[d]
  <1>1. beside \subseteq beside'
    BY DEF RoleMoves, Arrives, Moves, Leaps, Meets
  <1>2. \A d \in RoleCalls \ {c} : task'[d] = task[d]
    BY DEF RoleMoves, Arrives, Moves, Leaps, OthersStay
  <1>3. CASE Arrives(c) \/ Leaps(c)
    <2>1. task'[c].kind = task[c].kind /\ task[c].at = "ready"
      BY <1>3 DEF Arrives, Leaps, SameRest
    <2> QED BY <1>1, <1>2, <2>1 DEF Lasts
  <1>4. CASE Moves(c)
    <2>1. /\ SameAsk(c) /\ task'[c].at # "ready"
          /\ task[c].role \in RoleIds => task'[c].role = task[c].role
      BY <1>4, PlacesApart DEF Moves
    <2> QED BY <1>1, <1>2, <2>1 DEF Lasts, SameAsk
  <1> QED BY <1>3, <1>4 DEF RoleMoves

BesideInv ==
  /\ \A c, d \in InFlightCalls : c # d => <<c, d>> \in beside
  /\ \A c, d \in RoleCalls : <<c, d>> \in beside => task[c].at # "ready" /\ task[d].at # "ready"

LEMMA BesideStart == RoleInit => BesideInv
  <1> SUFFICES ASSUME RoleInit PROVE BesideInv
    OBVIOUS
  <1>1. \A c \in RoleCalls : task[c].at = "ready"
    BY DEF RoleInit, Request
  <1>2. InFlightCalls = {} /\ beside = {}
    BY <1>1, PlacesApart DEF InFlightCalls, RoleInit
  <1> QED BY <1>2 DEF BesideInv

LEMMA BesideStep ==
  ASSUME RoleTypeInv, BesideInv, NEW c \in RoleCalls, RoleMoves(c)
  PROVE  BesideInv'
  <1>1. \A d \in RoleCalls \ {c} : task'[d] = task[d]
    BY DEF RoleMoves, Arrives, Moves, Leaps, OthersStay
  <1>2. \A d \in RoleCalls \ {c} : d \in InFlightCalls' <=> d \in InFlightCalls
    BY <1>1 DEF InFlightCalls
  <1>3. CASE Arrives(c) \/ Leaps(c)
    <2>1. beside' = beside \cup ({c} \X InFlightCalls) \cup (InFlightCalls \X {c})
      BY <1>3 DEF Arrives, Leaps, Meets
    <2>2. task'[c].at # "ready" /\ c \notin InFlightCalls
      BY <1>3, PlacesApart DEF Arrives, Leaps, FirstSteps, InFlightCalls
    <2>3. \A d \in InFlightCalls : task[d].at # "ready"
      BY PlacesApart DEF InFlightCalls
    <2>4. \A d, e \in InFlightCalls' : d # e => <<d, e>> \in beside'
      <3> SUFFICES ASSUME NEW d \in InFlightCalls', NEW e \in InFlightCalls', d # e
                   PROVE  <<d, e>> \in beside'
        OBVIOUS
      <3>1. d \in RoleCalls /\ e \in RoleCalls
        BY DEF InFlightCalls
      <3>2. CASE d = c
        BY <1>2, <2>1, <3>1, <3>2
      <3>3. CASE e = c
        BY <1>2, <2>1, <3>1, <3>3
      <3>4. CASE d # c /\ e # c
        BY <1>2, <2>1, <3>1, <3>4 DEF BesideInv
      <3> QED BY <3>2, <3>3, <3>4
    <2>5. \A d, e \in RoleCalls : <<d, e>> \in beside' => task'[d].at # "ready" /\ task'[e].at # "ready"
      <3> SUFFICES ASSUME NEW d \in RoleCalls, NEW e \in RoleCalls, <<d, e>> \in beside'
                   PROVE  task'[d].at # "ready" /\ task'[e].at # "ready"
        OBVIOUS
      <3>1. <<d, e>> \in beside \/ (d = c /\ e \in InFlightCalls) \/ (d \in InFlightCalls /\ e = c)
        BY <2>1
      <3>2. /\ d = c \/ task[d].at # "ready"
            /\ e = c \/ task[e].at # "ready"
        BY <2>3, <3>1 DEF BesideInv
      <3> QED BY <1>1, <2>2, <3>2
    <2> QED BY <2>4, <2>5 DEF BesideInv
  <1>4. CASE Moves(c)
    <2>1. UNCHANGED <<beside, after>> /\ c \in InFlightCalls /\ task'[c].at # "ready"
      BY <1>4, PlacesApart DEF Moves, InFlightCalls
    <2>2. InFlightCalls' \subseteq InFlightCalls
      BY <1>2, <2>1 DEF InFlightCalls
    <2>3. \A d \in RoleCalls : task[d].at # "ready" => task'[d].at # "ready"
      BY <1>1, <2>1
    <2> QED BY <2>1, <2>2, <2>3 DEF BesideInv
  <1> QED BY <1>3, <1>4 DEF RoleMoves
(* Who had ended when another arrived has ended.                           *)
EndedInv ==
  \A c, d \in RoleCalls : <<c, d>> \in after => task[d].at \in RoleEnds /\ task[c].at # "ready"

LEMMA EndedStart == RoleInit => EndedInv
  BY DEF RoleInit, EndedInv

LEMMA EndedStep ==
  ASSUME RoleTypeInv, EndedInv, NEW c \in RoleCalls, RoleMoves(c)
  PROVE  EndedInv'
  <1>1. \A d \in RoleCalls \ {c} : task'[d] = task[d]
    BY AskedLasts
  <1>2. \A d \in RoleCalls : /\ task[d].at # "ready" => task'[d].at # "ready"
                             /\ task[d].at \in RoleEnds => task'[d] = task[d]
    BY <1>1, AskedLasts, PlacesApart DEF Lasts, RoleMoves, Arrives, Moves, Leaps
  <1>3. CASE UNCHANGED after
    BY <1>2, <1>3 DEF EndedInv
  <1>4. CASE Arrives(c) \/ Leaps(c)
    <2>1. after' = after \cup ({c} \X {d \in RoleCalls : task[d].at \in RoleEnds})
      BY <1>4 DEF Arrives, Leaps, Meets
    <2>2. task'[c].at # "ready"
      BY <1>4 DEF Arrives, Leaps, FirstSteps
    <2> QED BY <1>2, <2>1, <2>2 DEF EndedInv
  <1> QED BY <1>3, <1>4 DEF RoleMoves, Moves

(* Who ended before one that has arrived does not change any more.         *)
LEMMA NotBeforeStays ==
  ASSUME RoleTypeInv, NEW c \in RoleCalls, RoleMoves(c),
         NEW d \in RoleCalls, NEW e \in RoleCalls, task[d].at # "ready"
  PROVE  /\ NotBefore(e, d) => NotBefore(e, d)'
         /\ <<d, e>> \in after' => <<d, e>> \in after
  <1>1. task[e].at # "ready" => task'[e].at # "ready"
    BY AskedLasts DEF Lasts
  <1>2. <<d, e>> \in after' => <<d, e>> \in after
    BY DEF RoleMoves, Arrives, Moves, Leaps, Meets
  <1> QED BY <1>1, <1>2 DEF NotBefore

(* Nobody who is under way ended before another arrived.                   *)
LEMMA UnderWay ==
  ASSUME EndedInv, NEW c \in InFlightCalls, NEW d \in RoleCalls
  PROVE  NotBefore(c, d)
  BY PlacesApart DEF EndedInv, NotBefore, InFlightCalls
-----------------------------------------------------------------------------
(* Where what a step leaves comes from: the codes of permissions ...       *)
OneCode(c) ==
  \E p \in PermIds :
    /\ \A q \in PermIds \ {p} : perms'[q] = perms[q]
    /\ \/ /\ perms'[p] = GonePerm /\ task[c].perm = p /\ UNCHANGED roles
          /\ task[c].at = "delete permission" /\ task[c].kind = "delete permission"
       \/ /\ perms'[p] \in PermCodes /\ GivesCode(c, perms'[p]) /\ perms[p] # GonePerm
          /\ \/ task[c].kind = "update permissions"
             \/ /\ task[c].at = "write permission" /\ perms'[p] = CodeIn(c)
                /\ task[c].kind = "update permission" => p = task[c].perm

CodesFrom(c) == UNCHANGED perms \/ (OneCode(c) /\ c \in InFlightCalls)

LEMMA CodesShape ==
  ASSUME RoleTypeInv, NEW c \in RoleCalls, Asks(c) \/ ReadSteps(c) \/ WriteSteps(c) \/ RefuseCall(c)
  PROVE  CodesFrom(c)
  <1>1. CASE Asks(c) \/ ReadSteps(c) \/ RefuseCall(c)
    <2>1. UNCHANGED perms
      BY <1>1, AsksArrive, ReadStepsFit DEF Arrives, RefuseCall
    <2> QED BY <2>1 DEF CodesFrom
  <1>2. CASE CreatePermission(c)
    <2>1. /\ Moves(c) /\ task[c].at = "write permission" /\ task[c].kind = "create permission"
          /\ CodeIn(c) \in PermCodes
      BY <1>2, CreatePermissionShape DEF Ended
    <2>2. PICK p \in PermIds : perms[p] = NoPerm /\ SetsCode(p, CodeIn(c))
      BY <1>2, CreatePermissionShape
    <2>3. perms'[p] = CodeIn(c) /\ \A q \in PermIds \ {p} : perms'[q] = perms[q]
      BY <2>1, <2>2, CodeSet
    <2>4. GivesCode(c, CodeIn(c))
      BY <2>1, HasFits DEF Fits, CodeKey, CodeIn, GivesCode
    <2>5. OneCode(c)
      BY <2>1, <2>2, <2>3, <2>4, RoleAssumption DEF OneCode
    <2> QED BY <2>1, <2>5 DEF CodesFrom, InFlightCalls, Moves
  <1>3. CASE UpdatePermission(c)
    <2>1. /\ Moves(c) /\ task[c].at = "write permission" /\ task[c].kind = "update permission"
          /\ CodeIn(c) \in PermCodes /\ task[c].perm \in PermIds
      BY <1>3, UpdatePermissionShape DEF Ended
    <2>2. CASE Exists(task[c].perm) /\ SetsCode(task[c].perm, CodeIn(c))
      <3>1. perms'[task[c].perm] = CodeIn(c) /\ \A q \in PermIds \ {task[c].perm} : perms'[q] = perms[q]
        BY <2>1, <2>2, CodeSet
      <3>2. GivesCode(c, CodeIn(c))
        BY <2>1, HasFits DEF Fits, CodeKey, CodeIn, GivesCode
      <3>3. perms[task[c].perm] # GonePerm
        BY <2>2, RoleAssumption DEF Exists
      <3>4. OneCode(c)
        BY <2>1, <3>1, <3>2, <3>3 DEF OneCode
      <3> QED BY <2>1, <3>4 DEF CodesFrom, InFlightCalls, Moves
    <2> QED BY <1>3, <2>2, UpdatePermissionShape DEF CodesFrom
  <1>4. CASE WriteOnePermission(c)
    <2>1. PICK p \in DOMAIN task[c].codes :
            /\ p \in PermIds /\ task[c].codes[p] \in PermCodes
            /\ \/ Exists(p) /\ SetsCode(p, task[c].codes[p])
               \/ UNCHANGED perms
      BY <1>4, WriteOneShape
    <2>2. CASE Exists(p) /\ SetsCode(p, task[c].codes[p])
      <3>1. perms'[p] = task[c].codes[p] /\ \A q \in PermIds \ {p} : perms'[q] = perms[q]
        BY <2>1, <2>2, CodeSet
      <3>2. perms[p] # GonePerm /\ GivesCode(c, task[c].codes[p])
        BY <2>1, <2>2, RoleAssumption DEF Exists, GivesCode
      <3>3. OneCode(c)
        BY <1>4, <2>1, <3>1, <3>2, WriteOneShape DEF OneCode
      <3> QED BY <1>4, <3>3, WriteOneShape DEF CodesFrom, InFlightCalls, Moves
    <2> QED BY <2>1, <2>2 DEF CodesFrom
  <1>5. CASE DeletePermission(c)
    <2>1. /\ Moves(c) /\ task[c].at = "delete permission" /\ task[c].kind = "delete permission"
          /\ task[c].perm \in PermIds /\ SetsCode(task[c].perm, GonePerm) /\ UNCHANGED roles
      BY <1>5, DeletePermissionShape DEF Ended
    <2>2. perms'[task[c].perm] = GonePerm /\ \A q \in PermIds \ {task[c].perm} : perms'[q] = perms[q]
      BY <2>1, CodeSet
    <2>3. OneCode(c)
      BY <2>1, <2>2 DEF OneCode
    <2> QED BY <2>1, <2>3 DEF CodesFrom, InFlightCalls, Moves
  <1>6. CASE \/ PullOne(c) \/ CreateRole(c) \/ CreateWorkspaceRole(c) \/ AddToWorkspace(c)
             \/ UpdateRoleDetail(c) \/ DeleteWorkspaceRole(c) \/ DropWorkspace(c)
    <2>1. UNCHANGED perms
      BY <1>6 DEF PullOne, CreateRole, CreateWorkspaceRole, SaveRole, AddToWorkspace, UpdateRoleDetail,
                  DeleteWorkspaceRole, DropWorkspace
    <2> QED BY <2>1 DEF CodesFrom
  <1> QED BY <1>1, <1>2, <1>3, <1>4, <1>5, <1>6 DEF WriteSteps

(* ... and the references of roles.                                        *)
Gave(c, r) ==
  /\ \A q \in RoleIds \ {r} : roles'[q] = roles[q]
  /\ roles'[r] = task[c].body /\ RoleDocs' = RoleDocs \cup {r} /\ task'[c].role = r
  /\ c \in InFlightCalls /\ task[c].at \in {"save role", "save", "write role"}
  /\ task[c].kind \in {"create role", "update role", "create space role", "edit space role"}

Pulled(c, r) ==
  /\ \A q \in RoleIds \ {r} : roles'[q] = roles[q]
  /\ roles'[r] = roles[r] \ {task[c].perm} /\ RoleDocs' = RoleDocs
  /\ c \in InFlightCalls /\ task[c].kind = "delete permission"
  /\ task[c].at = "pull" /\ task'[c].at = "pull"

Saves(c) == CreateRole(c) \/ CreateWorkspaceRole(c) \/ UpdateRoleDetail(c)

RolesFrom(c) ==
  \/ UNCHANGED roles /\ RoleDocs' = RoleDocs /\ ~Saves(c)
  \/ \E r \in RoleDocs : Pulled(c, r) /\ ~Saves(c)
  \/ \E r \in RoleIds : Gave(c, r)

LEMMA RolesShape ==
  ASSUME RoleTypeInv, NEW c \in RoleCalls, Asks(c) \/ ReadSteps(c) \/ WriteSteps(c) \/ RefuseCall(c)
  PROVE  RolesFrom(c)
  <1>1. CASE CreateRole(c) \/ CreateWorkspaceRole(c)
    <2>1. PICK l \in {"ok", "add to space"} :
            /\ SaveRole(c, l) /\ task[c].at \in {"save role", "save"}
            /\ l = "add to space" => task[c].at = "save"
      BY <1>1 DEF CreateRole, CreateWorkspaceRole
    <2>2. PICK r \in RoleIds : SetsRefs(r, task[c].body) /\ task'[c].role = r
      BY <2>1, SaveRoleShape
    <2>3. task[c].body \in SUBSET PermIds /\ task[c].kind \in {"create role", "create space role"}
      BY <2>1, HasFits DEF KindFits
    <2>4. /\ roles'[r] = task[c].body /\ \A q \in RoleIds \ {r} : roles'[q] = roles[q]
          /\ RoleDocs' = RoleDocs \cup {r}
      BY <2>2, <2>3, RefsSet
    <2>5. c \in InFlightCalls
      BY <2>1 DEF InFlightCalls, RoleSteps
    <2>6. Gave(c, r)
      BY <2>1, <2>2, <2>3, <2>4, <2>5 DEF Gave
    <2> QED BY <2>6 DEF RolesFrom
  <1>2. CASE UpdateRoleDetail(c)
    <2>1. /\ task[c].role \in RoleDocs /\ SetsRefs(task[c].role, task[c].body) /\ task[c].at = "write role"
          /\ task'[c].role = task[c].role
      BY <1>2, UpdateRoleShape DEF Ended, KeepsRest
    <2>2. /\ task[c].body \in SUBSET PermIds /\ task[c].kind \in {"update role", "edit space role"}
          /\ task[c].role \in RoleIds
      BY <2>1, HasFits DEF KindFits, RoleDocs
    <2>3. /\ roles'[task[c].role] = task[c].body
          /\ \A q \in RoleIds \ {task[c].role} : roles'[q] = roles[q]
          /\ RoleDocs' = RoleDocs \cup {task[c].role}
      BY <2>1, <2>2, RefsSet
    <2>4. c \in InFlightCalls
      BY <2>1 DEF InFlightCalls, RoleSteps
    <2>5. Gave(c, task[c].role)
      BY <2>1, <2>2, <2>3, <2>4 DEF Gave
    <2> QED BY <2>2, <2>5 DEF RolesFrom
  <1>3. CASE UNCHANGED roles /\ ~Saves(c)
    BY <1>3 DEF RolesFrom, RoleDocs
  <1>4. CASE PullOne(c) /\ ~Saves(c)
    <2>1. PICK r \in RoleDocs : SetsRefs(r, roles[r] \ {task[c].perm}) \/ UNCHANGED roles
      BY <1>4, PullOneShape
    <2>2. CASE SetsRefs(r, roles[r] \ {task[c].perm})
      <3>1. r \in RoleIds /\ roles[r] \ {task[c].perm} \in SUBSET PermIds
        BY DEF RoleDocs, RoleTypeInv
      <3>2. /\ roles'[r] = roles[r] \ {task[c].perm} /\ \A q \in RoleIds \ {r} : roles'[q] = roles[q]
            /\ RoleDocs' = RoleDocs \cup {r}
        BY <2>2, <3>1, RefsSet
      <3>3. RoleDocs' = RoleDocs
        BY <3>2
      <3>4. /\ task[c].kind = "delete permission" /\ task[c].at = "pull" /\ task'[c].at = "pull"
            /\ c \in InFlightCalls
        BY <1>4, PullOneShape DEF InFlightCalls, RoleSteps
      <3>5. Pulled(c, r)
        BY <3>2, <3>3, <3>4 DEF Pulled
      <3> QED BY <1>4, <3>5 DEF RolesFrom
    <2> QED BY <1>3, <1>4, <2>1, <2>2
  <1>5. CASE Asks(c) \/ ReadSteps(c) \/ RefuseCall(c)
    <2>1. UNCHANGED roles
      BY <1>5, AsksArrive, ReadStepsFit DEF Arrives, RefuseCall
    <2> QED BY <1>1, <1>2, <1>3, <2>1 DEF Saves
  <1>6. CASE \/ CreatePermission(c) \/ UpdatePermission(c) \/ WriteOnePermission(c) \/ DeletePermission(c)
             \/ AddToWorkspace(c) \/ DeleteWorkspaceRole(c) \/ DropWorkspace(c)
    <2>1. UNCHANGED roles
      BY <1>6 DEF CreatePermission, UpdatePermission, WriteOnePermission, DeletePermission,
                  AddToWorkspace, DeleteWorkspaceRole, DropWorkspace
    <2> QED BY <1>1, <1>2, <1>3, <2>1 DEF Saves
  <1> QED BY <1>1, <1>2, <1>4, <1>5, <1>6 DEF WriteSteps, Saves

(* A reference that was not there before is one its request gives.         *)
RefsFrom(c) ==
  \A r \in RoleDocs' : \A p \in roles'[r] :
    \/ r \in RoleDocs /\ p \in roles[r]
    \/ /\ c \in InFlightCalls /\ p \in task[c].body /\ WritesRole(c, r)'
       /\ task[c].at \in {"save role", "save", "write role"}

LEMMA RefsShape ==
  ASSUME RoleTypeInv, NEW c \in RoleCalls, RoleMoves(c), RolesFrom(c)
  PROVE  RefsFrom(c)
  <1>1. CASE UNCHANGED roles /\ RoleDocs' = RoleDocs
    BY <1>1 DEF RefsFrom
  <1>2. ASSUME NEW x \in RoleDocs, Pulled(c, x) PROVE RefsFrom(c)
    BY <1>2 DEF Pulled, RefsFrom, RoleDocs
  <1>3. ASSUME NEW x \in RoleIds, Gave(c, x) PROVE RefsFrom(c)
    <2>1. task'[c].kind = task[c].kind
      BY AskedLasts DEF Lasts
    <2>2. WritesRole(c, x)'
      BY <1>3, <2>1 DEF Gave, WritesRole
    <2>3. \A r \in RoleDocs' : r # x => r \in RoleDocs /\ roles'[r] = roles[r]
      BY <1>3 DEF Gave, RoleDocs
    <2> QED BY <1>3, <2>2, <2>3 DEF Gave, RefsFrom
  <1> QED BY <1>1, <1>2, <1>3 DEF RolesFrom

(* Which step leads where, and who is answered.                            *)
Routes(c) ==
  /\ task'[c].at = "write permission" => LookCode(c) \/ FindPermission(c)
  /\ task'[c].at = "pull" => ListHolders(c) \/ PullOne(c)
  /\ task'[c].at = "delete permission" => PullsEnd(c)
  /\ task'[c].at = "find role" /\ task[c].kind = "edit space role" => CheckRole(c)
  /\ task'[c].at = "write role" => FindRole(c)
  /\ task'[c].at = "ok" /\ task[c].kind \in {"update role", "edit space role"} => UpdateRoleDetail(c)
  /\ task'[c].at = "ok" /\ task[c].kind = "create space role" => AddToWorkspace(c)
  /\ task'[c].at = "ok" /\ task[c].kind = "create role" => CreateRole(c)
  /\ task'[c].at = "add to space" => CreateWorkspaceRole(c)
  /\ task'[c].at = "populate permissions" => PopulateRoles(c)
  /\ task'[c].at = "ok" /\ task[c].kind = "show" => Arrives(c) \/ PopulatePermissions(c)
  /\ task[c].at = "delete permission" => task'[c].at \in {"ok", "null", "failed"}

LEMMA RouteShape ==
  ASSUME RoleTypeInv, NEW c \in RoleCalls, Asks(c) \/ ReadSteps(c) \/ WriteSteps(c) \/ RefuseCall(c)
  PROVE  Routes(c)
  <1>1. KindFits(task[c])
    BY HasFits
  <1>2. CASE Asks(c)
    <2>1. Arrives(c)
      BY <1>2, AsksArrive
    <2> QED BY <2>1 DEF Arrives, AsksFor, FirstSteps, Routes
  <1>3. CASE LookCode(c)
    BY <1>3, LookCodeFits DEF Routes, KeepsRest
  <1>4. CASE FindPermission(c)
    BY <1>4, FindPermissionFits DEF Routes, KeepsRest
  <1>5. CASE FindPermissions(c)
    BY <1>5, FindPermissionsFits DEF Routes
  <1>6. CASE MassiveUpdatePermissions(c)
    BY <1>1, <1>6, UpdatesEndFits DEF Routes, KeepsRest, KindFits
  <1>7. CASE ListHolders(c)
    BY <1>7, ListHoldersFits DEF Routes
  <1>8. CASE PullsEnd(c)
    BY <1>8, PullsEndFits DEF Routes, KeepsRest
  <1>9. CASE CheckOwner(c)
    BY <1>9, CheckOwnerFits DEF Routes, KeepsRest
  <1>10. CASE CheckRole(c)
    BY <1>10, CheckRoleFits DEF Routes, KeepsRest
  <1>11. CASE FindRole(c)
    BY <1>11, FindRoleFits DEF Routes, KeepsRest
  <1>12. CASE PopulateRoles(c)
    BY <1>12, PopulateRolesFits DEF Routes
  <1>13. CASE PopulatePermissions(c)
    BY <1>1, <1>13, PopulatePermissionsFits DEF Routes, KindFits
  <1>14. CASE RefuseCall(c)
    BY <1>14, RefuseCallFits DEF Routes, KeepsRest
  <1>15. CASE CreatePermission(c)
    BY <1>15, CreatePermissionShape DEF Ended, Routes, KeepsRest
  <1>16. CASE UpdatePermission(c)
    BY <1>16, UpdatePermissionShape DEF Ended, Routes, KeepsRest
  <1>17. CASE WriteOnePermission(c)
    BY <1>17, WriteOneShape DEF Routes
  <1>18. CASE PullOne(c)
    BY <1>18, PullOneShape DEF Routes
  <1>19. CASE DeletePermission(c)
    BY <1>19, DeletePermissionShape DEF Ended, Routes, KeepsRest
  <1>20. CASE CreateRole(c)
    <2>1. SaveRole(c, "ok") /\ task[c].at = "save role"
      BY <1>20 DEF CreateRole
    <2>2. task'[c].at \in {"ok", "failed"}
      BY <2>1, SaveRoleShape
    <2> QED BY <1>1, <1>20, <2>1, <2>2 DEF Routes, KindFits
  <1>21. CASE CreateWorkspaceRole(c)
    <2>1. SaveRole(c, "add to space") /\ task[c].at = "save"
      BY <1>21 DEF CreateWorkspaceRole
    <2>2. task'[c].at \in {"add to space", "failed"}
      BY <2>1, SaveRoleShape
    <2> QED BY <1>21, <2>1, <2>2 DEF Routes
  <1>22. CASE AddToWorkspace(c)
    BY <1>22, AddToWorkspaceShape DEF Ended, Routes, KeepsRest
  <1>23. CASE UpdateRoleDetail(c)
    BY <1>1, <1>23, UpdateRoleShape DEF Ended, Routes, KeepsRest, KindFits
  <1>24. CASE DeleteWorkspaceRole(c)
    BY <1>24, DeleteRoleShape DEF Leaps, SameRest, Routes
  <1>25. CASE DropWorkspace(c)
    BY <1>25, DropWorkspaceShape DEF Leaps, SameRest, Routes
  <1> QED BY <1>2, <1>3, <1>4, <1>5, <1>6, <1>7, <1>8, <1>9, <1>10, <1>11, <1>12, <1>13, <1>14,
             <1>15, <1>16, <1>17, <1>18, <1>19, <1>20, <1>21, <1>22, <1>23, <1>24, <1>25
          DEF ReadSteps, WriteSteps
-----------------------------------------------------------------------------
(* Why a reference may lead to a deleted permission: a request gave it to  *)
(* the role that had not ended when the deletion arrived.                  *)
Excuse(p, r) ==
  \E c, d \in RoleCalls : /\ Deletes(c, p) /\ task[c].at # "ready"
                          /\ WritesRole(d, r) /\ p \in task[d].body /\ NotBefore(d, c)

(* A deletion that goes on to the permission has pulled it from every role *)
(* that is not excused, and one that pulls has still to pull it from the   *)
(* others, or has failed.                                                  *)
RefsInv ==
  /\ \A r \in RoleDocs : \A p \in roles[r] : perms[p] = GonePerm => Excuse(p, r)
  /\ \A p \in PermIds : perms[p] = GonePerm =>
       \E c \in RoleCalls : Deletes(c, p) /\ task[c].at # "ready"
  /\ \A c \in RoleCalls : \A p : Deletes(c, p) /\ task[c].at = "pull" /\ task[c].bad # TRUE =>
       \A r \in RoleDocs : p \in roles[r] => r \in task[c].todo \/ Excuse(p, r)
  /\ \A c \in RoleCalls : \A p : Deletes(c, p) /\ task[c].at = "delete permission" =>
       \A r \in RoleDocs : p \in roles[r] => Excuse(p, r)

LEMMA ExcuseStays ==
  ASSUME RoleTypeInv, NEW c \in RoleCalls, RoleMoves(c), NEW p, NEW r \in RoleIds, Excuse(p, r)
  PROVE  Excuse(p, r)'
  <1>1. PICK e, d \in RoleCalls : /\ Deletes(e, p) /\ task[e].at # "ready"
                                  /\ WritesRole(d, r) /\ p \in task[d].body /\ NotBefore(d, e)
    BY DEF Excuse
  <1>2. Lasts(e) /\ Lasts(d) /\ task[d].at # "ready"
    BY <1>1, AskedLasts DEF NotBefore
  <1>3. Deletes(e, p)' /\ task'[e].at # "ready"
    BY <1>1, <1>2 DEF Lasts, Deletes
  <1>4. WritesRole(d, r)' /\ p \in task'[d].body
    BY <1>1, <1>2 DEF Lasts, WritesRole
  <1>5. NotBefore(d, e)'
    BY <1>1, NotBeforeStays
  <1> QED BY <1>3, <1>4, <1>5 DEF Excuse

(* What a request gives to a role while it is under way is excused against *)
(* every deletion that has arrived.                                        *)
LEMMA ExcuseNew ==
  ASSUME RoleTypeInv, EndedInv, NEW c \in InFlightCalls, RoleMoves(c), NEW p \in task[c].body,
         NEW r \in RoleIds, WritesRole(c, r)',
         NEW e \in RoleCalls, Deletes(e, p), task[e].at # "ready"
  PROVE  Excuse(p, r)'
  <1>1. c \in RoleCalls /\ task[c].at # "ready"
    BY PlacesApart DEF InFlightCalls
  <1>2. Lasts(e) /\ Lasts(c)
    BY <1>1, AskedLasts
  <1>3. Deletes(e, p)' /\ task'[e].at # "ready" /\ p \in task'[c].body
    BY <1>1, <1>2 DEF Lasts, Deletes
  <1>4. NotBefore(c, e)'
    BY <1>1, UnderWay, NotBeforeStays
  <1> QED BY <1>1, <1>3, <1>4 DEF Excuse

LEMMA RefsStart ==
  ASSUME RoleInit PROVE RefsInv
  <1>1. \A c \in RoleCalls : task[c].at = "ready"
    BY DEF RoleInit, Request
  <1>2. perms = StartPerms
    BY DEF RoleInit
  <1>3. \A p \in PermIds : perms[p] # GonePerm
    BY <1>2, RoleAssumption
  <1>4. RoleTypeInv
    BY TypeStart
  <1>5. \A r \in RoleDocs : roles[r] \subseteq PermIds
    BY <1>4 DEF RoleTypeInv, RoleDocs
  <1> QED BY <1>1, <1>3, <1>5 DEF RefsInv

(* What is gone after a step was gone before, or is what its request       *)
(* deletes.                                                                *)
GoneFrom(c) ==
  \A p \in PermIds : perms'[p] = GonePerm =>
    \/ perms[p] = GonePerm
    \/ /\ task[c].at = "delete permission" /\ task[c].kind = "delete permission"
       /\ task[c].perm = p /\ UNCHANGED roles /\ c \in InFlightCalls

LEMMA GoneShape ==
  ASSUME RoleTypeInv, NEW c \in RoleCalls, CodesFrom(c)
  PROVE  GoneFrom(c) /\ \A p \in PermIds : perms[p] = GonePerm => perms'[p] = GonePerm
  <1>1. CASE UNCHANGED perms
    BY <1>1 DEF GoneFrom
  <1>2. CASE OneCode(c) /\ c \in InFlightCalls
    BY <1>2, RoleAssumption DEF GoneFrom, OneCode
  <1> QED BY <1>1, <1>2 DEF CodesFrom

LEMMA RefsStep ==
  ASSUME RoleTypeInv, EndedInv, RefsInv, NEW c \in RoleCalls,
         RoleMoves(c), GoneFrom(c), RolesFrom(c), Routes(c)
  PROVE  RefsInv'
  <1>1. (\A r \in RoleDocs : roles[r] \subseteq PermIds) /\ \A r \in RoleDocs' : r \in RoleIds
    BY DEF RoleTypeInv, RoleDocs
  <1>2. RefsFrom(c)
    BY RefsShape
  <1>3. /\ \A d \in RoleCalls \ {c} : task'[d] = task[d]
        /\ \A d \in RoleCalls : Lasts(d)
    BY AskedLasts
  <1>4. \A p : \A r \in RoleIds : Excuse(p, r) => Excuse(p, r)'
    BY ExcuseStays
  <1>5. c \in InFlightCalls => task[c].body \subseteq PermIds
    BY HasFits
  <1>6. \A p \in PermIds : perms'[p] = GonePerm =>
          \E e \in RoleCalls : Deletes(e, p) /\ task[e].at # "ready"
    <2> SUFFICES ASSUME NEW p \in PermIds, perms'[p] = GonePerm
                 PROVE  \E e \in RoleCalls : Deletes(e, p) /\ task[e].at # "ready"
      OBVIOUS
    <2>1. CASE perms[p] = GonePerm
      BY <2>1 DEF RefsInv
    <2>2. CASE /\ task[c].at = "delete permission" /\ task[c].kind = "delete permission"
               /\ task[c].perm = p
      BY <2>2 DEF Deletes
    <2> QED BY <2>1, <2>2 DEF GoneFrom
  <1>7. \A r \in RoleDocs' : \A p \in roles'[r] : perms'[p] = GonePerm => Excuse(p, r)'
    <2> SUFFICES ASSUME NEW r \in RoleDocs', NEW p \in roles'[r], perms'[p] = GonePerm
                 PROVE  Excuse(p, r)'
      OBVIOUS
    <2>1. CASE r \in RoleDocs /\ p \in roles[r]
      <3>1. p \in PermIds /\ r \in RoleIds
        BY <1>1, <2>1
      <3>2. CASE perms[p] = GonePerm
        BY <1>4, <2>1, <3>1, <3>2 DEF RefsInv
      <3>3. CASE task[c].at = "delete permission" /\ Deletes(c, p)
        BY <1>4, <2>1, <3>1, <3>3 DEF RefsInv
      <3> QED BY <3>1, <3>2, <3>3 DEF GoneFrom, Deletes
    <2>2. CASE c \in InFlightCalls /\ p \in task[c].body /\ WritesRole(c, r)'
      <3>1. PICK e \in RoleCalls : Deletes(e, p) /\ task[e].at # "ready"
        BY <1>5, <1>6, <2>2
      <3> QED BY <1>1, <2>2, <3>1, ExcuseNew
    <2> QED BY <1>2, <2>1, <2>2 DEF RefsFrom
  <1>8. \A p \in PermIds : perms'[p] = GonePerm =>
          \E e \in RoleCalls : Deletes(e, p)' /\ task'[e].at # "ready"
    <2> SUFFICES ASSUME NEW p \in PermIds, perms'[p] = GonePerm
                 PROVE  \E e \in RoleCalls : Deletes(e, p)' /\ task'[e].at # "ready"
      OBVIOUS
    <2>1. PICK e \in RoleCalls : Deletes(e, p) /\ task[e].at # "ready"
      BY <1>6
    <2> QED BY <1>3, <2>1 DEF Deletes, Lasts
  <1>9. ASSUME NEW d \in RoleCalls, NEW p, Deletes(d, p)', task'[d].at \in {"pull", "delete permission"},
               NEW r \in RoleDocs', p \in roles'[r], d # c
        PROVE  Deletes(d, p) /\ task'[d] = task[d] /\ ((r \in RoleDocs /\ p \in roles[r]) \/ Excuse(p, r)')
    <2>1. task'[d] = task[d] /\ Deletes(d, p)
      BY <1>3, <1>9 DEF Deletes
    <2>2. CASE c \in InFlightCalls /\ p \in task[c].body /\ WritesRole(c, r)'
      BY <1>1, <1>9, <2>1, <2>2, ExcuseNew
    <2> QED BY <1>2, <1>9, <2>1, <2>2 DEF RefsFrom
  <1>10. \A d \in RoleCalls : \A p : Deletes(d, p)' /\ task'[d].at = "pull" /\ task'[d].bad # TRUE =>
           \A r \in RoleDocs' : p \in roles'[r] => r \in task'[d].todo \/ Excuse(p, r)'
    <2> SUFFICES ASSUME NEW d \in RoleCalls, NEW p, Deletes(d, p)', task'[d].at = "pull",
                        task'[d].bad # TRUE, NEW r \in RoleDocs', p \in roles'[r]
                 PROVE  r \in task'[d].todo \/ Excuse(p, r)'
      OBVIOUS
    <2>1. CASE d # c
      BY <1>1, <1>4, <1>9, <2>1 DEF RefsInv
    <2>2. CASE d = c /\ ListHolders(c)
      <3>1. /\ Moves(c) /\ task'[c].todo = Holders(task[c].perm) /\ UNCHANGED roles
        BY <2>2, ListHoldersFits DEF ListHolders, Reads
      <3>2. RoleDocs' = RoleDocs /\ task[c].perm = p
        BY <2>2, <3>1 DEF RoleDocs, Moves, SameAsk, Deletes
      <3> QED BY <2>2, <3>1, <3>2 DEF Holders
    <2>3. CASE d = c /\ PullOne(c)
      <3>1. Moves(c) /\ task[c].at = "pull" /\ task[c].kind = "delete permission"
        BY <2>3, PullOneShape
      <3>2. PICK x \in RoleDocs :
              /\ task'[c].todo = task[c].todo \ {x}
              /\ SetsRefs(x, roles[x] \ {task[c].perm}) /\ task'[c].bad = task[c].bad
        BY <2>3, PullOneShape
      <3>3. x \in RoleIds /\ roles[x] \ {task[c].perm} \in SUBSET PermIds
        BY DEF RoleDocs, RoleTypeInv
      <3>4. /\ roles'[x] = roles[x] \ {task[c].perm} /\ \A q \in RoleIds \ {x} : roles'[q] = roles[q]
            /\ RoleDocs' = RoleDocs \cup {x}
        BY <3>2, <3>3, RefsSet
      <3>5. task[c].perm = p /\ Deletes(c, p)
        BY <2>3, <3>1 DEF Moves, SameAsk, Deletes
      <3>6. r # x /\ r \in RoleDocs /\ p \in roles[r]
        BY <2>3, <3>4, <3>5 DEF RoleDocs
      <3>7. r \in task[c].todo \/ Excuse(p, r)
        BY <2>3, <3>1, <3>2, <3>5, <3>6 DEF RefsInv
      <3> QED BY <1>1, <1>4, <2>3, <3>2, <3>6, <3>7
    <2> QED BY <2>1, <2>2, <2>3 DEF Routes
  <1>11. \A d \in RoleCalls : \A p : Deletes(d, p)' /\ task'[d].at = "delete permission" =>
           \A r \in RoleDocs' : p \in roles'[r] => Excuse(p, r)'
    <2> SUFFICES ASSUME NEW d \in RoleCalls, NEW p, Deletes(d, p)', task'[d].at = "delete permission",
                        NEW r \in RoleDocs', p \in roles'[r]
                 PROVE  Excuse(p, r)'
      OBVIOUS
    <2>1. CASE d # c
      BY <1>1, <1>4, <1>9, <2>1 DEF RefsInv
    <2>2. CASE d = c /\ PullsEnd(c)
      <3>1. /\ Moves(c) /\ task[c].at = "pull" /\ task[c].todo = {} /\ task[c].bad # TRUE
        BY <2>2, PullsEndFits
      <3>2. UNCHANGED roles
        BY <2>2 DEF PullsEnd, Reads
      <3>3. RoleDocs' = RoleDocs /\ Deletes(c, p)
        BY <2>2, <3>1, <3>2 DEF RoleDocs, Moves, SameAsk, Deletes
      <3>4. Excuse(p, r)
        BY <3>1, <3>2, <3>3 DEF RefsInv
      <3> QED BY <1>1, <1>4, <3>4
    <2> QED BY <2>1, <2>2 DEF Routes
  <1> QED BY <1>7, <1>8, <1>10, <1>11 DEF RefsInv
-----------------------------------------------------------------------------
(* Why two permissions may have one code.                                  *)
CodeExcuse(k) ==
  \E c, d \in RoleCalls :
    /\ task[c].at # "ready" /\ task[d].at # "ready" /\ GivesCode(c, k) /\ GivesCode(d, k)
    /\ <<c, d>> \in beside \/ task[c].kind = "update permissions"

(* A request that is about to write a code has found it nowhere, or only   *)
(* at the permission it updates, or is excused.                            *)
CodesInv ==
  /\ \A p, q \in Known : \A k : p # q /\ perms[p] = k /\ perms[q] = k => CodeExcuse(k)
  /\ \A c \in RoleCalls : \A k : task[c].at = "write permission" /\ CodeIn(c) = k =>
       \A q \in Known : perms[q] = k =>
         \/ task[c].kind = "update permission" /\ q = task[c].perm
         \/ CodeExcuse(k)

LEMMA CodesImplies == CodesInv => CodesOnce
  BY DEF CodesInv, CodesOnce, CodeExcuse

LEMMA CodesStart ==
  ASSUME RoleInit PROVE CodesInv
  <1>1. \A c \in RoleCalls : task[c].at = "ready"
    BY DEF RoleInit, Request
  <1>2. perms = StartPerms
    BY DEF RoleInit
  <1>3. \A p, q \in Known : perms[p] = perms[q] => p = q
    BY <1>2, RoleAssumption DEF Known, Exists
  <1> QED BY <1>1, <1>3 DEF CodesInv

LEMMA CodeExcuseStays ==
  ASSUME RoleTypeInv, NEW c \in RoleCalls, RoleMoves(c), NEW k, CodeExcuse(k)
  PROVE  CodeExcuse(k)'
  <1>1. PICK d, e \in RoleCalls :
          /\ task[d].at # "ready" /\ task[e].at # "ready" /\ GivesCode(d, k) /\ GivesCode(e, k)
          /\ <<d, e>> \in beside \/ task[d].kind = "update permissions"
    BY DEF CodeExcuse
  <1>2. Lasts(d) /\ Lasts(e) /\ beside \subseteq beside'
    BY AskedLasts
  <1>3. GivesCode(d, k)' /\ GivesCode(e, k)'
    BY <1>1, <1>2 DEF Lasts, GivesCode
  <1> QED BY <1>1, <1>2, <1>3 DEF Lasts, CodeExcuse

LEMMA CodeGiven ==
  ASSUME RoleTypeInv, NEW c \in RoleCalls, task[c].at = "write permission"
  PROVE  GivesCode(c, CodeIn(c)) /\ CodeIn(c) \in PermCodes
  BY HasFits DEF Fits, CodeKey, CodeIn, GivesCode

LEMMA CodesStep ==
  ASSUME RoleTypeInv, BesideInv, CodesInv, NEW c \in RoleCalls, RoleMoves(c), CodesFrom(c), Routes(c)
  PROVE  CodesInv'
  <1>1. \A d \in RoleCalls \ {c} : task'[d] = task[d]
    BY DEF RoleMoves, Arrives, Moves, Leaps, OthersStay
  <1>2. \A k : CodeExcuse(k) => CodeExcuse(k)'
    BY CodeExcuseStays
  <1>3. Known' = {p \in PermIds : perms'[p] \in PermCodes}
    BY DEF Known, Exists
  <1>4. \A p, q \in Known' : \A k : p # q /\ perms'[p] = k /\ perms'[q] = k => CodeExcuse(k)'
    <2> SUFFICES ASSUME NEW p \in Known', NEW q \in Known', NEW k, p # q, perms'[p] = k, perms'[q] = k
                 PROVE  CodeExcuse(k)
      BY <1>2
    <2>1. p \in PermIds /\ q \in PermIds /\ k \in PermCodes
      BY <1>3
    <2>2. CASE perms[p] = k /\ perms[q] = k
      <3>1. p \in Known /\ q \in Known
        BY <2>1, <2>2 DEF Known, Exists
      <3> QED BY <2>2, <3>1 DEF CodesInv
    <2>3. CASE OneCode(c) /\ c \in InFlightCalls /\ ~(perms[p] = k /\ perms[q] = k)
      <3>1. task[c].at # "ready"
        BY <2>3, PlacesApart DEF InFlightCalls
      <3>2. PICK x \in PermIds :
              /\ \A y \in PermIds \ {x} : perms'[y] = perms[y]
              /\ perms'[x] = GonePerm \/
                   (/\ GivesCode(c, perms'[x])
                    /\ \/ task[c].kind = "update permissions"
                       \/ /\ task[c].at = "write permission" /\ perms'[x] = CodeIn(c)
                          /\ task[c].kind = "update permission" => x = task[c].perm)
        BY <2>3 DEF OneCode
      <3>3. PICK y \in {p, q} : x \in {p, q} /\ x # y
        BY <2>1, <2>3, <3>2
      <3>4. y \in PermIds /\ perms[y] = k /\ y \in Known /\ perms'[x] = k /\ k # GonePerm
        BY <2>1, <3>2, <3>3, RoleAssumption DEF Known, Exists
      <3>5. CASE task[c].kind = "update permissions"
        BY <3>1, <3>2, <3>4, <3>5 DEF CodeExcuse
      <3>6. CASE /\ task[c].at = "write permission" /\ perms'[x] = CodeIn(c)
                 /\ task[c].kind = "update permission" => x = task[c].perm
        <4>1. CodeIn(c) = k
          BY <3>4, <3>6
        <4>2. (task[c].kind = "update permission" /\ y = task[c].perm) \/ CodeExcuse(k)
          BY <3>4, <3>6, <4>1 DEF CodesInv
        <4>3. task[c].kind = "update permission" => y # task[c].perm
          BY <3>3, <3>6
        <4> QED BY <4>2, <4>3
      <3> QED BY <3>2, <3>4, <3>5, <3>6
    <2> QED BY <2>2, <2>3 DEF CodesFrom
  <1>5. \A d \in RoleCalls : \A k : task'[d].at = "write permission" /\ CodeIn(d)' = k =>
          \A q \in Known' : perms'[q] = k =>
            \/ task'[d].kind = "update permission" /\ q = task'[d].perm
            \/ CodeExcuse(k)'
    <2> SUFFICES ASSUME NEW d \in RoleCalls, NEW k, task'[d].at = "write permission", CodeIn(d)' = k,
                        NEW q \in Known', perms'[q] = k
                 PROVE  \/ task'[d].kind = "update permission" /\ q = task'[d].perm
                        \/ CodeExcuse(k)'
      OBVIOUS
    <2>1. q \in PermIds /\ k \in PermCodes
      BY <1>3
    <2>2. CASE d # c
      <3>1. task'[d] = task[d] /\ CodeIn(d) = k /\ GivesCode(d, k)
        BY <1>1, <2>2, CodeGiven DEF CodeIn
      <3>2. CASE perms[q] = k
        <4>1. q \in Known
          BY <2>1, <3>2 DEF Known, Exists
        <4> QED BY <1>2, <3>1, <3>2, <4>1 DEF CodesInv
      <3>3. CASE OneCode(c) /\ c \in InFlightCalls /\ perms[q] # k
        <4>1. GivesCode(c, k)
          BY <2>1, <3>3, RoleAssumption DEF OneCode
        <4>2. d \in InFlightCalls
          BY <3>1 DEF InFlightCalls, RoleSteps
        <4>3. <<c, d>> \in beside /\ task[c].at # "ready" /\ task[d].at # "ready"
          BY <2>2, <3>3, <4>2, PlacesApart DEF BesideInv, InFlightCalls
        <4> QED BY <1>2, <3>1, <4>1, <4>3 DEF CodeExcuse
      <3> QED BY <3>2, <3>3 DEF CodesFrom
    <2>3. CASE d = c /\ LookCode(c)
      <3>1. UNCHANGED perms /\ ~Taken(c) /\ Moves(c)
        BY <2>3, LookCodeFits DEF LookCode, Reads
      <3>2. CodeIn(c) = k
        BY <2>3, <3>1 DEF Moves, SameAsk, CodeIn
      <3> QED BY <2>1, <3>1, <3>2 DEF Taken
    <2>4. CASE d = c /\ FindPermission(c)
      <3>1. /\ UNCHANGED perms /\ Moves(c) /\ task[c].kind = "update permission"
            /\ CodeIn(c) = perms[task[c].perm]
        BY <2>4, FindPermissionFits DEF FindPermission, Reads
      <3>2. CodeIn(c) = k /\ task'[c].kind = "update permission" /\ task'[c].perm = task[c].perm
        BY <2>4, <3>1 DEF Moves, SameAsk, CodeIn
      <3>3. task[c].perm \in PermIds
        BY <3>1, HasFits, PlacesApart DEF Fits, Moves
      <3>4. task[c].perm \in Known /\ q \in Known
        BY <2>1, <3>1, <3>2, <3>3 DEF Known, Exists
      <3>5. q = task[c].perm \/ CodeExcuse(k)
        BY <3>1, <3>2, <3>4 DEF CodesInv
      <3> QED BY <1>2, <2>4, <3>2, <3>5
    <2> QED BY <2>2, <2>3, <2>4 DEF Routes
  <1> QED BY <1>4, <1>5 DEF CodesInv
-----------------------------------------------------------------------------
(* A request that made a role through a workspace, or edits one and found  *)
(* it there.                                                               *)
Claims(c, w, r) ==
  /\ task[c].space = w /\ task[c].role = r
  /\ \/ task[c].kind = "edit space role" /\ task[c].at \in {"find role", "write role", "ok"}
     \/ task[c].kind = "create space role" /\ task[c].at = "ok"

TakenOff(w, r) == \E d \in RoleCalls : task[d].at # "ready" /\ Takes(d, w, r)

ListedInv ==
  \A c \in RoleCalls : \A w, r : Claims(c, w, r) => (w \in Kept => r \in listed[w]) \/ TakenOff(w, r)

LEMMA ListedImplies == ListedInv => SpaceRolesListed
  BY DEF ListedInv, SpaceRolesListed, Claims, TakenOff

LEMMA ListedStart ==
  ASSUME RoleInit PROVE ListedInv
  <1>1. \A c \in RoleCalls : task[c].at = "ready"
    BY DEF RoleInit, Request
  <1> QED BY <1>1 DEF ListedInv, Claims

LEMMA RemovedStays ==
  ASSUME RoleTypeInv, NEW c \in RoleCalls, RoleMoves(c), NEW w, NEW r, TakenOff(w, r)
  PROVE  TakenOff(w, r)'
  <1>1. PICK d \in RoleCalls : task[d].at # "ready" /\ Takes(d, w, r)
    BY DEF TakenOff
  <1>2. task[d].kind \in {"delete space", "delete space role"}
    BY <1>1 DEF Takes
  <1>3. task[d].at \notin RoleSteps
    BY <1>2, HasFits DEF KindFits, RoleSteps
  <1>4. d # c
    BY <1>1, <1>3 DEF RoleMoves, Arrives, Moves, Leaps
  <1>5. task'[d] = task[d]
    BY <1>4 DEF RoleMoves, Arrives, Moves, Leaps, OthersStay
  <1> QED BY <1>1, <1>5 DEF TakenOff, Takes

(* A workspace that is kept has what it had, but for the role that the     *)
(* request takes from it.                                                  *)
ListedFrom(c) ==
  \A w \in Kept' :
    /\ w \in Kept
    /\ \A r \in listed[w] :
         \/ r \in listed'[w]
         \/ /\ task'[c].at # "ready" /\ task'[c].kind = "delete space role"
            /\ task'[c].space = w /\ task'[c].role = r

LEMMA ListedShape ==
  ASSUME RoleTypeInv, NEW c \in RoleCalls, Asks(c) \/ ReadSteps(c) \/ WriteSteps(c) \/ RefuseCall(c)
  PROVE  ListedFrom(c)
  <1>1. CASE UNCHANGED listed
    BY <1>1 DEF ListedFrom, Kept
  <1>2. CASE Asks(c) \/ ReadSteps(c) \/ RefuseCall(c)
    BY <1>1, <1>2, AsksArrive, ReadStepsFit DEF Arrives, RefuseCall
  <1>3. CASE \/ CreatePermission(c) \/ UpdatePermission(c) \/ WriteOnePermission(c) \/ DeletePermission(c)
             \/ PullOne(c) \/ CreateRole(c) \/ CreateWorkspaceRole(c) \/ UpdateRoleDetail(c)
    <2>1. UNCHANGED listed
      BY <1>3 DEF CreatePermission, UpdatePermission, WriteOnePermission, DeletePermission, PullOne,
                  CreateRole, CreateWorkspaceRole, SaveRole, UpdateRoleDetail
    <2> QED BY <1>1, <2>1
  <1>4. CASE AddToWorkspace(c)
    <2>1. CASE /\ task[c].space \in Kept
               /\ SetsList(task[c].space, listed[task[c].space] \cup {task[c].role})
      <3>1. /\ task[c].space \in Spaces
            /\ listed[task[c].space] \cup {task[c].role} \in (SUBSET RoleIds) \cup {NoSpace}
        BY <1>4, <2>1, AddToWorkspaceShape DEF Kept, RoleTypeInv, RoleDocs
      <3>2. PICK w \in Spaces, R \in (SUBSET RoleIds) \cup {NoSpace} :
              w = task[c].space /\ R = listed[w] \cup {task[c].role}
        BY <3>1
      <3>3. SetsList(w, R)
        BY <2>1, <3>2
      <3>4. listed'[w] = R /\ \A v \in Spaces \ {w} : listed'[v] = listed[v]
        BY <3>3, ListSet
      <3> QED BY <2>1, <3>2, <3>4 DEF ListedFrom, Kept
    <2> QED BY <1>1, <1>4, <2>1, AddToWorkspaceShape
  <1>5. CASE DeleteWorkspaceRole(c)
    <2>1. /\ Leaps(c) /\ task[c].kind = "delete space role"
          /\ SetsList(task'[c].space, listed[task'[c].space] \ {task'[c].role})
      BY <1>5, DeleteRoleShape
    <2>2. /\ task'[c].kind = "delete space role" /\ task'[c].at # "ready" /\ task'[c].space \in Kept
      BY <2>1 DEF Leaps, SameRest
    <2>3. /\ task'[c].space \in Spaces
          /\ listed[task'[c].space] \ {task'[c].role} \in (SUBSET RoleIds) \cup {NoSpace}
      BY <2>2 DEF Kept, RoleTypeInv
    <2>4. PICK w \in Spaces, R \in (SUBSET RoleIds) \cup {NoSpace} :
            w = task'[c].space /\ R = listed[w] \ {task'[c].role}
      BY <2>3
    <2>5. SetsList(w, R)
      BY <2>1, <2>4
    <2>6. listed'[w] = R /\ \A v \in Spaces \ {w} : listed'[v] = listed[v]
      BY <2>5, ListSet
    <2> QED BY <2>2, <2>4, <2>6 DEF ListedFrom, Kept
  <1>6. CASE DropWorkspace(c)
    <2>1. task'[c].space \in Spaces /\ SetsList(task'[c].space, NoSpace)
      BY <1>6, DropWorkspaceShape DEF Leaps, Kept
    <2>2. /\ listed'[task'[c].space] = NoSpace
          /\ \A v \in Spaces \ {task'[c].space} : listed'[v] = listed[v]
      BY <2>1, ListSet
    <2> QED BY <2>1, <2>2 DEF ListedFrom, Kept
  <1> QED BY <1>2, <1>3, <1>4, <1>5, <1>6 DEF WriteSteps

LEMMA ListedStep ==
  ASSUME RoleTypeInv, ListedInv, NEW c \in RoleCalls, RoleMoves(c), ListedFrom(c), Routes(c)
  PROVE  ListedInv'
  <1>1. \A d \in RoleCalls \ {c} : task'[d] = task[d]
    BY DEF RoleMoves, Arrives, Moves, Leaps, OthersStay
  <1>2. \A w, r : TakenOff(w, r) => TakenOff(w, r)'
    BY RemovedStays
  <1>3. SUFFICES ASSUME NEW d \in RoleCalls, NEW w, NEW r, Claims(d, w, r)', w \in Kept'
                 PROVE  r \in listed'[w] \/ TakenOff(w, r)'
    BY DEF ListedInv
  <1>4. CASE Claims(d, w, r)
    <2>1. w \in Kept
      BY <1>3 DEF ListedFrom
    <2>2. CASE TakenOff(w, r)
      BY <1>2, <2>2
    <2>3. CASE r \in listed[w]
      <3>1. CASE r \in listed'[w]
        BY <3>1
      <3>2. CASE /\ task'[c].at # "ready" /\ task'[c].kind = "delete space role"
                 /\ task'[c].space = w /\ task'[c].role = r
        BY <3>2 DEF TakenOff, Takes
      <3> QED BY <1>3, <2>3, <3>1, <3>2 DEF ListedFrom
    <2> QED BY <1>4, <2>1, <2>2, <2>3 DEF ListedInv
  <1>5. CASE d # c
    BY <1>1, <1>3, <1>4, <1>5 DEF Claims
  <1>6. CASE d = c /\ CheckRole(c)
    <2>1. /\ Moves(c) /\ KeepsRest(c) /\ UNCHANGED listed /\ task'[c].at \in {"find role", "failed"}
          /\ task'[c].at = "find role" => task[c].role \in listed[task[c].space]
      BY <1>6, CheckRoleFits DEF CheckRole, Reads
    <2>2. task[c].space = w /\ task[c].role = r /\ task'[c].at = "find role"
      BY <1>3, <1>6, <2>1 DEF Claims, Moves, SameAsk, KeepsRest
    <2> QED BY <2>1, <2>2
  <1>7. CASE d = c /\ (FindRole(c) \/ UpdateRoleDetail(c))
    <2>1. Moves(c) /\ KeepsRest(c) /\ task[c].at \in {"find role", "write role"}
      BY <1>7, FindRoleFits, UpdateRoleShape DEF Ended
    <2>2. task[c].kind \in {"update role", "edit space role"}
      BY <2>1, HasFits DEF KindFits
    <2>3. Claims(c, w, r)
      BY <1>3, <1>7, <2>1, <2>2 DEF Claims, Moves, SameAsk, KeepsRest
    <2> QED BY <1>4, <1>7, <2>3
  <1>8. CASE d = c /\ AddToWorkspace(c)
    <2>1. Moves(c) /\ KeepsRest(c) /\ task[c].space \in Spaces /\ task[c].role \in RoleDocs
      BY <1>8, AddToWorkspaceShape DEF Ended
    <2>2. task[c].space = w /\ task[c].role = r
      BY <1>3, <1>8, <2>1 DEF Claims, Moves, SameAsk, KeepsRest
    <2>3. w \in Kept
      BY <1>3 DEF ListedFrom
    <2>4. SetsList(w, listed[w] \cup {r})
      BY <1>8, <2>2, <2>3, AddToWorkspaceShape
    <2>5. w \in Spaces /\ listed[w] \cup {r} \in (SUBSET RoleIds) \cup {NoSpace}
      BY <2>1, <2>2, <2>3 DEF Kept, RoleTypeInv, RoleDocs
    <2>6. listed'[w] = listed[w] \cup {r}
      BY <2>4, <2>5, ListSet
    <2> QED BY <2>6
  <1> QED BY <1>3, <1>5, <1>6, <1>7, <1>8, AskedLasts DEF Claims, Routes, Lasts
-----------------------------------------------------------------------------
(* A change of a role that has been written; why the role may have less or *)
(* more than the change gave it; and that there is no other reason.        *)
HasWritten(d, r) == WritesRole(d, r) /\ task[d].at \in {"add to space", "ok"}

Changed(d, r) == \E e \in RoleCalls \ {d} : WritesRole(e, r) /\ NotBefore(e, d)

Off(p, d) == \E e \in RoleCalls : Deletes(e, p) /\ NotBefore(e, d)

AsGiven(d, r, P) ==
  \A p \in PermIds : /\ p \in task[d].body /\ p \notin P => Changed(d, r) \/ Off(p, d)
                     /\ p \in P /\ p \notin task[d].body => Changed(d, r)

(* The permissions of a role among references.                             *)
Of(refs, r) == {p \in PermIds : <<r, p>> \in refs}

(* What the reader c has been shown of a role that d changed.              *)
Shown(c, d, r) ==
  \A p \in PermIds :
    /\ p \in task[d].body \cap task[c].live /\ <<r, p>> \notin task[c].seen =>
         Changed(d, r) \/ perms[p] = GonePerm \/ Off(p, d)
    /\ <<r, p>> \in task[c].seen /\ p \notin task[d].body => Changed(d, r)

(* A role has what the last change gave it, and so have the references a   *)
(* reader follows and those it is shown.                                   *)
LookInv ==
  /\ \A d \in RoleCalls : \A r \in RoleDocs : HasWritten(d, r) => AsGiven(d, r, roles[r])
  /\ \A c \in RoleCalls : task[c].at # "ready" /\ task[c].kind = "show" => task[c].live \subseteq Known \cup Gone
  /\ \A c, d \in RoleCalls : \A r \in task[c].asked :
       task[c].at = "populate permissions" /\ <<c, d>> \in after /\ HasWritten(d, r) =>
         AsGiven(d, r, Of(task[c].todo, r))
  /\ \A c, d \in RoleCalls : \A r \in task[c].asked :
       task[c].at = "ok" /\ <<c, d>> \in after /\ HasWritten(d, r) => Shown(c, d, r)

LEMMA LookImplies == LookInv => ShownAsGiven
  <1> SUFFICES ASSUME LookInv, NEW c \in RoleCalls, NEW d \in RoleCalls, NEW r \in task[c].asked,
                      task[c].at = "ok", <<c, d>> \in after, WritesRole(d, r), task[d].at = "ok",
                      NEW p \in PermIds
               PROVE  /\ p \in task[d].body \cap task[c].live /\ ~(<<r, p>> \in task[c].seen) =>
                           \/ \E e \in RoleCalls \ {d} : WritesRole(e, r) /\ NotBefore(e, d)
                           \/ perms[p] = GonePerm
                           \/ \E e \in RoleCalls : Deletes(e, p) /\ NotBefore(e, d)
                      /\ <<r, p>> \in task[c].seen /\ p \notin task[d].body =>
                           \E e \in RoleCalls \ {d} : WritesRole(e, r) /\ NotBefore(e, d)
    BY DEF ShownAsGiven
  <1>1. HasWritten(d, r)
    BY DEF HasWritten
  <1>2. Shown(c, d, r)
    BY <1>1 DEF LookInv
  <1> QED BY <1>2 DEF Shown, Changed, Off

LEMMA LookStart ==
  ASSUME RoleInit PROVE LookInv
  <1>1. \A c \in RoleCalls : task[c].at = "ready"
    BY DEF RoleInit, Request
  <1> QED BY <1>1 DEF LookInv, HasWritten

(* The reasons last.                                                       *)
LEMMA ReasonsStay ==
  ASSUME RoleTypeInv, NEW c \in RoleCalls, RoleMoves(c), NEW d \in RoleCalls, task[d].at # "ready"
  PROVE  /\ \A r \in RoleIds : Changed(d, r) => Changed(d, r)'
         /\ \A p : Off(p, d) => Off(p, d)'
  <1>1. ASSUME NEW r \in RoleIds, Changed(d, r) PROVE Changed(d, r)'
    <2>1. PICK e \in RoleCalls \ {d} : WritesRole(e, r) /\ NotBefore(e, d)
      BY <1>1 DEF Changed
    <2>2. Lasts(e) /\ task[e].at # "ready"
      BY <2>1, AskedLasts DEF NotBefore
    <2>3. WritesRole(e, r)' /\ NotBefore(e, d)'
      BY <2>1, <2>2, NotBeforeStays DEF Lasts, WritesRole
    <2> QED BY <2>1, <2>3 DEF Changed
  <1>2. ASSUME NEW p, Off(p, d) PROVE Off(p, d)'
    <2>1. PICK e \in RoleCalls : Deletes(e, p) /\ NotBefore(e, d)
      BY <1>2 DEF Off
    <2>2. Lasts(e) /\ task[e].at # "ready"
      BY <2>1, AskedLasts DEF NotBefore
    <2>3. Deletes(e, p)' /\ NotBefore(e, d)'
      BY <2>1, <2>2, NotBeforeStays DEF Lasts, Deletes
    <2> QED BY <2>1, <2>3 DEF Off
  <1> QED BY <1>1, <1>2

LEMMA GivenStays ==
  ASSUME RoleTypeInv, NEW c \in RoleCalls, RoleMoves(c), NEW d \in RoleCalls, task[d].at # "ready",
         NEW r \in RoleIds, NEW P, AsGiven(d, r, P)
  PROVE  AsGiven(d, r, P)'
  <1>1. Lasts(d)
    BY AskedLasts
  <1>2. (Changed(d, r) => Changed(d, r)') /\ \A p : Off(p, d) => Off(p, d)'
    BY ReasonsStay
  <1>3. task'[d].body = task[d].body
    BY <1>1 DEF Lasts
  <1>4. ASSUME NEW p \in PermIds
        PROVE  /\ p \in task'[d].body /\ p \notin P => Changed(d, r)' \/ Off(p, d)'
               /\ p \in P /\ p \notin task'[d].body => Changed(d, r)'
    BY <1>2, <1>3 DEF AsGiven
  <1> QED BY <1>4 DEF AsGiven

(* What is shown is what was given, but for what is gone by then.          *)
LEMMA GivenShown ==
  ASSUME NEW c, NEW d, NEW r, NEW P, AsGiven(d, r, P)',
         \A p \in PermIds :
           /\ p \in P /\ p \in task'[c].live /\ <<r, p>> \notin task'[c].seen => perms'[p] = GonePerm
           /\ <<r, p>> \in task'[c].seen => p \in P
  PROVE  Shown(c, d, r)'
  <1>1. ASSUME NEW p \in PermIds
        PROVE  /\ p \in task'[d].body \cap task'[c].live /\ <<r, p>> \notin task'[c].seen =>
                    Changed(d, r)' \/ perms'[p] = GonePerm \/ Off(p, d)'
               /\ <<r, p>> \in task'[c].seen /\ p \notin task'[d].body => Changed(d, r)'
    BY DEF AsGiven
  <1> QED BY <1>1 DEF Shown

LEMMA ShownStays ==
  ASSUME RoleTypeInv, NEW c \in RoleCalls, RoleMoves(c), CodesFrom(c), NEW e \in RoleCalls \ {c},
         NEW d \in RoleCalls, task[d].at # "ready", NEW r \in RoleIds, Shown(e, d, r)
  PROVE  Shown(e, d, r)'
  <1>1. task'[e] = task[e] /\ task'[d].body = task[d].body
    BY AskedLasts DEF Lasts
  <1>2. (Changed(d, r) => Changed(d, r)') /\ \A p : Off(p, d) => Off(p, d)'
    BY ReasonsStay
  <1>3. \A p \in PermIds : perms[p] = GonePerm => perms'[p] = GonePerm
    BY GoneShape
  <1>4. ASSUME NEW p \in PermIds
        PROVE  /\ p \in task'[d].body \cap task'[e].live /\ <<r, p>> \notin task'[e].seen =>
                    Changed(d, r)' \/ perms'[p] = GonePerm \/ Off(p, d)'
               /\ <<r, p>> \in task'[e].seen /\ p \notin task'[d].body => Changed(d, r)'
    BY <1>1, <1>2, <1>3 DEF Shown
  <1> QED BY <1>4 DEF Shown

(* A request that gives a role its permissions is the only one that has    *)
(* written it newly.                                                       *)
LEMMA WritesNew ==
  ASSUME RoleTypeInv, NEW c \in RoleCalls, RoleMoves(c), RolesFrom(c), Routes(c),
         NEW d \in RoleCalls, NEW r \in RoleIds, HasWritten(d, r)'
  PROVE  HasWritten(d, r) \/ (d = c /\ Gave(c, r))
  <1>1. CASE d # c
    BY <1>1, AskedLasts DEF HasWritten, WritesRole
  <1>2. CASE d = c /\ AddToWorkspace(c)
    <2>1. KeepsRest(c) /\ task[c].at = "add to space" /\ task[c].kind = "create space role"
      BY <1>2, AddToWorkspaceShape DEF Ended
    <2> QED BY <1>2, <2>1 DEF KeepsRest, HasWritten, WritesRole
  <1>3. CASE d = c /\ Saves(c)
    <2>1. PICK x \in RoleIds : Gave(c, x)
      BY <1>3 DEF RolesFrom
    <2> QED BY <1>3, <2>1 DEF Gave, HasWritten, WritesRole
  <1>4. /\ task'[d].at \in {"add to space", "ok"} /\ task'[d].kind = task[d].kind
        /\ task[d].kind \in {"create role", "update role", "create space role", "edit space role"}
    BY AskedLasts DEF HasWritten, WritesRole, Lasts
  <1> QED BY <1>1, <1>2, <1>3, <1>4 DEF Routes, Saves

LEMMA RolesAsGiven ==
  ASSUME RoleTypeInv, EndedInv, LookInv, NEW c \in RoleCalls, RoleMoves(c), RolesFrom(c), Routes(c),
         NEW d \in RoleCalls, NEW r \in RoleDocs', HasWritten(d, r)'
  PROVE  AsGiven(d, r, roles[r])'
  <1>1. r \in RoleIds /\ \A x \in RoleDocs : x \in RoleIds
    BY DEF RoleDocs
  <1>2. Lasts(c) /\ Lasts(d) /\ (d # c => task'[d] = task[d])
    BY AskedLasts
  <1>3. CASE Gave(c, r)
    <2>1. c \in InFlightCalls /\ task[c].at # "ready" /\ roles'[r] = task[c].body
      BY <1>3, PlacesApart DEF Gave, InFlightCalls
    <2>2. CASE d = c
      <3>1. task'[d].body = roles'[r]
        BY <1>2, <2>1, <2>2 DEF Lasts
      <3> QED BY <3>1 DEF AsGiven
    <2>3. CASE d # c
      <3>1. task[d].at # "ready"
        BY <1>2, <2>3 DEF HasWritten
      <3>2. NotBefore(c, d)'
        BY <2>1, <3>1, UnderWay, NotBeforeStays
      <3>3. WritesRole(c, r)'
        BY <1>2, <1>3 DEF Gave, Lasts, WritesRole
      <3>4. Changed(d, r)'
        BY <2>3, <3>2, <3>3 DEF Changed
      <3> QED BY <3>4 DEF AsGiven
    <2> QED BY <2>2, <2>3
  <1>4. CASE ~Gave(c, r)
    <2>1. HasWritten(d, r) /\ task[d].at # "ready"
      BY <1>1, <1>4, WritesNew DEF HasWritten
    <2>2. CASE r \in RoleDocs /\ roles'[r] = roles[r]
      <3>1. AsGiven(d, r, roles[r])
        BY <2>1, <2>2 DEF LookInv
      <3>2. PICK P : P = roles[r]
        OBVIOUS
      <3>3. AsGiven(d, r, P)'
        BY <1>1, <2>1, <3>1, <3>2, GivenStays
      <3> QED BY <2>2, <3>2, <3>3 DEF AsGiven
    <2>3. CASE r \in RoleDocs /\ Pulled(c, r)
      <3>1. AsGiven(d, r, roles[r])
        BY <2>1, <2>3 DEF LookInv
      <3>2. PICK P : P = roles[r]
        OBVIOUS
      <3>3. AsGiven(d, r, P)'
        BY <1>1, <2>1, <3>1, <3>2, GivenStays
      <3>4. c \in InFlightCalls /\ task[c].at # "ready" /\ roles'[r] = P \ {task[c].perm}
        BY <2>3, <3>2, PlacesApart DEF Pulled, InFlightCalls
      <3>5. Off(task[c].perm, d)
        BY <2>3, <3>4, UnderWay DEF Off, Deletes, Pulled
      <3>6. \A p : p = task[c].perm => Off(p, d)'
        BY <2>1, <3>5, ReasonsStay
      <3> QED BY <3>3, <3>4, <3>6 DEF AsGiven
    <2>4. (r \in RoleDocs /\ roles'[r] = roles[r]) \/ (r \in RoleDocs /\ Pulled(c, r))
      <3>1. CASE UNCHANGED roles /\ RoleDocs' = RoleDocs
        BY <3>1
      <3>2. ASSUME NEW x \in RoleDocs, Pulled(c, x)
            PROVE  (r \in RoleDocs /\ roles'[r] = roles[r]) \/ (r \in RoleDocs /\ Pulled(c, r))
        BY <1>1, <3>2 DEF Pulled
      <3>3. ASSUME NEW x \in RoleIds, Gave(c, x)
            PROVE  r \in RoleDocs /\ roles'[r] = roles[r]
        <4>1. r # x
          BY <1>4, <3>3
        <4> QED BY <1>1, <3>3, <4>1 DEF Gave
      <3> QED BY <3>1, <3>2, <3>3 DEF RolesFrom
    <2> QED BY <2>2, <2>3, <2>4
  <1> QED BY <1>3, <1>4

LEMMA LookStep ==
  ASSUME RoleTypeInv, EndedInv, LookInv, NEW c \in RoleCalls,
         RoleMoves(c), CodesFrom(c), RolesFrom(c), Routes(c)
  PROVE  LookInv'
  <1>1. /\ \A e \in RoleCalls \ {c} : task'[e] = task[e]
        /\ \A e \in RoleCalls : Lasts(e)
    BY AskedLasts
  <1>2. Known \cup Gone \subseteq Known' \cup Gone'
    BY DEF CodesFrom, OneCode, Known, Exists, Gone
  <1>3. \A e \in RoleCalls : task[e].asked \subseteq RoleIds /\ (task[e].asked # {} => task[e].kind = "show")
    BY HasFits DEF TaskRec, Fits
  <1>4. /\ task'[c].asked \subseteq RoleIds /\ (task'[c].asked # {} => task'[c].kind = "show")
    <2>1. task'[c] \in TaskRec
      BY DEF RoleMoves, Arrives, Moves, Leaps, OthersStay
    <2>2. CASE Arrives(c) \/ Leaps(c)
      BY <2>1, <2>2 DEF Arrives, Leaps, Fits, TaskRec
    <2>3. CASE Moves(c)
      BY <1>3, <2>3 DEF Moves, SameAsk
    <2> QED BY <2>2, <2>3 DEF RoleMoves
  (* Whom a reader finds ended does not move.                              *)
  <1>5. ASSUME NEW e \in RoleCalls, NEW d \in RoleCalls, <<e, d>> \in after'
        PROVE  /\ d # c /\ task'[d] = task[d] /\ task[d].at # "ready"
               /\ \A r : HasWritten(d, r)' => HasWritten(d, r)
    <2>1. task[d].at \in RoleEnds
      <3>1. CASE <<e, d>> \in after
        BY <3>1 DEF EndedInv
      <3>2. CASE Meets(c) /\ <<e, d>> \notin after
        BY <1>5, <3>2 DEF Meets
      <3> QED BY <1>5, <3>1, <3>2 DEF RoleMoves, Arrives, Moves, Leaps
    <2>2. d # c /\ task[d].at # "ready"
      BY <2>1, PlacesApart DEF RoleMoves, Arrives, Moves, Leaps
    <2>3. task'[d] = task[d]
      BY <1>1, <2>2
    <2> QED BY <2>2, <2>3 DEF HasWritten, WritesRole
  <1>6. \A d \in RoleCalls : \A r \in RoleDocs' : HasWritten(d, r)' => AsGiven(d, r, roles[r])'
    BY RolesAsGiven
  <1>7. \A e \in RoleCalls : task'[e].at # "ready" /\ task'[e].kind = "show" =>
          task'[e].live \subseteq Known' \cup Gone'
    <2> SUFFICES ASSUME NEW e \in RoleCalls, task'[e].at # "ready", task'[e].kind = "show"
                 PROVE  task'[e].live \subseteq Known' \cup Gone'
      OBVIOUS
    <2>1. CASE e # c
      BY <1>1, <1>2, <2>1 DEF LookInv
    <2>2. CASE e = c /\ Arrives(c)
      BY <1>2, <2>2 DEF Arrives, AsksFor
    <2>3. CASE e = c /\ Moves(c)
      BY <1>2, <2>3, PlacesApart DEF Moves, SameAsk, LookInv
    <2>4. CASE e = c /\ Leaps(c)
      BY <2>4 DEF Leaps, SameRest
    <2> QED BY <2>1, <2>2, <2>3, <2>4 DEF RoleMoves
  <1>8. \A e, d \in RoleCalls : \A r \in task'[e].asked :
          task'[e].at = "populate permissions" /\ <<e, d>> \in after' /\ HasWritten(d, r)' =>
            AsGiven(d, r, Of(task[e].todo, r))'
    <2> SUFFICES ASSUME NEW e \in RoleCalls, NEW d \in RoleCalls, NEW r \in task'[e].asked,
                        task'[e].at = "populate permissions", <<e, d>> \in after', HasWritten(d, r)'
                 PROVE  AsGiven(d, r, Of(task[e].todo, r))'
      OBVIOUS
    <2>1. PICK P : P = Of(task'[e].todo, r)
      OBVIOUS
    <2>2. d # c /\ task[d].at # "ready" /\ HasWritten(d, r) /\ r \in RoleIds
      BY <1>1, <1>3, <1>4, <1>5
    <2>3. AsGiven(d, r, P)
      <3>1. CASE e # c
        <4>1. task[e] = task'[e] /\ <<e, d>> \in after
          BY <1>1, <3>1, NotBeforeStays
        <4> QED BY <2>1, <2>2, <4>1 DEF LookInv
      <3>2. CASE e = c /\ PopulateRoles(c)
        <4>1. /\ task'[c].todo = RefsOf(task[c].asked) /\ task[c].asked \in SUBSET RoleDocs
              /\ task'[c].asked = task[c].asked
          BY <3>2, PopulateRolesFits DEF Moves, SameAsk
        <4>2. PICK R \in SUBSET RoleDocs : R = task[c].asked
          BY <4>1
        <4>3. r \in R /\ roles[r] = {p \in PermIds : <<r, p>> \in RefsOf(R)}
          BY <3>2, <4>1, <4>2, RefsOfDocs
        <4>4. P = {p \in PermIds : <<r, p>> \in RefsOf(R)}
          BY <2>1, <3>2, <4>1, <4>2 DEF Of
        <4>5. r \in RoleDocs /\ roles[r] = P
          BY <4>3, <4>4
        <4> QED BY <2>2, <4>5 DEF LookInv
      <3> QED BY <3>1, <3>2 DEF Routes
    <2>4. AsGiven(d, r, P)'
      BY <2>2, <2>3, GivenStays
    <2> QED BY <2>1, <2>4 DEF AsGiven, Of
  <1>9. \A e, d \in RoleCalls : \A r \in task'[e].asked :
          task'[e].at = "ok" /\ <<e, d>> \in after' /\ HasWritten(d, r)' => Shown(e, d, r)'
    <2> SUFFICES ASSUME NEW e \in RoleCalls, NEW d \in RoleCalls, NEW r \in task'[e].asked,
                        task'[e].at = "ok", <<e, d>> \in after', HasWritten(d, r)'
                 PROVE  Shown(e, d, r)'
      OBVIOUS
    <2>1. d # c /\ task[d].at # "ready" /\ HasWritten(d, r) /\ r \in RoleIds
      BY <1>1, <1>3, <1>4, <1>5
    <2>2. CASE e # c
      <3>1. task[e] = task'[e] /\ <<e, d>> \in after
        BY <1>1, <2>2, NotBeforeStays
      <3>2. Shown(e, d, r)
        BY <2>1, <3>1 DEF LookInv
      <3> QED BY <2>1, <2>2, <3>2, ShownStays
    <2>3. CASE e = c /\ Arrives(c)
      <3>1. task'[c].kind = "show" /\ task'[c].asked \in SUBSET RoleDocs /\ task'[c].seen = RefsOf(task'[c].asked)
        BY <2>3 DEF Arrives, AsksFor
      <3>2. PICK P : P = roles[r]
        OBVIOUS
      <3>3. r \in RoleDocs /\ P = {p \in PermIds : <<r, p>> \in task'[c].seen}
        BY <2>3, <3>1, <3>2, RefsOfDocs
      <3>4. AsGiven(d, r, P)
        BY <2>1, <3>2, <3>3 DEF LookInv
      <3>5. AsGiven(d, r, P)'
        BY <2>1, <3>4, GivenStays
      <3> QED BY <2>3, <3>3, <3>5, GivenShown
    <2>4. CASE e = c /\ PopulatePermissions(c)
      <3>1. /\ Moves(c) /\ task'[c].seen = Populated(task[c].todo) /\ UNCHANGED perms
            /\ task[c].at = "populate permissions"
        BY <2>4, PopulatePermissionsFits DEF PopulatePermissions, Reads
      <3>2. /\ task'[c].asked = task[c].asked /\ task'[c].live = task[c].live /\ <<c, d>> \in after
            /\ task[c].kind = "show"
        BY <1>3, <2>4, <3>1 DEF Moves, SameAsk
      <3>3. PICK P : P = Of(task[c].todo, r)
        OBVIOUS
      <3>4. AsGiven(d, r, P)
        BY <2>1, <2>4, <3>1, <3>2, <3>3 DEF LookInv
      <3>5. AsGiven(d, r, P)'
        BY <2>1, <3>4, GivenStays
      <3>6. \A p \in PermIds : <<r, p>> \in task'[c].seen <=> p \in P /\ Exists(p)
        BY <3>1, <3>3 DEF Of, Populated
      <3>7. task'[c].live \subseteq Known \cup Gone
        BY <3>1, <3>2 DEF LookInv
      <3>8. \A p \in PermIds : p \in task'[c].live /\ ~Exists(p) => perms'[p] = GonePerm
        BY <3>1, <3>7 DEF Known, Gone
      <3> QED BY <2>4, <3>5, <3>6, <3>8, GivenShown
    <2>5. e = c => task[c].kind = "show"
      BY <1>1, <1>4 DEF Lasts
    <2> QED BY <2>2, <2>3, <2>4, <2>5 DEF Routes
  <1> QED BY <1>6, <1>7, <1>8, <1>9 DEF LookInv
-----------------------------------------------------------------------------
(* All of it together is inductive.                                        *)
RolesInv == RoleTypeInv /\ BesideInv /\ EndedInv /\ RefsInv /\ CodesInv /\ ListedInv /\ LookInv

LEMMA RolesStart == RoleInit => RolesInv
  BY TypeStart, BesideStart, EndedStart, RefsStart, CodesStart, ListedStart, LookStart DEF RolesInv

(* A step that changes none of the variables keeps all of it.              *)
Still ==
  /\ perms' = perms /\ roles' = roles /\ listed' = listed /\ task' = task
  /\ beside' = beside /\ after' = after

LEMMA RefsSame ==
  ASSUME RefsInv, Still PROVE RefsInv'
  <1>1. \A c, d : NotBefore(c, d)' <=> NotBefore(c, d)
    BY DEF Still, NotBefore
  <1>2. \A p, r : Excuse(p, r)' <=> Excuse(p, r)
    BY <1>1 DEF Still, Excuse, Deletes, WritesRole
  <1>3. RoleDocs' = RoleDocs /\ \A c, p : Deletes(c, p)' <=> Deletes(c, p)
    BY DEF Still, RoleDocs, Deletes
  <1> QED BY <1>2, <1>3 DEF Still, RefsInv

LEMMA LookSame ==
  ASSUME LookInv, Still PROVE LookInv'
  <1>1. \A c, d : NotBefore(c, d)' <=> NotBefore(c, d)
    BY DEF Still, NotBefore
  <1>2. /\ \A d, r : Changed(d, r)' <=> Changed(d, r)
        /\ \A p, d : Off(p, d)' <=> Off(p, d)
        /\ \A d, r : HasWritten(d, r)' <=> HasWritten(d, r)
    BY <1>1 DEF Still, Changed, Off, HasWritten, WritesRole, Deletes
  <1>3. /\ \A d, r, P : AsGiven(d, r, P)' <=> AsGiven(d, r, P)
        /\ \A c, d, r : Shown(c, d, r)' <=> Shown(c, d, r)
    BY <1>2 DEF Still, AsGiven, Shown
  <1>4. RoleDocs' = RoleDocs /\ Known' = Known /\ Gone' = Gone
    BY DEF Still, RoleDocs, Known, Exists, Gone
  <1> QED BY <1>2, <1>3, <1>4 DEF Still, LookInv

LEMMA CodesSame ==
  ASSUME CodesInv, Still PROVE CodesInv'
  <1>1. \A k : CodeExcuse(k) => CodeExcuse(k)'
    BY DEF Still, CodeExcuse, GivesCode
  <1>2. Known' = Known /\ \A c : CodeIn(c)' = CodeIn(c)
    BY DEF Still, Known, Exists, CodeIn
  <1>3. \A p, q \in Known' : \A k : p # q /\ perms'[p] = k /\ perms'[q] = k => CodeExcuse(k)'
    BY <1>1, <1>2 DEF Still, CodesInv
  <1>4. ASSUME NEW c \in RoleCalls, NEW k, task'[c].at = "write permission", CodeIn(c)' = k,
               NEW q \in Known', perms'[q] = k
        PROVE  (task'[c].kind = "update permission" /\ q = task'[c].perm) \/ CodeExcuse(k)'
    BY <1>1, <1>2, <1>4 DEF Still, CodesInv
  <1> QED BY <1>3, <1>4 DEF CodesInv

LEMMA ListedSame ==
  ASSUME ListedInv, Still PROVE ListedInv'
  <1>1. \A w, r : TakenOff(w, r) => TakenOff(w, r)'
    BY DEF Still, TakenOff, Takes
  <1>2. \A c, w, r : Claims(c, w, r)' => Claims(c, w, r)
    BY DEF Still, Claims
  <1>3. Kept' = Kept
    BY DEF Still, Kept
  <1> QED BY <1>1, <1>2, <1>3 DEF Still, ListedInv

LEMMA RolesStep == RolesInv /\ [RoleNext]_roleVars => RolesInv'
  <1> SUFFICES ASSUME RolesInv, [RoleNext]_roleVars PROVE RolesInv'
    OBVIOUS
  <1>1. RoleTypeInv /\ BesideInv /\ EndedInv /\ RefsInv /\ CodesInv /\ ListedInv /\ LookInv
    BY DEF RolesInv
  <1>2. RoleTypeInv'
    BY <1>1, RoleTypeStep
  <1>3. ASSUME NEW c \in RoleCalls, Asks(c) \/ ReadSteps(c) \/ WriteSteps(c) \/ RefuseCall(c)
        PROVE  BesideInv' /\ EndedInv' /\ RefsInv' /\ CodesInv' /\ ListedInv' /\ LookInv'
    <2>1. RoleMoves(c) /\ CodesFrom(c) /\ RolesFrom(c) /\ ListedFrom(c) /\ Routes(c)
      BY <1>1, <1>3, StepShapes, CodesShape, RolesShape, ListedShape, RouteShape
    <2>2. GoneFrom(c)
      BY <1>1, <2>1, GoneShape
    <2>3. BesideInv' /\ EndedInv' /\ RefsInv'
      BY <1>1, <2>1, <2>2, BesideStep, EndedStep, RefsStep
    <2>4. CodesInv' /\ ListedInv' /\ LookInv'
      BY <1>1, <2>1, CodesStep, ListedStep, LookStep
    <2> QED BY <2>3, <2>4
  <1>4. CASE UNCHANGED roleVars
    <2>1. Still
      BY <1>4 DEF roleVars, Still
    <2>2. BesideInv' /\ EndedInv'
      BY <1>1, <2>1 DEF Still, BesideInv, EndedInv, InFlightCalls
    <2>3. RefsInv' /\ LookInv'
      BY <1>1, <2>1, RefsSame, LookSame
    <2>4. CodesInv'
      BY <1>1, <2>1, CodesSame
    <2>5. ListedInv'
      BY <1>1, <2>1, ListedSame
    <2> QED BY <1>2, <2>2, <2>3, <2>4, <2>5 DEF RolesInv
  <1>5. CASE RoleNext
    <2>1. BesideInv' /\ EndedInv' /\ RefsInv' /\ CodesInv' /\ ListedInv' /\ LookInv'
      BY <1>3, <1>5, StepIs
    <2> QED BY <1>2, <2>1 DEF RolesInv
  <1> QED BY <1>4, <1>5

LEMMA RolesKept == RoleSpec => []RolesInv
  BY RolesStart, RolesStep, PTL DEF RoleSpec

(* No role refers to a deleted permission, unless a request gave it to the *)
(* role that had not ended when the deletion arrived: deletePermission     *)
(* pulls it from every role it lists before it deletes it, but no request  *)
(* that gives permissions to a role looks whether there are such.          *)
THEOREM RefsStayLive == RoleSpec => []RefsLive
  <1>1. RolesInv => RefsLive
    BY DEF RolesInv, RefsInv, RefsLive, Excuse
  <1> QED BY <1>1, RolesKept, PTL

(* Two permissions never get one code but through two requests that were   *)
(* active together or through massiveUpdatePermissions, which does not     *)
(* look.                                                                   *)
THEOREM CodesStayUnique == RoleSpec => []CodesOnce
  <1>1. RolesInv => CodesOnce
    BY CodesImplies DEF RolesInv
  <1> QED BY <1>1, RolesKept, PTL

(* A role that was made or edited through a workspace, and acknowledged,   *)
(* is listed by it unless somebody asked to take it away.                  *)
THEOREM SpaceRolesStayListed == RoleSpec => []SpaceRolesListed
  <1>1. RolesInv => SpaceRolesListed
    BY ListedImplies DEF RolesInv
  <1> QED BY <1>1, RolesKept, PTL

(* Who asks for a role after a change of it was acknowledged is shown what *)
(* the change gave it, whichever queries show it, but for what other       *)
(* changes of the role and deletions did that had not ended before.        *)
THEOREM ChangesAreShown == RoleSpec => []ShownAsGiven
  <1>1. RolesInv => ShownAsGiven
    BY LookImplies DEF RolesInv
  <1> QED BY <1>1, RolesKept, PTL
-----------------------------------------------------------------------------
(* THE LISTS OF ADDRESSES *)

AdminRec ==
  [at : {"ready", "try", "done", "failed"}, op : {"add", "remove"}, list : Lists,
   ip : Ips \cup {NoIp}, exp : Terms \cup {NotGiven}, tries : 0 .. Attempts]

VisitRec ==
  [at : {"ready", "white", "black", "points", "done"}, ip : Ips \cup {NoIp},
   answer : {"none", "next", "blocked", "points", "invalid"}]

ReportRec ==
  [at : {"ready", "told", "counted", "refused"}, points : 0 .. Threshold, block : BOOLEAN]

IpTypeInv ==
  /\ ipList \in [Ips -> Doc \cup {NoIp}]
  /\ time \in 0 .. LastTime
  /\ admin \in [Admins -> AdminRec]
  /\ visit \in [Visitors -> VisitRec]
  /\ reports \in [Reporters -> ReportRec]
  /\ logged \in [Ips -> Nat] /\ general \in [Ips -> Nat]
  /\ alone \subseteq Admins /\ stood \subseteq Visitors /\ was \subseteq Visitors
  /\ failures \in 0 .. MaxFailures
  /\ \A a \in Admins : IF admin[a].at = "ready" THEN admin[a].ip = NoIp ELSE admin[a].ip \in Ips
  /\ \A v \in Visitors : visit[v].at # "ready" => visit[v].ip \in Ips

LEMMA IpTypeImplies == IpTypeInv => IpTypeOK
  BY DEF IpTypeInv, IpTypeOK, AdminRec, VisitRec, ReportRec

(* No entry that is counted has points, and no document has any.           *)
ScoreInv ==
  /\ \A ip \in Ips : logged[ip] = 0
  /\ \A ip \in Ips : ipList[ip] # NoIp => ipList[ip].points = 0
  /\ \A r \in Reporters : reports[r].points = 0 /\ reports[r].block = FALSE
  /\ \A v \in Visitors : visit[v].answer # "points"

(* However many violations are told of an address, no check ever counts a  *)
(* point of it and no request is refused for its points: they are told by  *)
(* entries of another type than those that are counted.                    *)
NothingScores ==
  /\ \A r \in Reporters : reports[r].points = 0 /\ ~reports[r].block
  /\ \A v \in Visitors : visit[v].answer # "points"

LEMMA ScoreImplies == ScoreInv => NothingScores
  BY DEF ScoreInv, NothingScores

(* A request whose address is on the blacklist all through has not passed  *)
(* the look at it; one whose address is on it now was so at some moment.   *)
FilterInv ==
  \A v \in Visitors :
    /\ v \in stood => \/ visit[v].at \in {"white", "black"} /\ Blacklisted(ipList[visit[v].ip])
                      \/ visit[v].at = "done" /\ visit[v].answer = "blocked"
    /\ visit[v].at \notin {"ready", "done"} /\ Blacklisted(ipList[visit[v].ip]) => v \in was
    /\ visit[v].at = "done" /\ visit[v].answer = "blocked" => v \in was

LEMMA FilterImplies == FilterInv => FilterFollowsLists
  BY DEF FilterInv, FilterFollowsLists

Listed(ip, list) == ipList[ip] # NoIp /\ ipList[ip].list = list /\ ipList[ip].active

(* An expiration that was asked for the address has passed or is null.     *)
Lapses(exp, t) == exp = Null \/ exp \in 1 .. t

Lapsed(ip) == \E b \in Admins : admin[b].ip = ip /\ Lapses(admin[b].exp, time)

(* No other change of an address is under way while one is alone; the      *)
(* expiration of a document is one that was asked for.                     *)
ChangesInv ==
  /\ \A a \in alone : /\ admin[a].at # "ready"
                      /\ \A b \in Admins \ {a} : admin[b].at = "try" => admin[b].ip # admin[a].ip
  /\ \A ip \in Ips : ipList[ip] # NoIp /\ ipList[ip].exp # NotGiven =>
       \E b \in Admins : admin[b].ip = ip /\ admin[b].exp = ipList[ip].exp
  /\ \A a \in alone : admin[a].at = "done" =>
       IF admin[a].op = "add"
       THEN Listed(admin[a].ip, admin[a].list) \/ Lapsed(admin[a].ip)
       ELSE ~Listed(admin[a].ip, admin[a].list)

LEMMA ChangesImplies == IpTypeInv /\ ChangesInv => ChangesStand
  <1> SUFFICES ASSUME IpTypeInv, ChangesInv, NEW a \in alone, admin[a].at = "done"
               PROVE  IF admin[a].op = "add"
                      THEN IsInList(admin[a].ip, admin[a].list) \/ Lapsed(admin[a].ip)
                      ELSE ~IsInList(admin[a].ip, admin[a].list)
    BY DEF ChangesStand, Lapsed, Lapses
  <1>1. a \in Admins /\ admin[a].ip \in Ips
    BY DEF IpTypeInv
  <1>2. CASE admin[a].op = "add"
    <2>1. CASE Listed(admin[a].ip, admin[a].list) /\ ~Unexpired(ipList[admin[a].ip])
      <3>1. /\ ipList[admin[a].ip] # NoIp /\ ipList[admin[a].ip] \in Doc
            /\ ipList[admin[a].ip].exp # NotGiven /\ ~(ipList[admin[a].ip].exp > time)
        BY <1>1, <2>1 DEF Listed, Unexpired, IpTypeInv
      <3>2. PICK b \in Admins : admin[b].ip = admin[a].ip /\ admin[b].exp = ipList[admin[a].ip].exp
        BY <1>1, <3>1 DEF ChangesInv
      <3>3. admin[b].exp = Null \/ admin[b].exp \in 1 .. time
        BY <3>1, <3>2 DEF Doc, IpTypeInv, NotGiven
      <3> QED BY <1>2, <3>2, <3>3 DEF Lapsed, Lapses
    <2> QED BY <1>2, <2>1 DEF ChangesInv, Listed, IsInList
  <1>3. CASE admin[a].op # "add"
    BY <1>3 DEF ChangesInv, Listed, IsInList
  <1> QED BY <1>2, <1>3
-----------------------------------------------------------------------------
(* How the steps of a request to change a list change what there is.       *)
Others(a) == admin' \in [Admins -> AdminRec] /\ \A b \in Admins \ {a} : admin'[b] = admin[b]

LEMMA AskShape ==
  ASSUME IpTypeInv, NEW a \in Admins, Ask(a)
  PROVE  /\ Others(a) /\ admin[a].at = "ready" /\ admin'[a].at = "try" /\ admin'[a].ip \in Ips
         /\ admin'[a].tries = 1
         /\ alone' = {b \in alone : admin[b].ip # admin'[a].ip}
                       \cup (IF InFlight(admin'[a].ip) = {} THEN {a} ELSE {})
         /\ UNCHANGED <<ipList, time, visit, logged, general, reports, stood, was, failures>>
  <1>1. /\ admin[a].at = "ready"
        /\ UNCHANGED <<ipList, time, visit, logged, general, reports, stood, was, failures>>
    BY Zenon DEF Ask
  <1>2. PICK op \in {"add", "remove"}, list \in Lists, ip \in Ips, exp \in Terms :
          /\ op = "remove" => exp = NotGiven
          /\ admin' = [admin EXCEPT ![a] = [at |-> "try", op |-> op, list |-> list, ip |-> ip,
                                            exp |-> exp, tries |-> 1]]
          /\ alone' = {b \in alone : admin[b].ip # ip} \cup (IF InFlight(ip) = {} THEN {a} ELSE {})
    BY DEF Ask
  <1>3. PICK t : t = [at |-> "try", op |-> op, list |-> list, ip |-> ip, exp |-> exp, tries |-> 1]
    OBVIOUS
  <1>4. 1 \in 0 .. Attempts
    BY IpAssumption
  <1>5. t \in AdminRec /\ t.at = "try" /\ t.ip = ip /\ t.tries = 1
    BY <1>3, <1>4 DEF AdminRec
  <1>6. admin' = [admin EXCEPT ![a] = t]
    BY <1>2, <1>3
  <1>7. Others(a) /\ admin'[a].at = "try" /\ admin'[a].ip = ip /\ admin'[a].tries = 1
    BY <1>5, <1>6 DEF Others, IpTypeInv
  <1> QED BY <1>1, <1>2, <1>7

Keeps(a) ==
  /\ Others(a) /\ admin[a].at = "try" /\ admin[a].ip \in Ips
  /\ admin'[a].op = admin[a].op /\ admin'[a].list = admin[a].list
  /\ admin'[a].ip = admin[a].ip /\ admin'[a].exp = admin[a].exp
  /\ admin'[a].tries = admin[a].tries

(* A try that failed is the last.                                          *)
LEMMA RetryShape ==
  ASSUME IpTypeInv, NEW a \in Admins, admin[a].at = "try", Retry(a)
  PROVE  Keeps(a) /\ admin'[a].at = "failed"
  <1>1. ~Logs("warning")
    BY DEF Logs, PinoLevels
  <1>2. admin' = [admin EXCEPT ![a].at = "failed"]
    BY <1>1 DEF Retry
  <1>3. admin[a].ip \in Ips /\ admin[a] \in AdminRec
    BY DEF IpTypeInv
  <1> QED BY <1>2, <1>3 DEF Keeps, Others, IpTypeInv, AdminRec

LEMMA SucceedShape ==
  ASSUME IpTypeInv, NEW a \in Admins, admin[a].at = "try", Succeed(a)
  PROVE  Keeps(a) /\ admin'[a].at = "done"
  BY DEF Succeed, Keeps, Others, IpTypeInv, AdminRec

(* What a change may make of the document of its address.                  *)
Fitting(a, d) ==
  /\ d \in Doc \cup {NoIp}
  /\ d # NoIp => /\ d.points = 0
                 /\ \/ d.exp = NotGiven \/ d.exp = admin[a].exp
                    \/ ipList[admin[a].ip] # NoIp /\ d.exp = ipList[admin[a].ip].exp

LEMMA UpsertedFits ==
  ASSUME IpTypeInv, NEW a \in Admins, admin[a].ip \in Ips,
         NEW d, d = Upserted(admin[a].ip, admin[a].list, admin[a].exp, 0)
  PROVE  Fitting(a, d) /\ d # NoIp /\ d.list = admin[a].list /\ d.active = TRUE
  <1>1. admin[a].list \in Lists /\ admin[a].exp \in Nat \cup {Null}
    <2>1. admin[a] \in AdminRec /\ Terms \cup {NotGiven} \subseteq Nat \cup {Null}
      BY IpAssumption DEF IpTypeInv, NotGiven
    <2>2. admin[a].list \in Lists /\ admin[a].exp \in Terms \cup {NotGiven}
      BY <2>1 DEF AdminRec
    <2> QED BY <2>1, <2>2
  <1>2. PICK x : x = IF admin[a].exp = NotGiven /\ ipList[admin[a].ip] # NoIp
                     THEN ipList[admin[a].ip].exp ELSE admin[a].exp
    OBVIOUS
  <1>3. /\ x \in Nat \cup {Null}
        /\ (x = admin[a].exp \/ (ipList[admin[a].ip] # NoIp /\ x = ipList[admin[a].ip].exp))
    BY <1>1, <1>2 DEF IpTypeInv, Doc
  <1>4. d = [list |-> admin[a].list, active |-> TRUE, points |-> 0, exp |-> x]
    BY <1>2 DEF Upserted
  <1>5. d.list = admin[a].list /\ d.active = TRUE /\ d.points = 0 /\ d.exp = x
    BY <1>4
  <1>6. PICK l \in Lists : l = admin[a].list
    BY <1>1
  <1>7. d \in Doc
    <2>1. x \in Nat \cup {Null}
      BY <1>3
    <2>2. [list |-> l, active |-> TRUE, points |-> 0, exp |-> x] \in Doc
      BY <2>1 DEF Doc
    <2> QED BY <1>4, <1>6, <2>2
  <1>8. d # NoIp
    BY <1>7, IpAssumption
  <1> QED BY <1>3, <1>5, <1>7, <1>8 DEF Fitting

LEMMA RemovedFits ==
  ASSUME IpTypeInv, ScoreInv, NEW a \in Admins, admin[a].ip \in Ips,
         NEW d, d = Removed(admin[a].ip, admin[a].list)
  PROVE  Fitting(a, d) /\ (d # NoIp => ~(d.list = admin[a].list /\ d.active))
  <1>1. PICK e \in Doc \cup {NoIp} : e = ipList[admin[a].ip]
    BY DEF IpTypeInv
  <1>2. e # NoIp => e.points = 0
    BY <1>1 DEF ScoreInv
  <1>3. CASE e # NoIp /\ e.list = admin[a].list
    <2>1. d = [e EXCEPT !.active = FALSE] /\ e \in Doc
      BY <1>1, <1>3 DEF Removed
    <2>2. d \in Doc /\ d.points = e.points /\ d.exp = e.exp /\ d.active = FALSE
      BY <2>1 DEF Doc
    <2> QED BY <1>1, <1>2, <1>3, <2>2 DEF Fitting
  <1>4. CASE ~(e # NoIp /\ e.list = admin[a].list)
    <2>1. d = e
      BY <1>1, <1>4 DEF Removed
    <2> QED BY <1>1, <1>2, <1>4, <2>1 DEF Fitting
  <1> QED BY <1>3, <1>4

(* The lists after a change of one document, and the histories with them.  *)
Puts(ip, d) ==
  /\ ipList' \in [Ips -> Doc \cup {NoIp}]
  /\ ipList'[ip] = d /\ \A o \in Ips \ {ip} : ipList'[o] = ipList[o]
  /\ Watch(ipList')

Sets(ip, d) == SetLists([ipList EXCEPT ![ip] = d])

LEMMA PutsIs ==
  ASSUME IpTypeInv, NEW ip \in Ips, NEW d \in Doc \cup {NoIp}, Sets(ip, d)
  PROVE  Puts(ip, d)
  <1>1. ipList' = [ipList EXCEPT ![ip] = d] /\ Watch([ipList EXCEPT ![ip] = d])
    BY DEF Sets, SetLists
  <1>2. Watch(ipList')
    BY <1>1
  <1> QED BY <1>1, <1>2 DEF Puts, IpTypeInv

LEMMA PutsSame ==
  ASSUME IpTypeInv, NEW ip \in Ips, SetLists(ipList)
  PROVE  Puts(ip, ipList[ip])
  <1>1. ipList' = ipList /\ Watch(ipList)
    BY DEF SetLists
  <1>2. Watch(ipList')
    BY <1>1
  <1> QED BY <1>1, <1>2 DEF Puts, IpTypeInv

LEMMA FitsItself ==
  ASSUME IpTypeInv, ScoreInv, NEW a \in Admins, admin[a].ip \in Ips
  PROVE  Fitting(a, ipList[admin[a].ip])
  BY DEF IpTypeInv, ScoreInv, Fitting

(* What is done when a change is acknowledged.                             *)
Achieved(a, d) ==
  IF admin[a].op = "add" THEN d # NoIp /\ d.list = admin[a].list /\ d.active
  ELSE d # NoIp => ~(d.list = admin[a].list /\ d.active)

Altered(a) ==
  /\ Keeps(a)
  /\ \/ UNCHANGED <<ipList, stood, was>> /\ admin'[a].at = "failed"
     \/ \E d : /\ Puts(admin[a].ip, d) /\ Fitting(a, d)
               /\ \/ admin'[a].at = "failed"
                  \/ admin'[a].at = "done" /\ Achieved(a, d)
  /\ UNCHANGED <<time, visit, logged, general, reports, alone>>
  /\ failures' \in 0 .. MaxFailures

LEMMA FailsType ==
  ASSUME IpTypeInv, Fails PROVE failures' \in 0 .. MaxFailures
  BY IpAssumption DEF IpTypeInv, Fails

LEMMA LogsNothing ==
  ASSUME IpTypeInv, ScoreInv, NEW ip \in Ips, LogSecurityViolation(ip, 0)
  PROVE  UNCHANGED logged
  BY DEF LogSecurityViolation, IpTypeInv, ScoreInv

LEMMA FailTryShape ==
  ASSUME IpTypeInv, ScoreInv, NEW a \in Admins, admin[a].at = "try",
         NEW d, Fitting(a, d), FailTry(a, [ipList EXCEPT ![admin[a].ip] = d]),
         UNCHANGED <<time, visit, general, reports, alone>>
  PROVE  Altered(a)
  <1>1. Keeps(a) /\ admin'[a].at = "failed"
    BY RetryShape DEF FailTry
  <1>2. admin[a].ip \in Ips /\ d \in Doc \cup {NoIp}
    BY <1>1 DEF Keeps, Fitting
  <1>3. Sets(admin[a].ip, d) \/ SetLists(ipList)
    BY DEF FailTry, Sets
  <1>4. PICK ip \in Ips : ip = admin[a].ip
    BY <1>2
  <1>5. Puts(ip, d) \/ Puts(ip, ipList[ip])
    BY <1>2, <1>3, <1>4, PutsIs, PutsSame
  <1>6. Fitting(a, ipList[admin[a].ip])
    BY <1>2, FitsItself
  <1>7. \E x : Puts(admin[a].ip, x) /\ Fitting(a, x)
    BY <1>4, <1>5, <1>6
  <1>8. failures' \in 0 .. MaxFailures /\ UNCHANGED logged
    BY FailsType DEF FailTry
  <1> QED BY <1>1, <1>7, <1>8 DEF Altered

LEMMA SucceedTryShape ==
  ASSUME IpTypeInv, ScoreInv, NEW a \in Admins, admin[a].at = "try", Succeed(a),
         NEW d, Fitting(a, d), Achieved(a, d), SetLists([ipList EXCEPT ![admin[a].ip] = d]),
         LogSecurityViolation(admin[a].ip, 0),
         UNCHANGED <<time, visit, general, reports, alone, failures>>
  PROVE  Altered(a)
  <1>1. Keeps(a) /\ admin'[a].at = "done"
    BY SucceedShape
  <1>2. PICK ip \in Ips : ip = admin[a].ip
    BY <1>1 DEF Keeps
  <1>3. Sets(ip, d) /\ d \in Doc \cup {NoIp}
    BY <1>2 DEF Sets, Fitting
  <1>4. Puts(ip, d)
    BY <1>3, PutsIs
  <1>5. LogSecurityViolation(ip, 0)
    BY <1>2
  <1>6. UNCHANGED logged /\ failures' \in 0 .. MaxFailures
    BY <1>5, LogsNothing DEF IpTypeInv
  <1> QED BY <1>1, <1>2, <1>4, <1>6 DEF Altered

LEMMA AddShape ==
  ASSUME IpTypeInv, ScoreInv, NEW a \in Admins, AddToList(a)
  PROVE  Altered(a)
  <1>1. PICK d : d = Upserted(admin[a].ip, admin[a].list, admin[a].exp, 0)
    OBVIOUS
  <1>2. /\ admin[a].at = "try" /\ admin[a].op = "add" /\ admin[a].ip \in Ips
        /\ UNCHANGED <<time, visit, general, reports, alone>>
    BY DEF AddToList, IpTypeInv
  <1>3. Fitting(a, d) /\ Achieved(a, d)
    BY <1>1, <1>2, UpsertedFits DEF Achieved
  <1>4. \/ Retry(a) /\ UNCHANGED <<ipList, logged, stood, was, failures>>
        \/ /\ Succeed(a) /\ SetLists([ipList EXCEPT ![admin[a].ip] = d])
           /\ LogSecurityViolation(admin[a].ip, 0) /\ UNCHANGED failures
        \/ FailTry(a, [ipList EXCEPT ![admin[a].ip] = d])
    BY <1>1 DEF AddToList
  <1>5. CASE Retry(a) /\ UNCHANGED <<ipList, logged, stood, was, failures>>
    <2>1. Keeps(a) /\ admin'[a].at = "failed"
      BY <1>2, <1>5, RetryShape
    <2> QED BY <1>2, <1>5, <2>1 DEF Altered, IpTypeInv
  <1> QED BY <1>2, <1>3, <1>4, <1>5, SucceedTryShape, FailTryShape

LEMMA RemoveShape ==
  ASSUME IpTypeInv, ScoreInv, NEW a \in Admins, RemoveFromList(a)
  PROVE  Altered(a)
  <1>1. PICK d : d = Removed(admin[a].ip, admin[a].list)
    OBVIOUS
  <1>2. /\ admin[a].at = "try" /\ admin[a].op = "remove" /\ admin[a].ip \in Ips
        /\ UNCHANGED <<time, visit, general, reports, alone>>
    BY DEF RemoveFromList, IpTypeInv
  <1>3. Fitting(a, d) /\ Achieved(a, d)
    BY <1>1, <1>2, RemovedFits DEF Achieved
  <1>4. \/ /\ Succeed(a) /\ SetLists([ipList EXCEPT ![admin[a].ip] = d])
           /\ LogSecurityViolation(admin[a].ip, 0) /\ UNCHANGED failures
        \/ FailTry(a, [ipList EXCEPT ![admin[a].ip] = d])
    BY <1>1 DEF RemoveFromList
  <1> QED BY <1>2, <1>3, <1>4, SucceedTryShape, FailTryShape
-----------------------------------------------------------------------------
(* The steps of visits and reports.                                        *)
OthersPass(v) == visit' \in [Visitors -> VisitRec] /\ \A u \in Visitors \ {v} : visit'[u] = visit[u]

LEMMA ArriveShape ==
  ASSUME IpTypeInv, NEW v \in Visitors, Arrive(v)
  PROVE  /\ OthersPass(v) /\ visit[v].at = "ready" /\ visit'[v].at = "white" /\ visit'[v].ip \in Ips
         /\ visit'[v].answer = visit[v].answer
         /\ \/ Blacklisted(ipList[visit'[v].ip]) /\ stood' = stood \cup {v} /\ was' = was \cup {v}
            \/ ~Blacklisted(ipList[visit'[v].ip]) /\ stood' = stood /\ was' = was
         /\ UNCHANGED <<ipList, time, admin, logged, general, reports, alone, failures>>
  <1>1. /\ visit[v].at = "ready"
        /\ UNCHANGED <<ipList, time, admin, logged, general, reports, alone, failures>>
    BY Zenon DEF Arrive
  <1>2. PICK ip \in Ips :
          /\ visit' = [visit EXCEPT ![v].at = "white", ![v].ip = ip]
          /\ stood' = stood \cup (IF Blacklisted(ipList[ip]) THEN {v} ELSE {})
          /\ was' = was \cup (IF Blacklisted(ipList[ip]) THEN {v} ELSE {})
    BY DEF Arrive
  <1>3. /\ OthersPass(v) /\ visit'[v].at = "white" /\ visit'[v].ip = ip
        /\ visit'[v].answer = visit[v].answer
    BY <1>2 DEF OthersPass, IpTypeInv, VisitRec
  <1> QED BY <1>1, <1>2, <1>3

(* A look goes on, or ends with an answer; one that fails is not counted.  *)
Looked(v) ==
  /\ OthersPass(v) /\ visit[v].at \notin {"ready", "done"} /\ visit'[v].ip = visit[v].ip
  /\ \/ visit'[v].at \in {"black", "points"} /\ visit'[v].answer = visit[v].answer
     \/ visit'[v].at = "done" /\ visit'[v].answer \in {"next", "blocked", "points", "invalid"}
  /\ \/ UNCHANGED <<stood, was>>
     \/ stood' = stood \ {v} /\ UNCHANGED was /\ (visit'[v].at = "done" => visit'[v].answer = "invalid")
  /\ failures' \in 0 .. MaxFailures
  /\ UNCHANGED <<ipList, time, admin, logged, general, reports, alone>>

LEMMA LookIs ==
  ASSUME IpTypeInv, NEW v \in Visitors, NEW l \in {"black", "points"}, Look(v, l)
  PROVE  /\ OthersPass(v) /\ visit'[v].ip = visit[v].ip
         /\ visit'[v].at = l /\ visit'[v].answer = visit[v].answer
  BY DEF Look, OthersPass, IpTypeInv, VisitRec

LEMMA AnswerIs ==
  ASSUME IpTypeInv, NEW v \in Visitors, NEW x \in {"next", "blocked", "points", "invalid"}, Answer(v, x)
  PROVE  /\ OthersPass(v) /\ visit'[v].ip = visit[v].ip
         /\ visit'[v].at = "done" /\ visit'[v].answer = x
  BY DEF Answer, OthersPass, IpTypeInv, VisitRec

LEMMA WhiteShape ==
  ASSUME IpTypeInv, NEW v \in Visitors, LookWhite(v)
  PROVE  /\ Looked(v) /\ visit[v].at = "white"
         /\ \/ visit'[v].at = "black"
            \/ visit'[v].at = "done" /\ visit'[v].answer = "next" /\ IsInList(visit[v].ip, "whitelist")
  <1>1. /\ visit[v].at = "white" /\ UNCHANGED <<ipList, time, admin, logged, general, reports, alone>>
        /\ \/ GoodLook /\ IsInList(visit[v].ip, "whitelist") /\ Answer(v, "next")
           \/ GoodLook /\ Look(v, "black")
           \/ FailedLook(v) /\ Look(v, "black")
    BY DEF LookWhite
  <1>2. CASE GoodLook /\ IsInList(visit[v].ip, "whitelist") /\ Answer(v, "next")
    BY <1>1, <1>2, AnswerIs DEF Looked, GoodLook, IpTypeInv
  <1>3. CASE GoodLook /\ Look(v, "black")
    BY <1>1, <1>3, LookIs DEF Looked, GoodLook, IpTypeInv
  <1>4. CASE FailedLook(v) /\ Look(v, "black")
    BY <1>1, <1>4, LookIs, FailsType DEF Looked, FailedLook
  <1> QED BY <1>1, <1>2, <1>3, <1>4

LEMMA BlackShape ==
  ASSUME IpTypeInv, NEW v \in Visitors, LookBlack(v)
  PROVE  /\ Looked(v) /\ visit[v].at = "black"
         /\ \/ visit'[v].at = "points" /\ (v \in stood' => ~IsInList(visit[v].ip, "blacklist"))
            \/ visit'[v].at = "done" /\ visit'[v].answer = "blocked" /\ IsInList(visit[v].ip, "blacklist")
  <1>1. /\ visit[v].at = "black" /\ UNCHANGED <<ipList, time, admin, logged, general, reports, alone>>
        /\ \/ GoodLook /\ IsInList(visit[v].ip, "blacklist") /\ Answer(v, "blocked")
           \/ GoodLook /\ ~IsInList(visit[v].ip, "blacklist") /\ Look(v, "points")
           \/ FailedLook(v) /\ Look(v, "points")
    BY DEF LookBlack
  <1>2. CASE GoodLook /\ IsInList(visit[v].ip, "blacklist") /\ Answer(v, "blocked")
    BY <1>1, <1>2, AnswerIs DEF Looked, GoodLook, IpTypeInv
  <1>3. CASE GoodLook /\ ~IsInList(visit[v].ip, "blacklist") /\ Look(v, "points")
    BY <1>1, <1>3, LookIs DEF Looked, GoodLook, IpTypeInv
  <1>4. CASE FailedLook(v) /\ Look(v, "points")
    BY <1>1, <1>4, LookIs, FailsType DEF Looked, FailedLook
  <1> QED BY <1>1, <1>2, <1>3, <1>4

(* No document has enough points.                                          *)
LEMMA FewPoints ==
  ASSUME IpTypeInv, ScoreInv, NEW ip \in Ips
  PROVE  GetPoints(ip) = 0 /\ ~(GetPoints(ip) >= Threshold)
  BY IpAssumption DEF ScoreInv, GetPoints

LEMMA PointsShape ==
  ASSUME IpTypeInv, ScoreInv, NEW v \in Visitors, LookPoints(v)
  PROVE  /\ Looked(v) /\ visit[v].at = "points"
         /\ visit'[v].at = "done" /\ visit'[v].answer \in {"next", "invalid"}
  <1>1. visit[v].at = "points" /\ UNCHANGED <<ipList, time, admin, logged, general, reports, alone>>
    BY DEF LookPoints
  <1>2. visit[v].ip \in Ips
    BY <1>1 DEF IpTypeInv
  <1>3. ~(GetPoints(visit[v].ip) >= Threshold)
    BY <1>2, FewPoints
  <1>4. \/ GoodLook /\ Answer(v, "next")
        \/ FailedLook(v) /\ Answer(v, "invalid")
    <2>1. (IF GetPoints(visit[v].ip) >= Threshold THEN "points" ELSE "next") = "next"
      BY <1>3
    <2> QED BY <2>1, Zenon DEF LookPoints
  <1>5. CASE GoodLook /\ Answer(v, "next")
    BY <1>1, <1>5, AnswerIs DEF Looked, GoodLook, IpTypeInv
  <1>6. CASE FailedLook(v) /\ Answer(v, "invalid")
    BY <1>1, <1>6, AnswerIs, FailsType DEF Looked, FailedLook
  <1> QED BY <1>4, <1>5, <1>6

(* A report counts no points, and leaves the lists alone.                  *)
Reported ==
  /\ reports' \in [Reporters -> ReportRec] /\ general' \in [Ips -> Nat]
  /\ \A r \in Reporters : reports'[r].points = 0 /\ reports'[r].block = FALSE
  /\ UNCHANGED <<ipList, time, admin, visit, logged, alone, stood, was, failures>>

LEMMA LeastNat ==
  ASSUME NEW m \in Nat, NEW n \in Nat PROVE Least(m, n) \in Nat
  BY DEF Least

Adds(ip, n) == general' = [general EXCEPT ![ip] = Least(@ + n, 2 * Threshold)]

LEMMA AddsType ==
  ASSUME IpTypeInv, NEW ip \in Ips, NEW n \in Nat, Adds(ip, n)
  PROVE  general' \in [Ips -> Nat]
  <1>1. general[ip] + n \in Nat /\ 2 * Threshold \in Nat
    BY IpAssumption DEF IpTypeInv
  <1>2. Least(general[ip] + n, 2 * Threshold) \in Nat
    BY <1>1, LeastNat
  <1> QED BY <1>2 DEF Adds, IpTypeInv

LEMMA TellShape ==
  ASSUME IpTypeInv, ScoreInv, NEW r \in Reporters, SimulateViolation(r)
  PROVE  Reported
  <1>1. UNCHANGED <<time, admin, visit, alone, failures>>
    BY DEF SimulateViolation
  <1>2. PICK ip \in Ips, points \in ViolationPoints : LogSecurityEvent(r, ip, 2 * points, "told")
    BY DEF SimulateViolation
  <1>3. PICK n \in Nat : n = 2 * points
    BY IpAssumption
  <1>4. ~(GetPoints(ip) >= Threshold)
    BY FewPoints
  <1>5. Adds(ip, n) /\ reports' = [reports EXCEPT ![r].at = "told"] /\ UNCHANGED <<ipList, stood, was, logged>>
    BY <1>2, <1>3, <1>4 DEF LogSecurityEvent, Adds
  <1>6. general' \in [Ips -> Nat]
    BY <1>5, AddsType
  <1>7. /\ reports' \in [Reporters -> ReportRec]
        /\ \A q \in Reporters : reports'[q].points = reports[q].points /\ reports'[q].block = reports[q].block
    BY <1>5 DEF IpTypeInv, ReportRec
  <1> QED BY <1>1, <1>5, <1>6, <1>7 DEF Reported, ScoreInv

LEMMA CheckShape ==
  ASSUME IpTypeInv, ScoreInv, NEW r \in Reporters, CheckIp(r)
  PROVE  Reported
  <1>1. UNCHANGED <<time, admin, visit, alone, failures>>
    BY DEF CheckIp
  <1>2. \A ip \in Ips : Scored(ip) = 0 /\ ~(GetPoints(ip) >= Threshold)
    BY FewPoints DEF Scored, ScoreInv
  <1>3. Least(0, Threshold) = 0 /\ ~(0 >= Threshold)
    BY IpAssumption DEF Least
  <1>4. PICK ip \in Ips :
          /\ reports' = [reports EXCEPT ![r] = [at |-> "counted", points |-> 0, block |-> FALSE]]
          /\ Adds(ip, 0)
          /\ UNCHANGED <<ipList, stood, was, logged>>
    <2>1. PICK ip \in Ips :
            IF GetPoints(ip) >= Threshold
            THEN LogSecurityEvent(r, ip, Least(Scored(ip), Threshold), "counted")
            ELSE /\ reports' = [reports EXCEPT ![r] = [at |-> "counted", points |-> Least(Scored(ip), Threshold),
                                                      block |-> Scored(ip) >= Threshold]]
                 /\ general' = [general EXCEPT ![ip] = Least(@ + Least(Scored(ip), Threshold), 2 * Threshold)]
                 /\ UNCHANGED <<ipList, stood, was, logged>>
      BY Zenon DEF CheckIp
    <2>2. Scored(ip) = 0 /\ ~(GetPoints(ip) >= Threshold)
      BY <1>2
    <2>3. Least(Scored(ip), Threshold) = 0 /\ (Scored(ip) >= Threshold) = FALSE
      BY <1>3, <2>2
    <2> QED BY <2>1, <2>2, <2>3 DEF Adds
  <1>5. general' \in [Ips -> Nat]
    BY <1>4, AddsType
  <1>6. [at |-> "counted", points |-> 0, block |-> FALSE] \in ReportRec
    BY IpAssumption DEF ReportRec
  <1>7. PICK t \in ReportRec : /\ t = [at |-> "counted", points |-> 0, block |-> FALSE]
                               /\ t.points = 0 /\ t.block = FALSE
    BY <1>6
  <1>8. reports' \in [Reporters -> ReportRec] /\ \A q \in Reporters : reports'[q] = t \/ reports'[q] = reports[q]
    BY <1>4, <1>7 DEF IpTypeInv
  <1> QED BY <1>1, <1>4, <1>5, <1>7, <1>8 DEF Reported, ScoreInv
-----------------------------------------------------------------------------
(* The TTL index and the clock.                                            *)
Expires(ip) ==
  /\ ipList[ip] # NoIp /\ ipList[ip].exp \in 1 .. time /\ Puts(ip, NoIp)
  /\ UNCHANGED <<time, admin, visit, logged, general, reports, alone, failures>>

LEMMA ExpireShape ==
  ASSUME IpTypeInv, NEW ip \in Ips, Expire(ip)
  PROVE  Expires(ip)
  <1>1. Sets(ip, NoIp)
    BY DEF Expire, Sets
  <1>2. NoIp \in Doc \cup {NoIp}
    OBVIOUS
  <1>3. Puts(ip, NoIp)
    BY <1>1, <1>2, PutsIs
  <1> QED BY <1>3 DEF Expire, Expires

LEMMA WatchIs ==
  ASSUME Watch(ipList')
  PROVE  /\ stood' = {v \in stood : visit[v].at \notin {"ready", "done"} => Blacklisted(ipList'[visit[v].ip])}
         /\ was' = was \cup {v \in Visitors : /\ visit[v].at \notin {"ready", "done"}
                                              /\ Blacklisted(ipList'[visit[v].ip])}
  BY DEF Watch

LEMMA PutsTypes ==
  ASSUME IpTypeInv, NEW ip, NEW d, Puts(ip, d)
  PROVE  ipList' \in [Ips -> Doc \cup {NoIp}] /\ stood' \subseteq Visitors /\ was' \subseteq Visitors
  BY WatchIs DEF Puts, IpTypeInv

(* Types.                                                                  *)
LEMMA IpTypeStep ==
  ASSUME IpTypeInv, ScoreInv, [IpNext]_ipVars PROVE IpTypeInv'
  <1>1. ASSUME NEW a \in Admins, Ask(a) PROVE IpTypeInv'
    <2>1. Others(a) /\ admin'[a].at = "try" /\ admin'[a].ip \in Ips
      BY <1>1, AskShape
    <2>2. UNCHANGED <<ipList, time, visit, logged, general, reports, stood, was, failures>>
      BY <1>1, AskShape
    <2>3. alone' \subseteq Admins
      BY <1>1, AskShape DEF IpTypeInv
    <2> QED BY <2>1, <2>2, <2>3 DEF Others, IpTypeInv
  <1>2. ASSUME NEW a \in Admins, Altered(a) PROVE IpTypeInv'
    <2>1. ipList' \in [Ips -> Doc \cup {NoIp}] /\ stood' \subseteq Visitors /\ was' \subseteq Visitors
      <3>1. CASE UNCHANGED <<ipList, stood, was>>
        BY <3>1 DEF IpTypeInv
      <3>2. CASE \E d : Puts(admin[a].ip, d)
        <4>1. PICK d, ip : ip = admin[a].ip /\ Puts(ip, d)
          BY <3>2
        <4> QED BY <4>1, PutsTypes
      <3> QED BY <1>2, <3>1, <3>2 DEF Altered
    <2>2. /\ admin' \in [Admins -> AdminRec]
          /\ \A b \in Admins : IF admin'[b].at = "ready" THEN admin'[b].ip = NoIp ELSE admin'[b].ip \in Ips
      BY <1>2 DEF Altered, Keeps, Others, IpTypeInv
    <2> QED BY <1>2, <2>1, <2>2 DEF Altered, IpTypeInv
  <1>3. ASSUME NEW ip \in Ips, Expires(ip) PROVE IpTypeInv'
    BY <1>3, PutsTypes DEF Expires, IpTypeInv
  <1>4. ASSUME PassTime PROVE IpTypeInv'
    <2>1. time' \in 0 .. LastTime /\ stood' \subseteq stood
      BY <1>4, IpAssumption DEF PassTime, IpTypeInv
    <2> QED BY <1>4, <2>1 DEF PassTime, IpTypeInv
  <1>5. ASSUME NEW v \in Visitors, Arrive(v) PROVE IpTypeInv'
    <2>1. OthersPass(v) /\ visit'[v].ip \in Ips /\ stood' \subseteq Visitors /\ was' \subseteq Visitors
      BY <1>5, ArriveShape DEF IpTypeInv
    <2>2. UNCHANGED <<ipList, time, admin, logged, general, reports, alone, failures>>
      BY <1>5, ArriveShape
    <2> QED BY <2>1, <2>2 DEF OthersPass, IpTypeInv
  <1>6. ASSUME NEW v \in Visitors, Looked(v) PROVE IpTypeInv'
    <2>1. /\ visit' \in [Visitors -> VisitRec]
          /\ \A u \in Visitors : visit'[u].at # "ready" => visit'[u].ip \in Ips
      BY <1>6 DEF Looked, OthersPass, IpTypeInv
    <2> QED BY <1>6, <2>1 DEF Looked, IpTypeInv
  <1>7. ASSUME Reported PROVE IpTypeInv'
    BY <1>7 DEF Reported, IpTypeInv
  <1>8. CASE UNCHANGED ipVars
    BY <1>8 DEF ipVars, IpTypeInv
  <1> QED BY <1>1, <1>2, <1>3, <1>4, <1>5, <1>6, <1>7, <1>8, AddShape, RemoveShape, ExpireShape,
             WhiteShape, BlackShape, PointsShape, TellShape, CheckShape
          DEF IpNext

(* Points.                                                                 *)
LEMMA ScoreStep ==
  ASSUME IpTypeInv, ScoreInv, [IpNext]_ipVars PROVE ScoreInv'
  <1>1. ASSUME NEW a \in Admins, Ask(a) PROVE ScoreInv'
    BY <1>1, AskShape DEF ScoreInv
  <1>2. ASSUME NEW a \in Admins, Altered(a) PROVE ScoreInv'
    <2>1. \A ip \in Ips : ipList'[ip] # NoIp => ipList'[ip].points = 0
      BY <1>2 DEF Altered, Keeps, Puts, Fitting, ScoreInv
    <2> QED BY <1>2, <2>1 DEF Altered, ScoreInv
  <1>3. ASSUME NEW ip \in Ips, Expires(ip) PROVE ScoreInv'
    BY <1>3 DEF Expires, Puts, ScoreInv
  <1>4. ASSUME PassTime PROVE ScoreInv'
    BY <1>4 DEF PassTime, ScoreInv
  <1>5. ASSUME NEW v \in Visitors, Arrive(v) PROVE ScoreInv'
    <2>1. \A u \in Visitors : visit'[u].answer # "points"
      BY <1>5, ArriveShape DEF OthersPass, ScoreInv
    <2> QED BY <1>5, <2>1, ArriveShape DEF ScoreInv
  <1>6. ASSUME NEW v \in Visitors, Looked(v), visit'[v].answer # "points" PROVE ScoreInv'
    <2>1. \A u \in Visitors : visit'[u].answer # "points"
      BY <1>6 DEF Looked, OthersPass, ScoreInv
    <2> QED BY <1>6, <2>1 DEF Looked, ScoreInv
  <1>7. ASSUME NEW v \in Visitors, LookWhite(v) \/ LookBlack(v) \/ LookPoints(v) PROVE ScoreInv'
    <2>1. /\ Looked(v)
          /\ \/ visit'[v].at \in {"black", "points"}
             \/ visit'[v].answer \in {"next", "blocked", "invalid"}
      BY <1>7, WhiteShape, BlackShape, PointsShape
    <2>2. visit'[v].at \in {"black", "points"} => visit'[v].answer = visit[v].answer
      BY <2>1 DEF Looked
    <2>3. visit[v].answer # "points"
      BY DEF ScoreInv
    <2> QED BY <1>6, <2>1, <2>2, <2>3
  <1>8. ASSUME Reported PROVE ScoreInv'
    BY <1>8 DEF Reported, ScoreInv
  <1>9. CASE UNCHANGED ipVars
    BY <1>9 DEF ipVars, ScoreInv
  <1> QED BY <1>1, <1>2, <1>3, <1>4, <1>5, <1>7, <1>8, <1>9, AddShape, RemoveShape, ExpireShape,
             TellShape, CheckShape
          DEF IpNext

(* The filter.                                                             *)
LEMMA FilterPuts ==
  ASSUME IpTypeInv, FilterInv, NEW ip, NEW d, Puts(ip, d), UNCHANGED <<time, visit>>
  PROVE  FilterInv'
  <1>1. /\ stood' = {v \in stood : visit[v].at \notin {"ready", "done"} => Blacklisted(ipList'[visit[v].ip])}
        /\ was' = was \cup {v \in Visitors : /\ visit[v].at \notin {"ready", "done"}
                                             /\ Blacklisted(ipList'[visit[v].ip])}
    BY WatchIs DEF Puts
  <1>2. \A v \in Visitors : Blacklisted(ipList'[visit[v].ip]) <=> Blacklisted(ipList[visit[v].ip])'
    BY DEF Blacklisted, Unexpired
  <1> SUFFICES ASSUME NEW v \in Visitors
      PROVE  /\ v \in stood' => \/ /\ visit[v].at \in {"white", "black"}
                                   /\ Blacklisted(ipList[visit[v].ip])'
                                \/ visit[v].at = "done" /\ visit[v].answer = "blocked"
             /\ visit[v].at \notin {"ready", "done"} /\ Blacklisted(ipList[visit[v].ip])' => v \in was'
             /\ visit[v].at = "done" /\ visit[v].answer = "blocked" => v \in was'
    BY DEF FilterInv
  <1> QED BY <1>1, <1>2 DEF FilterInv

LEMMA FilterTime ==
  ASSUME IpTypeInv, FilterInv, PassTime PROVE FilterInv'
  <1>1. UNCHANGED <<ipList, visit, was>> /\ time' = time + 1 /\ time \in Nat
    BY DEF PassTime, IpTypeInv
  <1>2. ASSUME NEW v \in stood'
        PROVE  /\ v \in stood
               /\ \/ visit[v].at = "done"
                  \/ LET d == ipList[visit[v].ip] IN ~(d # NoIp /\ d.exp \in 1 .. time + 1)
    BY <1>2 DEF PassTime
  <1>3. ASSUME NEW v \in Visitors, visit[v].at # "ready"
        PROVE  /\ Blacklisted(ipList[visit[v].ip])' => Blacklisted(ipList[visit[v].ip])
               /\ v \in stood' /\ visit[v].at # "done" /\ Blacklisted(ipList[visit[v].ip])
                    => Blacklisted(ipList[visit[v].ip])'
    <2>1. PICK d \in Doc \cup {NoIp} : d = ipList[visit[v].ip]
      BY <1>3 DEF IpTypeInv
    <2>2. Blacklisted(d)' => Blacklisted(d)
      BY <1>1 DEF Blacklisted, Unexpired, Doc, Null
    <2>3. d # NoIp => d.exp \in Nat \cup {Null}
      BY DEF Doc
    <2>4. ~(d # NoIp /\ d.exp \in 1 .. time + 1) /\ Blacklisted(d) => Blacklisted(d)'
      BY <1>1, <2>3 DEF Blacklisted, Unexpired, NotGiven, Null
    <2>5. ipList'[visit'[v].ip] = d
      BY <1>1, <2>1
    <2> QED BY <1>2, <2>1, <2>2, <2>4, <2>5
  <1>4. ASSUME NEW v \in Visitors, v \in stood'
        PROVE  \/ visit'[v].at \in {"white", "black"} /\ Blacklisted(ipList[visit[v].ip])'
               \/ visit'[v].at = "done" /\ visit'[v].answer = "blocked"
    <2>1. v \in stood
      BY <1>2, <1>4
    <2> QED BY <1>1, <1>3, <1>4, <2>1 DEF FilterInv
  <1>5. ASSUME NEW v \in Visitors, visit'[v].at \notin {"ready", "done"}, Blacklisted(ipList[visit[v].ip])'
        PROVE  v \in was'
    <2>1. visit[v].at \notin {"ready", "done"}
      BY <1>1, <1>5
    <2> QED BY <1>1, <1>3, <1>5, <2>1 DEF FilterInv
  <1>6. ASSUME NEW v \in Visitors, visit'[v].at = "done", visit'[v].answer = "blocked"
        PROVE  v \in was'
    BY <1>1, <1>6 DEF FilterInv
  <1> QED BY <1>4, <1>5, <1>6 DEF FilterInv

(* What a step of one visit has to show of it.                             *)
Filters(v) ==
  /\ v \in stood' => \/ visit'[v].at \in {"white", "black"} /\ Blacklisted(ipList[visit'[v].ip])
                     \/ visit'[v].at = "done" /\ visit'[v].answer = "blocked"
  /\ visit'[v].at \notin {"ready", "done"} /\ Blacklisted(ipList[visit'[v].ip]) => v \in was'
  /\ visit'[v].at = "done" /\ visit'[v].answer = "blocked" => v \in was'

LEMMA FilterVisit ==
  ASSUME IpTypeInv, FilterInv, NEW v \in Visitors, OthersPass(v), Filters(v), UNCHANGED <<ipList, time>>,
         stood' \subseteq stood \cup {v}, was \subseteq was'
  PROVE  FilterInv'
  <1>1. \A x : Blacklisted(x)' <=> Blacklisted(x)
    BY DEF Blacklisted, Unexpired
  <1>2. \A u \in Visitors : Blacklisted(ipList[visit[u].ip])' <=> Blacklisted(ipList[visit'[u].ip])
    BY DEF Blacklisted, Unexpired
  <1> SUFFICES ASSUME NEW u \in Visitors
      PROVE  /\ u \in stood' => \/ visit'[u].at \in {"white", "black"} /\ Blacklisted(ipList[visit[u].ip])'
                                \/ visit'[u].at = "done" /\ visit'[u].answer = "blocked"
             /\ visit'[u].at \notin {"ready", "done"} /\ Blacklisted(ipList[visit[u].ip])' => u \in was'
             /\ visit'[u].at = "done" /\ visit'[u].answer = "blocked" => u \in was'
    BY DEF FilterInv
  <1>3. CASE u = v
    BY <1>2, <1>3 DEF Filters
  <1>4. CASE u # v
    <2>1. visit'[u] = visit[u] /\ (u \in stood' => u \in stood)
      BY <1>4 DEF OthersPass
    <2> QED BY <1>2, <2>1 DEF FilterInv
  <1> QED BY <1>3, <1>4

LEMMA FilterStep ==
  ASSUME IpTypeInv, ScoreInv, FilterInv, [IpNext]_ipVars PROVE FilterInv'
  <1>1. CASE UNCHANGED <<ipList, time, visit, stood, was>>
    <2>1. \A u \in Visitors : Blacklisted(ipList[visit[u].ip])' <=> Blacklisted(ipList[visit[u].ip])
      BY <1>1 DEF Blacklisted, Unexpired
    <2> QED BY <1>1, <2>1 DEF FilterInv
  <1>2. ASSUME NEW a \in Admins, Altered(a) PROVE FilterInv'
    <2>1. UNCHANGED <<time, visit>>
      BY <1>2 DEF Altered
    <2>2. CASE \E d : Puts(admin[a].ip, d)
      <3>1. PICK d, ip : ip = admin[a].ip /\ Puts(ip, d)
        BY <2>2
      <3> QED BY <2>1, <3>1, FilterPuts
    <2> QED BY <1>1, <1>2, <2>1, <2>2 DEF Altered
  <1>3. ASSUME NEW ip \in Ips, Expires(ip) PROVE FilterInv'
    BY <1>3, FilterPuts DEF Expires
  <1>4. ASSUME NEW v \in Visitors, Arrive(v) PROVE FilterInv'
    <2>1. /\ OthersPass(v) /\ visit'[v].at = "white"
          /\ \/ Blacklisted(ipList[visit'[v].ip]) /\ stood' = stood \cup {v} /\ was' = was \cup {v}
             \/ ~Blacklisted(ipList[visit'[v].ip]) /\ stood' = stood /\ was' = was
          /\ UNCHANGED <<ipList, time>> /\ v \notin stood
      BY <1>4, ArriveShape DEF FilterInv
    <2>2. Filters(v) /\ stood' \subseteq stood \cup {v} /\ was \subseteq was'
      BY <2>1 DEF Filters
    <2> QED BY <2>1, <2>2, FilterVisit
  <1>5. ASSUME NEW v \in Visitors, Looked(v), Filters(v) PROVE FilterInv'
    BY <1>5, FilterVisit DEF Looked
  <1>6. ASSUME NEW v \in Visitors, Looked(v), visit[v].at # "done"
        PROVE  /\ visit'[v].ip = visit[v].ip /\ was' = was /\ (v \in stood' => v \in stood)
               /\ v \in stood => visit[v].at \in {"white", "black"} /\ Blacklisted(ipList[visit[v].ip])
               /\ Blacklisted(ipList[visit[v].ip]) => v \in was
    BY <1>6 DEF Looked, FilterInv
  <1>7. ASSUME NEW v \in Visitors, LookWhite(v) PROVE FilterInv'
    <2>1. Looked(v) /\ visit[v].at = "white"
      BY <1>7, WhiteShape
    <2>2. Blacklisted(ipList[visit[v].ip]) => ~IsInList(visit[v].ip, "whitelist")
      BY DEF Blacklisted, IsInList
    <2>3. Filters(v)
      BY <1>6, <1>7, <2>1, <2>2, WhiteShape DEF Filters
    <2> QED BY <1>5, <2>1, <2>3
  <1>8. ASSUME NEW v \in Visitors, LookBlack(v) PROVE FilterInv'
    <2>1. Looked(v) /\ visit[v].at = "black"
      BY <1>8, BlackShape
    <2>2. Blacklisted(ipList[visit[v].ip]) <=> IsInList(visit[v].ip, "blacklist")
      BY DEF Blacklisted, IsInList
    <2>3. Filters(v)
      BY <1>6, <1>8, <2>1, <2>2, BlackShape DEF Filters
    <2> QED BY <1>5, <2>1, <2>3
  <1>9. ASSUME NEW v \in Visitors, LookPoints(v) PROVE FilterInv'
    <2>1. Looked(v) /\ visit[v].at = "points"
      BY <1>9, PointsShape
    <2>2. Filters(v)
      BY <1>6, <1>9, <2>1, PointsShape DEF Filters
    <2> QED BY <1>5, <2>1, <2>2
  <1>10. ASSUME NEW a \in Admins, Ask(a) PROVE FilterInv'
    BY <1>1, <1>10, AskShape
  <1>11. ASSUME Reported PROVE FilterInv'
    BY <1>1, <1>11 DEF Reported
  <1>12. CASE UNCHANGED ipVars
    BY <1>1, <1>12 DEF ipVars
  <1> QED BY <1>2, <1>3, <1>4, <1>7, <1>8, <1>9, <1>10, <1>11, <1>12, AddShape, RemoveShape, ExpireShape,
             TellShape, CheckShape, FilterTime
          DEF IpNext

(* The changes.                                                            *)
LEMMA ChangesAsk ==
  ASSUME IpTypeInv, ChangesInv, NEW a \in Admins, Ask(a) PROVE ChangesInv'
  <1>1. /\ Others(a) /\ admin[a].at = "ready" /\ admin'[a].at = "try" /\ admin'[a].ip \in Ips
        /\ alone' = {b \in alone : admin[b].ip # admin'[a].ip}
                      \cup (IF InFlight(admin'[a].ip) = {} THEN {a} ELSE {})
        /\ UNCHANGED <<ipList, time>>
    BY AskShape
  <1>2. admin[a].ip \notin Ips
    BY <1>1, IpAssumption DEF IpTypeInv
  <1>3. \A b \in Admins \ {a} : admin'[b] = admin[b]
    BY <1>1 DEF Others
  <1>4. ASSUME NEW x \in alone'
        PROVE  \/ x \in alone /\ x # a /\ admin[x].ip # admin'[a].ip
               \/ x = a /\ InFlight(admin'[a].ip) = {}
    <2>1. CASE InFlight(admin'[a].ip) = {}
      BY <1>1, <1>4, <2>1 DEF ChangesInv
    <2>2. CASE InFlight(admin'[a].ip) # {}
      <3>1. x \in alone /\ admin[x].ip # admin'[a].ip
        BY <1>1, <1>4, <2>2
      <3> QED BY <1>1, <3>1 DEF ChangesInv
    <2> QED BY <2>1, <2>2
  <1>5. ASSUME NEW x \in alone'
        PROVE  /\ admin'[x].at # "ready"
               /\ \A b \in Admins \ {x} : admin'[b].at = "try" => admin'[b].ip # admin'[x].ip
    <2>1. CASE x \in alone /\ x # a /\ admin[x].ip # admin'[a].ip
      <3>1. admin'[x] = admin[x]
        BY <1>3, <2>1 DEF IpTypeInv
      <3> QED BY <1>3, <2>1, <3>1 DEF ChangesInv
    <2>2. CASE x = a /\ InFlight(admin'[a].ip) = {}
      BY <1>1, <1>3, <2>2 DEF InFlight
    <2> QED BY <1>4, <1>5, <2>1, <2>2
  <1>6. ASSUME NEW ip \in Ips, ipList'[ip] # NoIp, ipList'[ip].exp # NotGiven
        PROVE  \E b \in Admins : admin'[b].ip = ip /\ admin'[b].exp = ipList'[ip].exp
    <2>1. PICK b \in Admins : admin[b].ip = ip /\ admin[b].exp = ipList[ip].exp
      BY <1>1, <1>6 DEF ChangesInv
    <2> QED BY <1>1, <1>2, <1>3, <2>1
  <1>7. ASSUME NEW ip \in Ips, Lapsed(ip) PROVE Lapsed(ip)'
    <2>1. PICK b \in Admins : admin[b].ip = ip /\ Lapses(admin[b].exp, time)
      BY <1>7 DEF Lapsed
    <2>2. b # a /\ time' = time
      BY <1>1, <1>2, <2>1
    <2>3. admin'[b] = admin[b]
      BY <1>3, <2>2
    <2> QED BY <2>1, <2>2, <2>3 DEF Lapsed
  <1>8. ASSUME NEW x \in alone', admin'[x].at = "done"
        PROVE  IF admin'[x].op = "add"
               THEN Listed(admin[x].ip, admin[x].list)' \/ Lapsed(admin[x].ip)'
               ELSE ~Listed(admin[x].ip, admin[x].list)'
    <2>1. x \in alone /\ x # a
      BY <1>1, <1>4, <1>8
    <2>2. admin'[x] = admin[x] /\ admin[x].at # "ready" /\ x \in Admins
      BY <1>3, <2>1 DEF IpTypeInv, ChangesInv
    <2>3. PICK ip, l : ip \in Ips /\ ip = admin[x].ip /\ l = admin[x].list
      BY <2>2 DEF IpTypeInv
    <2>4. Listed(ip, l)' <=> Listed(ip, l)
      BY <1>1 DEF Listed
    <2>5. Listed(admin[x].ip, admin[x].list)' <=> Listed(ip, l)'
      BY <2>2, <2>3 DEF Listed
    <2>6. Lapsed(admin[x].ip)' <=> Lapsed(ip)'
      BY <2>2, <2>3 DEF Lapsed
    <2>7. IF admin[x].op = "add" THEN Listed(ip, l) \/ Lapsed(ip) ELSE ~Listed(ip, l)
      BY <1>8, <2>1, <2>2, <2>3 DEF ChangesInv
    <2>8. CASE admin[x].op = "add"
      <3>1. Lapsed(ip) => Lapsed(ip)'
        BY <1>7, <2>3
      <3> QED BY <2>2, <2>4, <2>5, <2>6, <2>7, <2>8, <3>1
    <2>9. CASE admin[x].op # "add"
      BY <2>2, <2>4, <2>5, <2>7, <2>9
    <2> QED BY <2>8, <2>9
  <1> QED BY <1>5, <1>6, <1>8 DEF ChangesInv

LEMMA ChangesChange ==
  ASSUME IpTypeInv, ChangesInv, NEW a \in Admins, Altered(a) PROVE ChangesInv'
  <1>1. /\ Keeps(a) /\ UNCHANGED <<time, alone>> /\ admin'[a].at # "ready"
        /\ \/ UNCHANGED ipList /\ admin'[a].at # "done"
           \/ \E d : /\ Puts(admin[a].ip, d) /\ Fitting(a, d)
                     /\ admin'[a].at = "done" => Achieved(a, d)
    BY DEF Altered
  <1>2. \A b \in Admins : admin'[b].ip = admin[b].ip
    BY <1>1 DEF Keeps, Others
  <1>3. \A b \in Admins : admin'[b].exp = admin[b].exp
    BY <1>1 DEF Keeps, Others
  <1>4. \A b \in Admins : admin'[b].op = admin[b].op /\ admin'[b].list = admin[b].list
    BY <1>1 DEF Keeps, Others
  <1>5. \A b \in Admins \ {a} : admin'[b] = admin[b]
    BY <1>1 DEF Keeps, Others
  <1>6. admin[a].at = "try" /\ admin[a].ip \in Ips
    BY <1>1 DEF Keeps
  <1>7. ASSUME NEW x \in alone'
        PROVE  /\ admin'[x].at # "ready"
               /\ \A b \in Admins \ {x} : admin'[b].at = "try" => admin'[b].ip # admin'[x].ip
    <2>1. x \in alone /\ x \in Admins
      BY <1>1, <1>7 DEF IpTypeInv
    <2> QED BY <1>1, <1>2, <1>3, <1>4, <1>5, <1>6, <2>1 DEF ChangesInv
  <1>8. ASSUME NEW ip \in Ips, ipList'[ip] # NoIp, ipList'[ip].exp # NotGiven
        PROVE  \E b \in Admins : admin'[b].ip = ip /\ admin'[b].exp = ipList'[ip].exp
    <2>1. CASE ipList'[ip] = ipList[ip]
      <3>1. PICK b \in Admins : admin[b].ip = ip /\ admin[b].exp = ipList[ip].exp
        BY <1>8, <2>1 DEF ChangesInv
      <3> QED BY <1>2, <1>3, <1>4, <1>5, <2>1, <3>1
    <2>2. CASE ipList'[ip] # ipList[ip]
      <3>1. PICK d : Puts(admin[a].ip, d) /\ Fitting(a, d)
        BY <1>1, <2>2
      <3>2. ip = admin[a].ip /\ ipList'[ip] = d
        BY <2>2, <3>1 DEF Puts
      <3>3. \/ d.exp = admin[a].exp
            \/ ipList[ip] # NoIp /\ d.exp = ipList[ip].exp
        BY <1>8, <3>1, <3>2 DEF Fitting
      <3>4. CASE d.exp = admin[a].exp
        BY <1>2, <1>3, <1>4, <1>5, <3>2, <3>4
      <3>5. CASE ipList[ip] # NoIp /\ d.exp = ipList[ip].exp
        <4>1. PICK b \in Admins : admin[b].ip = ip /\ admin[b].exp = ipList[ip].exp
          BY <1>8, <3>2, <3>5 DEF ChangesInv
        <4> QED BY <1>2, <1>3, <1>4, <1>5, <3>2, <3>5, <4>1
      <3> QED BY <3>3, <3>4, <3>5
    <2> QED BY <2>1, <2>2
  <1>9. ASSUME NEW x \in alone', admin'[x].at = "done"
        PROVE  IF admin'[x].op = "add"
               THEN Listed(admin[x].ip, admin[x].list)' \/ Lapsed(admin[x].ip)'
               ELSE ~Listed(admin[x].ip, admin[x].list)'
    <2>1. x \in alone /\ x \in Admins
      BY <1>1, <1>9 DEF IpTypeInv
    <2>2. PICK ip, l : ip \in Ips /\ ip = admin[x].ip /\ l = admin[x].list
      BY <2>1 DEF IpTypeInv, ChangesInv
    <2>3. Listed(admin[x].ip, admin[x].list)' <=> Listed(ip, l)'
      BY <1>2, <1>3, <1>4, <1>5, <2>1, <2>2 DEF Listed
    <2>4. Lapsed(admin[x].ip)' <=> Lapsed(ip)'
      BY <1>2, <1>3, <1>4, <1>5, <2>1, <2>2 DEF Lapsed
    <2>5. CASE x = a
      <3>1. PICK d : Puts(ip, d) /\ Achieved(a, d)
        BY <1>1, <1>9, <2>2, <2>5
      <3>2. IF admin[x].op = "add" THEN Listed(ip, l)' ELSE ~Listed(ip, l)'
        BY <2>2, <2>5, <3>1 DEF Puts, Achieved, Listed
      <3> QED BY <1>2, <1>3, <1>4, <1>5, <2>1, <2>3, <3>2
    <2>6. CASE x # a
      <3>1. admin[x].at = "done" /\ admin[a].ip # ip
        BY <1>2, <1>3, <1>4, <1>5, <1>6, <1>9, <2>1, <2>2, <2>6 DEF ChangesInv
      <3>2. ipList'[ip] = ipList[ip]
        BY <1>1, <2>2, <3>1 DEF Puts
      <3>3. Listed(ip, l)' <=> Listed(ip, l)
        BY <3>2 DEF Listed
      <3>4. Lapsed(ip) => Lapsed(ip)'
        BY <1>1, <1>2, <1>3, <1>4, <1>5 DEF Lapsed
      <3>5. IF admin[x].op = "add" THEN Listed(ip, l) \/ Lapsed(ip) ELSE ~Listed(ip, l)
        BY <2>1, <2>2, <3>1 DEF ChangesInv
      <3> QED BY <1>2, <1>3, <1>4, <1>5, <2>1, <2>3, <2>4, <3>3, <3>4, <3>5
    <2> QED BY <2>5, <2>6
  <1> QED BY <1>7, <1>8, <1>9 DEF ChangesInv

LEMMA ChangesExpire ==
  ASSUME IpTypeInv, ChangesInv, NEW ip \in Ips, Expires(ip) PROVE ChangesInv'
  <1>1. /\ UNCHANGED <<time, admin, alone>> /\ ipList'[ip] = NoIp
        /\ \A o \in Ips \ {ip} : ipList'[o] = ipList[o]
        /\ ipList[ip] # NoIp /\ ipList[ip].exp \in 1 .. time
    BY DEF Expires, Puts
  <1>2. Lapsed(ip)
    <2>1. ipList[ip].exp # NotGiven
      BY <1>1 DEF NotGiven
    <2>2. PICK b \in Admins : admin[b].ip = ip /\ admin[b].exp = ipList[ip].exp
      BY <1>1, <2>1 DEF ChangesInv
    <2> QED BY <1>1, <2>2 DEF Lapsed, Lapses
  <1>3. \A o : Lapsed(o)' <=> Lapsed(o)
    BY <1>1 DEF Lapsed
  <1>4. ASSUME NEW x \in alone', admin'[x].at = "done"
        PROVE  IF admin'[x].op = "add"
               THEN Listed(admin[x].ip, admin[x].list)' \/ Lapsed(admin[x].ip)'
               ELSE ~Listed(admin[x].ip, admin[x].list)'
    <2>1. PICK o, l : o \in Ips /\ o = admin[x].ip /\ l = admin[x].list
      BY <1>1, <1>4 DEF IpTypeInv, ChangesInv
    <2>2. /\ Listed(admin[x].ip, admin[x].list)' <=> Listed(o, l)'
          /\ Lapsed(admin[x].ip)' <=> Lapsed(o)'
      BY <1>1, <2>1 DEF Listed, Lapsed
    <2>3. IF admin[x].op = "add" THEN Listed(o, l) \/ Lapsed(o) ELSE ~Listed(o, l)
      BY <1>1, <1>4, <2>1 DEF ChangesInv
    <2>4. CASE o = ip
      <3>1. Lapsed(o)
        BY <1>2, <2>4
      <3>2. ~Listed(o, l)'
        BY <1>1, <2>4 DEF Listed
      <3> QED BY <1>3, <2>2, <3>1, <3>2
    <2>5. CASE o # ip
      <3>1. Listed(o, l)' <=> Listed(o, l)
        BY <1>1, <2>1, <2>5 DEF Listed
      <3> QED BY <1>1, <1>3, <2>2, <2>3, <3>1
    <2> QED BY <2>4, <2>5
  <1>5. ASSUME NEW o \in Ips, ipList'[o] # NoIp, ipList'[o].exp # NotGiven
        PROVE  \E b \in Admins : admin'[b].ip = o /\ admin'[b].exp = ipList'[o].exp
    <2>1. o # ip /\ ipList'[o] = ipList[o]
      BY <1>1, <1>5
    <2>2. PICK b \in Admins : admin[b].ip = o /\ admin[b].exp = ipList[o].exp
      BY <1>5, <2>1 DEF ChangesInv
    <2> QED BY <1>1, <2>1, <2>2
  <1>6. \A x \in alone' : /\ admin'[x].at # "ready"
                         /\ \A b \in Admins \ {x} : admin'[b].at = "try" => admin'[b].ip # admin'[x].ip
    BY <1>1 DEF ChangesInv
  <1> QED BY <1>4, <1>5, <1>6 DEF ChangesInv

LEMMA ChangesRest ==
  ASSUME IpTypeInv, ChangesInv, UNCHANGED <<ipList, admin, alone>>, time' \in Nat, time <= time'
  PROVE  ChangesInv'
  <1>1. ASSUME NEW o, Lapsed(o) PROVE Lapsed(o)'
    <2>1. PICK b \in Admins : admin[b].ip = o /\ Lapses(admin[b].exp, time)
      BY <1>1 DEF Lapsed
    <2>2. Lapses(admin[b].exp, time')
      BY <2>1 DEF IpTypeInv, Lapses
    <2> QED BY <2>1, <2>2 DEF Lapsed
  <1>2. ASSUME NEW x \in alone', admin'[x].at = "done"
        PROVE  IF admin'[x].op = "add"
               THEN Listed(admin[x].ip, admin[x].list)' \/ Lapsed(admin[x].ip)'
               ELSE ~Listed(admin[x].ip, admin[x].list)'
    <2>1. PICK o, l : o = admin[x].ip /\ l = admin[x].list
      OBVIOUS
    <2>2. /\ Listed(admin[x].ip, admin[x].list)' <=> Listed(o, l)
          /\ Lapsed(admin[x].ip)' <=> Lapsed(o)'
      BY <2>1 DEF Listed, Lapsed
    <2>3. IF admin[x].op = "add" THEN Listed(o, l) \/ Lapsed(o) ELSE ~Listed(o, l)
      BY <1>2, <2>1 DEF ChangesInv
    <2> QED BY <1>1, <2>2, <2>3
  <1>3. ASSUME NEW o \in Ips, ipList'[o] # NoIp, ipList'[o].exp # NotGiven
        PROVE  \E b \in Admins : admin'[b].ip = o /\ admin'[b].exp = ipList'[o].exp
    BY <1>3 DEF ChangesInv
  <1>4. \A x \in alone' : /\ admin'[x].at # "ready"
                         /\ \A b \in Admins \ {x} : admin'[b].at = "try" => admin'[b].ip # admin'[x].ip
    BY DEF ChangesInv
  <1> QED BY <1>2, <1>3, <1>4 DEF ChangesInv

LEMMA ChangesStep ==
  ASSUME IpTypeInv, ScoreInv, ChangesInv, [IpNext]_ipVars PROVE ChangesInv'
  <1>1. CASE UNCHANGED <<ipList, admin, alone, time>>
    BY <1>1, ChangesRest DEF IpTypeInv
  <1>2. CASE PassTime
    <2>1. UNCHANGED <<ipList, admin, alone>> /\ time' \in Nat /\ time <= time'
      BY <1>2 DEF PassTime, IpTypeInv
    <2> QED BY <2>1, ChangesRest
  <1>3. ASSUME NEW v \in Visitors, Arrive(v) \/ LookWhite(v) \/ LookBlack(v) \/ LookPoints(v)
        PROVE  ChangesInv'
    <2>1. UNCHANGED <<ipList, admin, alone, time>>
      BY <1>3, ArriveShape, WhiteShape, BlackShape, PointsShape DEF Looked
    <2> QED BY <1>1, <2>1
  <1>4. ASSUME Reported PROVE ChangesInv'
    BY <1>1, <1>4 DEF Reported
  <1>5. CASE UNCHANGED ipVars
    BY <1>1, <1>5 DEF ipVars
  <1>6. ASSUME NEW a \in Admins, Altered(a) PROVE ChangesInv'
    BY <1>6, ChangesChange
  <1> QED BY <1>2, <1>3, <1>4, <1>5, <1>6, AddShape, RemoveShape, ExpireShape, TellShape, CheckShape,
             ChangesAsk, ChangesExpire
          DEF IpNext
-----------------------------------------------------------------------------
(* No change of a list is tried again.                                     *)
OneTry == \A a \in Admins : admin[a].tries <= 1

LEMMA OneTryStep ==
  ASSUME IpTypeInv, ScoreInv, OneTry, [IpNext]_ipVars PROVE OneTry'
  <1>1. ASSUME NEW a \in Admins, Ask(a) PROVE OneTry'
    BY <1>1, AskShape DEF Others, OneTry
  <1>2. ASSUME NEW a \in Admins, Altered(a) PROVE OneTry'
    BY <1>2 DEF Altered, Keeps, Others, OneTry
  <1>3. CASE UNCHANGED admin
    BY <1>3 DEF OneTry
  <1>4. ASSUME NEW v \in Visitors, Arrive(v) \/ LookWhite(v) \/ LookBlack(v) \/ LookPoints(v)
        PROVE  UNCHANGED admin
    BY <1>4, ArriveShape, WhiteShape, BlackShape, PointsShape DEF Looked
  <1>5. Reported => UNCHANGED admin
    BY DEF Reported
  <1> QED BY <1>1, <1>2, <1>3, <1>4, <1>5, AddShape, RemoveShape, ExpireShape, TellShape, CheckShape
          DEF IpNext, Expires, PassTime, ipVars
-----------------------------------------------------------------------------
(* All of it together is inductive.                                        *)
IpInv == IpTypeInv /\ ScoreInv /\ FilterInv /\ ChangesInv /\ OneTry

LEMMA IpStart == IpInit => IpInv
  <1> SUFFICES ASSUME IpInit PROVE IpInv
    OBVIOUS
  <1>1. /\ ipList = [ip \in Ips |-> NoIp] /\ time = 0 /\ failures = 0
        /\ logged = [ip \in Ips |-> 0] /\ general = [ip \in Ips |-> 0]
        /\ alone = {} /\ stood = {} /\ was = {}
    BY DEF IpInit
  <1>2. /\ admin \in [Admins -> AdminRec]
        /\ \A a \in Admins : admin[a].at = "ready" /\ admin[a].ip = NoIp /\ admin[a].tries = 0
    <2>1. PICK t : t = [at |-> "ready", op |-> "add", list |-> "whitelist", ip |-> NoIp,
                    exp |-> NotGiven, tries |-> 0]
      OBVIOUS
    <2>2. t \in AdminRec /\ t.at = "ready" /\ t.ip = NoIp /\ t.tries = 0
      BY <2>1, IpAssumption DEF AdminRec, Lists
    <2>3. admin = [a \in Admins |-> t]
      BY <2>1 DEF IpInit
    <2> QED BY <2>2, <2>3
  <1>3. /\ visit \in [Visitors -> VisitRec]
        /\ \A v \in Visitors : visit[v].at = "ready" /\ visit[v].answer = "none"
    <2>1. PICK t : t = [at |-> "ready", ip |-> NoIp, answer |-> "none"]
      OBVIOUS
    <2>2. t \in VisitRec /\ t.at = "ready" /\ t.answer = "none"
      BY <2>1 DEF VisitRec
    <2>3. visit = [v \in Visitors |-> t]
      BY <2>1 DEF IpInit
    <2> QED BY <2>2, <2>3
  <1>4. /\ reports \in [Reporters -> ReportRec]
        /\ \A r \in Reporters : reports[r].points = 0 /\ reports[r].block = FALSE
    <2>1. Unreported \in ReportRec /\ Unreported.points = 0 /\ Unreported.block = FALSE
      BY IpAssumption DEF Unreported, ReportRec
    <2>2. reports = [r \in Reporters |-> Unreported]
      BY DEF IpInit
    <2> QED BY <2>1, <2>2
  <1>5. IpTypeInv
    BY <1>1, <1>2, <1>3, <1>4, IpAssumption DEF IpTypeInv
  <1>6. ScoreInv
    BY <1>1, <1>3, <1>4 DEF ScoreInv
  <1>7. FilterInv
    BY <1>1, <1>3 DEF FilterInv
  <1>8. ChangesInv
    BY <1>1 DEF ChangesInv
  <1>9. OneTry
    BY <1>2 DEF OneTry
  <1> QED BY <1>5, <1>6, <1>7, <1>8, <1>9 DEF IpInv

LEMMA IpStep == IpInv /\ [IpNext]_ipVars => IpInv'
  BY IpTypeStep, ScoreStep, FilterStep, ChangesStep, OneTryStep DEF IpInv

LEMMA IpKept == IpSpec => []IpInv
  BY IpStart, IpStep, PTL DEF IpSpec

(* The variables of the lists keep their types.                            *)
THEOREM IpTypesCorrect == IpSpec => []IpTypeOK
  <1>1. IpInv => IpTypeOK
    BY IpTypeImplies DEF IpInv
  <1> QED BY <1>1, IpKept, PTL

(* An address that is on the blacklist from a request's arrival to its     *)
(* answer is refused, and only one that was on it at some moment of that:  *)
(* the three look-ups of the middleware amount to one.                     *)
THEOREM FilterIsRight == IpSpec => []FilterFollowsLists
  <1>1. IpInv => FilterFollowsLists
    BY FilterImplies DEF IpInv
  <1> QED BY <1>1, IpKept, PTL

(* An acknowledged change is the last word of its address until another is *)
(* asked, whatever other changes failed before, and with what effect.  What*)
(* was added with an expiration that is null is the exception it states.   *)
THEOREM ChangesLast == IpSpec => []ChangesStand
  <1>1. IpInv => ChangesStand
    BY ChangesImplies DEF IpInv
  <1> QED BY <1>1, IpKept, PTL

(* @Retry never tries a change of a list again, however many tries it is   *)
(* configured to make and whatever fails: the report of the first failure  *)
(* throws.                                                                 *)
THEOREM RetryNeverRetries == IpSpec => []OneTry
  <1>1. IpInv => OneTry
    BY DEF IpInv
  <1> QED BY <1>1, IpKept, PTL

(* However many violations are told, none ever counts.                     *)
THEOREM NothingEverScores == IpSpec => []NothingScores
  <1>1. IpInv => NothingScores
    BY ScoreImplies DEF IpInv
  <1> QED BY <1>1, IpKept, PTL
-----------------------------------------------------------------------------
(* THE POLICIES OF TABLES *)

USE RlsAssumption
-----------------------------------------------------------------------------
(* A policy of a table that is not lost track of: it is there, or a run is *)
(* about to create it, or failed at it.                                    *)
Here(t) == Present(t) \cup Creating(t) \cup broken[t]

(* A run at a table has come there by enabling row-level security, and has *)
(* its policies up to the next one behind it.                              *)
Behind(r) ==
  script[r].at \in {"drop", "create"} =>
    /\ enabled[TableOf(r)]
    /\ \A i \in Steps(TableOf(r)) : i < script[r].next => NameAt(TableOf(r), i) \in Here(TableOf(r))

(* The inductive invariant. *)
RlsInv == RlsTypeOK /\ PoliciesKept /\ \A r \in RlsRuns : Behind(r)

AtTable == {"enable", "drop", "create"}
-----------------------------------------------------------------------------
(* The policies of a table are counted from 1. *)
LEMMA StepsType == ASSUME NEW t \in Tables PROVE Steps(t) \subseteq Nat \ {0} /\ 1 \in Steps(t)
  <1>1. PoliciesOf[t] \in Seq(Policies) /\ PoliciesOf[t] # <<>>
    OBVIOUS
  <1>2. Steps(t) = 1 .. Len(PoliciesOf[t]) /\ Len(PoliciesOf[t]) \in Nat \ {0}
    BY <1>1, LenProperties, EmptySeq DEF Steps
  <1> QED BY <1>2

(* What the steps of a script work with has the right types. *)
LEMMA AtTableType ==
  ASSUME RlsTypeOK, NEW r \in RlsRuns, script[r].at \in AtTable
  PROVE  /\ TableOf(r) \in Tables /\ script[r].left # <<>> /\ script[r].left \in Seq(Tables)
         /\ script[r].at # "enable" => /\ script[r].next \in Steps(TableOf(r))
                                       /\ PolicyOf(r) \in Policies /\ PolicyOf(r).name \in STRING
  <1>1. script[r].left \in Seq(Tables) /\ script[r].left # <<>>
    BY DEF RlsTypeOK, AtTable, ScriptState
  <1>2. TableOf(r) \in Tables
    BY <1>1 DEF TableOf
  <1>3. ASSUME script[r].at # "enable"
        PROVE  script[r].next \in Steps(TableOf(r)) /\ PolicyOf(r) \in Policies
    <2>1. script[r].next \in Steps(TableOf(r))
      BY <1>3 DEF RlsTypeOK, AtTable, TableOf
    <2>2. PoliciesOf[TableOf(r)] \in Seq(Policies)
      BY <1>2
    <2> QED BY <2>1, <2>2 DEF Steps, PolicyOf
  <1> QED BY <1>1, <1>2, <1>3 DEF Policies

(* A state of a script that fits where the script is. *)
Good(s) ==
  /\ s \in ScriptState
  /\ s.at \in AtTable => s.left # <<>>
  /\ s.at \in {"drop", "create"} => s.next \in Steps(s.left[1])

LEMMA ScriptsGood == RlsTypeOK => \A r \in RlsRuns : Good(script[r])
  BY DEF RlsTypeOK, Good, AtTable

(* The state of a script that leaves a table is, when there is a next one  *)
(* and when there is none.                                                 *)
LEMMA NextTableGood ==
  ASSUME NEW s \in ScriptState, NEW rest \in Seq(Tables), NEW at \in {"enable", "ok"},
         at = "enable" => rest # <<>>
  PROVE  Good([s EXCEPT !.at = at, !.left = rest, !.next = 1])
  <1>1. [s EXCEPT !.at = at, !.left = rest, !.next = 1] \in ScriptState
    BY DEF ScriptState
  <1> QED BY <1>1 DEF Good, ScriptState, AtTable

(* The states a script may go to are of that kind. *)
LEMMA GoodStates ==
  ASSUME RlsTypeOK, NEW r \in RlsRuns, script[r].at \in AtTable
  PROVE  /\ NextTable(r) => Good(script'[r])
         /\ TableFails(r) => Good(script'[r])
         /\ script' = [script EXCEPT ![r].at = "killed"] => Good(script'[r])
         /\ \A at \in {"drop", "create"}, n \in Steps(TableOf(r)) :
              script' = [script EXCEPT ![r].at = at, ![r].next = n] => Good(script'[r])
  <1>1. script \in [RlsRuns -> ScriptState] /\ Good(script[r])
    BY ScriptsGood DEF RlsTypeOK
  <1>2. script[r].left \in Seq(Tables) /\ script[r].left # <<>> /\ TableOf(r) \in Tables
    BY AtTableType
  <1>3. ASSUME NextTable(r) PROVE Good(script'[r])
    <2> DEFINE rest == Tail(script[r].left)
               at == IF rest # <<>> THEN "enable" ELSE "ok"
    <2>1. script'[r] = [script[r] EXCEPT !.at = at, !.left = rest, !.next = 1]
      BY <1>1, <1>3 DEF NextTable
    <2>2. rest \in Seq(Tables) /\ script[r] \in ScriptState
      BY <1>1, <1>2
    <2>3. at \in {"enable", "ok"} /\ (at = "enable" => rest # <<>>)
      OBVIOUS
    <2> HIDE DEF at, rest
    <2>4. Good([script[r] EXCEPT !.at = at, !.left = rest, !.next = 1])
      BY <2>2, <2>3, NextTableGood
    <2> QED BY <2>1, <2>4
  <1>4. ASSUME TableFails(r) PROVE Good(script'[r])
    <2>1. CASE NextTable(r)
      BY <1>3, <2>1
    <2>2. CASE script' = [script EXCEPT ![r].at = "error"]
      <3>1. script'[r] = [script[r] EXCEPT !.at = "error"]
        BY <1>1, <2>2
      <3> QED BY <1>1, <3>1 DEF Good, ScriptState, AtTable
    <2> QED BY <1>4, <2>1, <2>2 DEF TableFails
  <1>5. ASSUME script' = [script EXCEPT ![r].at = "killed"] PROVE Good(script'[r])
    <2>1. script'[r] = [script[r] EXCEPT !.at = "killed"]
      BY <1>1, <1>5
    <2> QED BY <1>1, <2>1 DEF Good, ScriptState, AtTable
  <1>6. ASSUME NEW at \in {"drop", "create"}, NEW n \in Steps(TableOf(r)),
               script' = [script EXCEPT ![r].at = at, ![r].next = n]
        PROVE  Good(script'[r])
    <2>1. n \in Nat
      BY <1>2, StepsType
    <2>2. script'[r] = [script[r] EXCEPT !.at = at, !.next = n]
      BY <1>1, <1>6
    <2>3. script'[r] \in ScriptState /\ script'[r].left = script[r].left /\ script'[r].next = n
      BY <1>1, <2>1, <2>2 DEF ScriptState, Good
    <2> QED BY <1>2, <2>3 DEF Good, TableOf
  <1> QED BY <1>3, <1>4, <1>5, <1>6

(* Each step of a script changes only its own state. *)
LEMMA OneScript ==
  ASSUME RlsTypeOK, NEW r \in RlsRuns
  PROVE  /\ TableFails(r) \/ NextTable(r) => script' = [script EXCEPT ![r] = script'[r]]
         /\ script' = [script EXCEPT ![r].at = "killed"] => script' = [script EXCEPT ![r] = script'[r]]
         /\ \A at, n : script' = [script EXCEPT ![r].at = at, ![r].next = n]
                         => script' = [script EXCEPT ![r] = script'[r]]
  BY DEF RlsTypeOK, TableFails, NextTable

LEMMA RlsTypesFrom ==
  ASSUME RlsTypeOK, NEW r \in RlsRuns, Good(script'[r]), script' = [script EXCEPT ![r] = script'[r]],
         enabled' \in [Tables -> BOOLEAN], policies' \in [Tables -> SUBSET Policies],
         applied' \subseteq Tables, broken' \in [Tables -> SUBSET STRING], breaks' \in 0 .. MaxBreaks
  PROVE  RlsTypeOK'
  <1>1. script' \in [RlsRuns -> ScriptState]
    BY DEF RlsTypeOK, Good
  <1>2. \A q \in RlsRuns : Good(script'[q])
    BY ScriptsGood DEF RlsTypeOK
  <1> QED BY <1>1, <1>2 DEF RlsTypeOK, Good, AtTable

(* The variables keep their types. *)
LEMMA RlsTypeStep == ASSUME RlsTypeOK, [RlsNext]_rlsVars PROVE RlsTypeOK'
  <1>1. CASE UNCHANGED rlsVars
    BY <1>1 DEF rlsVars, RlsTypeOK, Steps
  <1>2. ASSUME NEW r \in RlsRuns, StartScript(r) PROVE RlsTypeOK'
    <2>1. PICK t \in Targets :
            script' = [script EXCEPT ![r].at = "enable", ![r].target = t,
                                     ![r].left = IF t # All THEN <<t>> ELSE Configured]
      BY <1>2 DEF StartScript
    <2> DEFINE left == IF t # All THEN <<t>> ELSE Configured
    <2>2. left \in Seq(Tables) /\ left # <<>> /\ t \in Tables \cup {All}
      BY <2>1
    <2>3. script'[r] = [script[r] EXCEPT !.at = "enable", !.target = t, !.left = left]
      BY <2>1 DEF RlsTypeOK
    <2> HIDE DEF left
    <2>4. Good(script'[r])
      BY <2>2, <2>3, ScriptsGood DEF Good, ScriptState
    <2>5. script' \in [RlsRuns -> ScriptState]
      BY <2>1, <2>4 DEF RlsTypeOK, Good
    <2>6. \A q \in RlsRuns : Good(script'[q])
      BY <2>1, <2>4, ScriptsGood DEF RlsTypeOK
    <2> QED BY <1>2, <2>5, <2>6 DEF StartScript, RlsTypeOK, Good, AtTable
  <1>3. ASSUME NEW r \in RlsRuns, EnableRls(r) PROVE RlsTypeOK'
    <2>1. script[r].at \in AtTable /\ TableOf(r) \in Tables
      BY <1>3, AtTableType DEF EnableRls, AtTable
    <2>2. 1 \in Steps(TableOf(r))
      BY <2>1, StepsType
    <2>3. Good(script'[r])
      BY <1>3, <2>1, <2>2, GoodStates DEF EnableRls, Refusal, Advance, Outage
    <2>4. script' = [script EXCEPT ![r] = script'[r]]
      BY <1>3, OneScript DEF EnableRls, Refusal, Advance, Outage
    <2>5. enabled' \in [Tables -> BOOLEAN] /\ UNCHANGED policies
      BY <1>3, <2>1 DEF EnableRls, RlsTypeOK, Refusal
    <2>6. UNCHANGED <<applied, broken>> /\ breaks' \in 0 .. MaxBreaks
      BY <1>3 DEF EnableRls, RlsTypeOK, Refusal, Advance, Outage, Break
    <2> QED BY <2>3, <2>4, <2>5, <2>6, RlsTypesFrom DEF RlsTypeOK
  <1>4. ASSUME NEW r \in RlsRuns, DropPolicy(r) PROVE RlsTypeOK'
    <2>1. /\ script[r].at \in AtTable /\ TableOf(r) \in Tables
          /\ script[r].next \in Steps(TableOf(r)) /\ PolicyOf(r).name \in STRING
      BY <1>4, AtTableType DEF DropPolicy, AtTable
    <2>2. Good(script'[r])
      BY <1>4, <2>1, GoodStates DEF DropPolicy, Advance, Outage
    <2>3. script' = [script EXCEPT ![r] = script'[r]]
      BY <1>4, OneScript DEF DropPolicy, Advance, Outage
    <2>4. policies' \in [Tables -> SUBSET Policies] /\ UNCHANGED enabled
      BY <1>4, <2>1 DEF DropPolicy, Dropped, RlsTypeOK
    <2>5. /\ UNCHANGED applied /\ broken' \in [Tables -> SUBSET STRING]
          /\ breaks' \in 0 .. MaxBreaks
      BY <1>4, <2>1 DEF DropPolicy, RlsTypeOK, Advance, Outage, Break, AtPolicy
    <2> QED BY <2>2, <2>3, <2>4, <2>5, RlsTypesFrom DEF RlsTypeOK
  <1>5. ASSUME NEW r \in RlsRuns, CreatePolicy(r) PROVE RlsTypeOK'
    <2>1. /\ script[r].at \in AtTable /\ TableOf(r) \in Tables /\ script[r].at = "create"
          /\ script[r].next \in Steps(TableOf(r))
          /\ PolicyOf(r) \in Policies /\ PolicyOf(r).name \in STRING
      BY <1>5, AtTableType DEF CreatePolicy, AtTable
    <2>2. script[r].next # Len(PoliciesOf[TableOf(r)]) => script[r].next + 1 \in Steps(TableOf(r))
      <3>1. PoliciesOf[TableOf(r)] \in Seq(Policies)
        BY <2>1
      <3> QED BY <2>1, <3>1 DEF Steps
    <2>3. Good(script'[r])
      BY <1>5, <2>1, <2>2, GoodStates DEF CreatePolicy, Refusal, Advance, Outage
    <2>4. script' = [script EXCEPT ![r] = script'[r]]
      BY <1>5, OneScript DEF CreatePolicy, Refusal, Advance, Outage
    <2>5. policies' \in [Tables -> SUBSET Policies] /\ UNCHANGED enabled
      <3>1. UNCHANGED enabled /\ (\/ UNCHANGED policies
                                 \/ policies' = [policies EXCEPT ![TableOf(r)] = @ \cup {PolicyOf(r)}])
        BY <1>5 DEF CreatePolicy
      <3> QED BY <2>1, <3>1 DEF RlsTypeOK
    <2>6. /\ applied' \subseteq Tables /\ broken' \in [Tables -> SUBSET STRING]
          /\ breaks' \in 0 .. MaxBreaks
      <3>1. \/ UNCHANGED <<applied, broken, breaks>>
            \/ applied' = applied \cup {TableOf(r)} /\ UNCHANGED <<broken, breaks>>
            \/ Break /\ AtPolicy(r) /\ UNCHANGED applied
        BY <1>5 DEF CreatePolicy, Refusal, Advance, Outage
      <3>2. applied \subseteq Tables /\ broken \in [Tables -> SUBSET STRING] /\ breaks \in 0 .. MaxBreaks
        BY DEF RlsTypeOK
      <3>3. Break => breaks' \in 0 .. MaxBreaks
        BY <3>2 DEF Break
      <3>4. AtPolicy(r) => broken' \in [Tables -> SUBSET STRING]
        BY <2>1, <3>2 DEF AtPolicy
      <3> QED BY <2>1, <3>1, <3>2, <3>3, <3>4
    <2> QED BY <2>3, <2>4, <2>5, <2>6, RlsTypesFrom DEF RlsTypeOK
  <1>6. ASSUME NEW r \in RlsRuns, Kill(r) PROVE RlsTypeOK'
    <2>1. script[r].at \in AtTable /\ TableOf(r) \in Tables
          /\ (script[r].at = "create" => PolicyOf(r).name \in STRING)
      BY <1>6, AtTableType DEF Kill, AtTable
    <2>2. Good(script'[r]) /\ script' = [script EXCEPT ![r] = script'[r]]
      BY <1>6, <2>1, GoodStates, OneScript DEF Kill
    <2>3. UNCHANGED <<enabled, policies, applied>> /\ broken' \in [Tables -> SUBSET STRING]
          /\ breaks' \in 0 .. MaxBreaks
      BY <1>6, <2>1 DEF Kill, RlsTypeOK, Break, AtPolicy
    <2> QED BY <2>2, <2>3, RlsTypesFrom DEF RlsTypeOK
  <1> QED BY <1>1, <1>2, <1>3, <1>4, <1>5, <1>6 DEF RlsNext
-----------------------------------------------------------------------------
(* The policy that another run is about to create stays so.                *)
LEMMA OthersCreate ==
  ASSUME RlsTypeOK, NEW r \in RlsRuns, script' = [script EXCEPT ![r] = script'[r]],
         NEW q \in RlsRuns, q # r, script[q].at = "create", NEW t \in Tables, TableOf(q) = t
  PROVE  PolicyOf(q).name \in Creating(t)'
  <1>1. script'[q] = script[q]
    BY DEF RlsTypeOK
  <1> QED BY <1>1 DEF Creating, TableOf, PolicyOf

(* A step that keeps what is present of a table but one policy, which the  *)
(* run is then about to create or has failed at, loses track of none; and  *)
(* nor does one that ends the creation of a policy that is then present.   *)
LEMMA HereKept ==
  ASSUME RlsTypeOK, NEW r \in RlsRuns, script[r].at \in AtTable,
         script' = [script EXCEPT ![r] = script'[r]],
         NEW t \in Tables, broken[t] \subseteq broken'[t],
         \A n \in Present(t) : n \in Present(t)' \cup Creating(t)' \cup broken'[t],
         script[r].at = "create" /\ TableOf(r) = t =>
           PolicyOf(r).name \in Present(t)' \cup Creating(t)' \cup broken'[t]
  PROVE  Here(t) \subseteq Here(t)'
  <1>1. ASSUME NEW n \in Creating(t) PROVE n \in Here(t)'
    <2>1. PICK q \in RlsRuns : script[q].at = "create" /\ TableOf(q) = t /\ n = PolicyOf(q).name
      BY <1>1 DEF Creating
    <2>2. CASE q = r
      BY <2>1, <2>2 DEF Here
    <2>3. CASE q # r
      BY <2>1, <2>3, OthersCreate DEF Here
    <2> QED BY <2>2, <2>3
  <1> QED BY <1>1 DEF Here

(* What was there of a table that no step touches is there.                *)
LEMMA SamePresent ==
  ASSUME NEW t \in Tables, policies'[t] = policies[t]
  PROVE  Present(t)' = Present(t)
  BY DEF Present

(* No step loses track of a policy or turns row-level security off.        *)
LEMMA HereGrows ==
  ASSUME RlsTypeOK, RlsNext, NEW t \in Tables
  PROVE  Here(t) \subseteq Here(t)' /\ (enabled[t] => enabled'[t])
  <1>1. ASSUME NEW r \in RlsRuns, StartScript(r) PROVE Here(t) \subseteq Here(t)'
    <2>1. script[r].at = "ready" /\ script' = [script EXCEPT ![r] = script'[r]]
      BY <1>1 DEF StartScript, RlsTypeOK
    <2>2. UNCHANGED <<policies, broken>>
      BY <1>1 DEF StartScript
    <2>3. Present(t)' = Present(t) /\ broken'[t] = broken[t]
      BY <2>2 DEF Present
    <2>4. Creating(t) \subseteq Creating(t)'
      BY <2>1, OthersCreate DEF Creating
    <2> QED BY <2>3, <2>4 DEF Here
  <1>2. ASSUME NEW r \in RlsRuns, EnableRls(r) PROVE Here(t) \subseteq Here(t)'
    <2>1. script[r].at = "enable" /\ script' = [script EXCEPT ![r] = script'[r]]
      BY <1>2, OneScript DEF EnableRls, Refusal, Advance, Outage
    <2>2. UNCHANGED <<policies, broken>>
      BY <1>2 DEF EnableRls, Refusal, Advance, Outage
    <2> QED BY <2>1, <2>2, SamePresent, HereKept DEF AtTable
  <1>3. ASSUME NEW r \in RlsRuns, DropPolicy(r) PROVE Here(t) \subseteq Here(t)'
    <2> DEFINE p == PolicyOf(r)
    <2>1. script[r].at = "drop" /\ script' = [script EXCEPT ![r] = script'[r]] /\ TableOf(r) \in Tables
      BY <1>3, OneScript, AtTableType DEF DropPolicy, Advance, Outage, AtTable
    <2>2. broken[t] \subseteq broken'[t]
      BY <1>3 DEF DropPolicy, Advance, Outage, AtPolicy, RlsTypeOK
    <2>3. ASSUME NEW n \in Present(t) PROVE n \in Present(t)' \cup Creating(t)' \cup broken'[t]
      <3>1. CASE TableOf(r) # t \/ n # p.name
        <4>1. \A q \in policies[t] : q.name = n => q \in policies'[t]
          BY <1>3, <2>1, <3>1 DEF DropPolicy, Dropped, RlsTypeOK
        <4> QED BY <4>1 DEF Present
      <3>2. CASE TableOf(r) = t /\ n = p.name
        <4>1. CASE Advance(r, "create", script[r].next)
          <5>1. script'[r].at = "create" /\ script'[r].left = script[r].left
                /\ script'[r].next = script[r].next
            BY <4>1 DEF Advance, RlsTypeOK, ScriptState
          <5> QED BY <3>2, <5>1 DEF Creating, TableOf, PolicyOf
        <4>2. CASE AtPolicy(r)
          BY <3>2, <4>2 DEF AtPolicy, RlsTypeOK
        <4> QED BY <1>3, <4>1, <4>2 DEF DropPolicy
      <3> QED BY <3>1, <3>2
    <2> QED BY <2>1, <2>2, <2>3, HereKept DEF AtTable
  <1>4. ASSUME NEW r \in RlsRuns, CreatePolicy(r) PROVE Here(t) \subseteq Here(t)'
    <2>1. /\ script[r].at = "create" /\ script' = [script EXCEPT ![r] = script'[r]]
          /\ TableOf(r) \in Tables
      BY <1>4, OneScript, AtTableType DEF CreatePolicy, Refusal, Advance, Outage, AtTable
    <2>2. broken[t] \subseteq broken'[t]
      BY <1>4 DEF CreatePolicy, Refusal, Advance, Outage, AtPolicy, RlsTypeOK
    <2>3. policies[t] \subseteq policies'[t]
      BY <1>4, <2>1 DEF CreatePolicy, RlsTypeOK
    <2>4. ASSUME TableOf(r) = t PROVE PolicyOf(r).name \in Present(t)' \cup broken'[t]
      <3>1. CASE AtPolicy(r)
        BY <2>4, <3>1 DEF AtPolicy, RlsTypeOK
      <3>2. CASE \E q \in policies[t] : q.name = PolicyOf(r).name
        BY <2>3, <3>2 DEF Present
      <3>3. CASE policies' = [policies EXCEPT ![t] = @ \cup {PolicyOf(r)}]
        BY <2>4, <3>3 DEF Present, RlsTypeOK
      <3> QED BY <1>4, <2>4, <3>1, <3>2, <3>3 DEF CreatePolicy
    <2>5. Present(t) \subseteq Present(t)'
      BY <2>3 DEF Present
    <2> QED BY <2>1, <2>2, <2>4, <2>5, HereKept DEF AtTable
  <1>5. ASSUME NEW r \in RlsRuns, Kill(r) PROVE Here(t) \subseteq Here(t)'
    <2>1. script[r].at \in AtTable /\ script' = [script EXCEPT ![r] = script'[r]]
      BY <1>5, OneScript DEF Kill, AtTable
    <2>2. broken[t] \subseteq broken'[t] /\ UNCHANGED policies
      <3>1. UNCHANGED policies /\ (AtPolicy(r) \/ UNCHANGED broken)
        BY <1>5 DEF Kill
      <3> QED BY <3>1 DEF AtPolicy, RlsTypeOK
    <2>3. script[r].at = "create" /\ TableOf(r) = t => PolicyOf(r).name \in broken'[t]
      BY <1>5 DEF Kill, AtPolicy, RlsTypeOK
    <2> QED BY <2>1, <2>2, <2>3, SamePresent, HereKept
  <1>6. enabled[t] => enabled'[t]
    BY DEF RlsNext, StartScript, EnableRls, DropPolicy, CreatePolicy, Kill, RlsTypeOK
  <1> QED BY <1>1, <1>2, <1>3, <1>4, <1>5, <1>6 DEF RlsNext
-----------------------------------------------------------------------------
(* Initially nothing is lost track of. *)
LEMMA InitInv == RlsInit => RlsInv
  <1> SUFFICES ASSUME RlsInit PROVE RlsInv
    OBVIOUS
  <1> USE DEF RlsInit
  <1>1. RlsTypeOK
    <2>1. \A t \in Tables : {PoliciesOf[t][i] : i \in Steps(t)} \subseteq Policies
      BY DEF Steps
    <2>2. script \in [RlsRuns -> ScriptState]
      BY DEF ScriptState
    <2> QED BY <2>1, <2>2 DEF RlsTypeOK
  <1>2. ASSUME NEW t \in applied
        PROVE  enabled[t] /\ \A i \in Steps(t) : NameAt(t, i) \in Present(t)
    <2>1. t \in Tables /\ enabled[t] /\ policies[t] = {PoliciesOf[t][i] : i \in Steps(t)}
      BY ZenonT(40)
    <2> QED BY <2>1 DEF Present, NameAt
  <1>3. \A r \in RlsRuns : Behind(r)
    BY DEF Behind
  <1> QED BY <1>1, <1>2, <1>3 DEF RlsInv, PoliciesKept

(* A run that fails at a table, or is done with it, is not at a policy.    *)
LEMMA LeavesTable ==
  ASSUME RlsTypeOK, NEW r \in RlsRuns, TableFails(r) \/ NextTable(r)
  PROVE  script'[r].at \notin {"drop", "create"}
  <1>1. script \in [RlsRuns -> ScriptState]
    BY DEF RlsTypeOK
  <1>2. CASE NextTable(r)
    <2> DEFINE at == IF Tail(script[r].left) # <<>> THEN "enable" ELSE "ok"
    <2>1. at \in {"enable", "ok"}
      OBVIOUS
    <2>2. script'[r].at = at
      BY <1>1, <1>2, ZenonT(40) DEF NextTable, ScriptState
    <2> QED BY <2>1, <2>2
  <1>3. CASE script' = [script EXCEPT ![r].at = "error"]
    BY <1>1, <1>3 DEF ScriptState
  <1> QED BY <1>2, <1>3 DEF TableFails

(* A run that goes on at a table has put one more policy behind it, or has *)
(* just begun.                                                             *)
LEMMA BehindStep ==
  ASSUME RlsInv, RlsNext, NEW r \in RlsRuns PROVE Behind(r)'
  <1> DEFINE Past(t, n) == \A i \in Steps(t) : i < n => NameAt(t, i) \in Here(t)
  <1>1. RlsTypeOK /\ RlsTypeOK'
    BY RlsTypeStep DEF RlsInv
  <1>2. ASSUME NEW t \in Tables PROVE Here(t) \subseteq Here(t)' /\ (enabled[t] => enabled'[t])
    BY <1>1, HereGrows
  <1>3. ASSUME NEW t \in Tables, NEW n, Past(t, n) PROVE Past(t, n)'
    BY <1>2, <1>3 DEF Steps, NameAt
  <1>4. CASE script'[r] = script[r]
    <2>1. SUFFICES ASSUME script[r].at \in {"drop", "create"} PROVE Behind(r)'
      BY <1>4 DEF Behind
    <2>2. TableOf(r) \in Tables /\ TableOf(r)' = TableOf(r)
      BY <1>1, <1>4, <2>1, AtTableType DEF AtTable, TableOf
    <2>3. enabled[TableOf(r)] /\ Past(TableOf(r), script[r].next)
      BY <2>1 DEF RlsInv, Behind
    <2> QED BY <1>2, <1>3, <1>4, <2>2, <2>3 DEF Behind
  <1>5. CASE EnableRls(r)
    <2>1. SUFFICES ASSUME script'[r].at \in {"drop", "create"} PROVE Behind(r)'
      BY DEF Behind
    <2>2. TableOf(r) \in Tables
      BY <1>1, <1>5, AtTableType DEF EnableRls, AtTable
    <2>3. Advance(r, "drop", 1) /\ enabled' = [enabled EXCEPT ![TableOf(r)] = TRUE]
      BY <1>1, <1>5, <2>1, LeavesTable DEF EnableRls, Refusal, Outage
    <2>4. script'[r].next = 1 /\ TableOf(r)' = TableOf(r)
      BY <1>1, <2>3 DEF Advance, RlsTypeOK, ScriptState, TableOf
    <2>5. enabled'[TableOf(r)] /\ \A i \in Steps(TableOf(r)) : ~(i < 1)
      BY <1>1, <2>2, <2>3, StepsType DEF RlsTypeOK
    <2> QED BY <2>4, <2>5 DEF Behind
  <1>6. CASE DropPolicy(r)
    <2>1. SUFFICES ASSUME script'[r].at \in {"drop", "create"} PROVE Behind(r)'
      BY DEF Behind
    <2>2. TableOf(r) \in Tables
      BY <1>1, <1>6, AtTableType DEF DropPolicy, AtTable
    <2>3. Advance(r, "create", script[r].next)
      BY <1>1, <1>6, <2>1, LeavesTable DEF DropPolicy, Outage
    <2>4. script'[r].next = script[r].next /\ TableOf(r)' = TableOf(r)
      BY <1>1, <2>3 DEF Advance, RlsTypeOK, ScriptState, TableOf
    <2>5. enabled[TableOf(r)] /\ Past(TableOf(r), script[r].next)
      BY <1>6 DEF DropPolicy, RlsInv, Behind
    <2> QED BY <1>2, <1>3, <2>2, <2>4, <2>5 DEF Behind
  <1>7. CASE CreatePolicy(r)
    <2>1. SUFFICES ASSUME script'[r].at \in {"drop", "create"} PROVE Behind(r)'
      BY DEF Behind
    <2>2. TableOf(r) \in Tables /\ script[r].next \in Nat
      BY <1>1, <1>7, AtTableType DEF CreatePolicy, AtTable, RlsTypeOK, ScriptState
    <2>3. Advance(r, "drop", script[r].next + 1)
          /\ policies' = [policies EXCEPT ![TableOf(r)] = @ \cup {PolicyOf(r)}]
      BY <1>1, <1>7, <2>1, LeavesTable DEF CreatePolicy, Refusal, Outage
    <2>4. script'[r].next = script[r].next + 1 /\ TableOf(r)' = TableOf(r)
      BY <1>1, <2>3 DEF Advance, RlsTypeOK, ScriptState, TableOf
    <2>5. enabled[TableOf(r)] /\ Past(TableOf(r), script[r].next)
      BY <1>7 DEF CreatePolicy, RlsInv, Behind
    <2>6. PICK t \in Tables, n \in Nat : t = TableOf(r) /\ n = script[r].next
      BY <2>2
    <2>7. NameAt(t, n) \in Present(t)'
      <3>1. PolicyOf(r) \in policies'[t] /\ PolicyOf(r).name = NameAt(t, n)
        BY <1>1, <2>3, <2>6 DEF NameAt, PolicyOf, RlsTypeOK
      <3> QED BY <3>1 DEF Present
    <2>8. \A i \in Steps(t) : i < n + 1 => i < n \/ i = n
      BY <2>6, StepsType
    <2>9. Past(t, n)'
      BY <1>3, <2>5, <2>6
    <2>10. \A i \in Steps(t) : i < n + 1 => NameAt(t, i) \in Here(t)'
      BY <2>7, <2>8, <2>9 DEF Here
    <2>11. enabled'[t]
      BY <1>2, <2>5, <2>6
    <2> QED BY <2>4, <2>6, <2>10, <2>11 DEF Behind
  <1>8. CASE StartScript(r) \/ Kill(r)
    <2>1. script'[r].at \in {"enable", "killed"}
      <3>1. script \in [RlsRuns -> ScriptState]
        BY <1>1 DEF RlsTypeOK
      <3>2. CASE Kill(r)
        BY <3>1, <3>2 DEF Kill, ScriptState
      <3>3. CASE StartScript(r)
        BY <3>1, <3>3 DEF StartScript, ScriptState
      <3> QED BY <1>8, <3>2, <3>3
    <2> QED BY <2>1 DEF Behind
  <1>9. ASSUME NEW q \in RlsRuns, q # r,
               StartScript(q) \/ EnableRls(q) \/ DropPolicy(q) \/ CreatePolicy(q) \/ Kill(q)
        PROVE  script'[r] = script[r]
    BY <1>1, <1>9 DEF StartScript, EnableRls, DropPolicy, CreatePolicy, Kill,
                      Refusal, Outage, Advance, TableFails, NextTable, RlsTypeOK
  <1> QED BY <1>4, <1>5, <1>6, <1>7, <1>8, <1>9 DEF RlsNext

(* A table stays protected, and one a run went through becomes so.         *)
LEMMA KeptStep == ASSUME RlsInv, RlsNext PROVE PoliciesKept'
  <1>1. RlsTypeOK /\ RlsTypeOK'
    BY RlsTypeStep DEF RlsInv
  <1>2. ASSUME NEW t \in applied
        PROVE  enabled'[t] /\ \A i \in Steps(t) : NameAt(t, i) \in Here(t)'
    <2>1. t \in Tables /\ enabled[t] /\ \A i \in Steps(t) : NameAt(t, i) \in Here(t)
      BY <1>1, <1>2 DEF RlsInv, RlsTypeOK, PoliciesKept, Here
    <2> QED BY <1>1, <2>1, HereGrows
  <1>3. ASSUME NEW t \in applied', t \notin applied
        PROVE  enabled'[t] /\ \A i \in Steps(t) : NameAt(t, i) \in Here(t)'
    <2>1. PICK r \in RlsRuns : CreatePolicy(r) /\ applied' # applied
      BY <1>3 DEF RlsNext, StartScript, EnableRls, DropPolicy, Kill, Refusal, Advance, Outage
    <2>2. /\ script[r].at = "create" /\ script[r].next = Len(PoliciesOf[TableOf(r)])
          /\ policies' = [policies EXCEPT ![TableOf(r)] = @ \cup {PolicyOf(r)}]
          /\ applied' = applied \cup {TableOf(r)}
      BY <2>1 DEF CreatePolicy, Refusal, Advance, Outage
    <2>3. t = TableOf(r) /\ t \in Tables
      BY <1>1, <1>3, <2>2 DEF RlsTypeOK
    <2>4. enabled[t] /\ \A i \in Steps(t) : i < script[r].next => NameAt(t, i) \in Here(t)
      BY <2>2, <2>3 DEF RlsInv, Behind
    <2>5. NameAt(t, script[r].next) \in Here(t)'
      <3>1. PolicyOf(r) \in policies'[t] /\ PolicyOf(r).name = NameAt(t, script[r].next)
        BY <1>1, <2>2, <2>3 DEF NameAt, PolicyOf, RlsTypeOK
      <3> QED BY <3>1 DEF Present, Here
    <2>6. \A i \in Steps(t) : i < script[r].next \/ i = script[r].next
      <3>1. PoliciesOf[t] \in Seq(Policies)
        BY <2>3
      <3> QED BY <2>2, <2>3, <3>1, LenProperties DEF Steps
    <2> QED BY <1>1, <2>3, <2>4, <2>5, <2>6, HereGrows
  <1> QED BY <1>2, <1>3 DEF PoliciesKept, Here

LEMMA InvStep == RlsInv /\ [RlsNext]_rlsVars => RlsInv'
  <1> SUFFICES ASSUME RlsInv, [RlsNext]_rlsVars PROVE RlsInv'
    OBVIOUS
  <1>1. CASE RlsNext
    BY <1>1, RlsTypeStep, KeptStep, BehindStep DEF RlsInv
  <1>2. CASE UNCHANGED rlsVars
    <2>1. PoliciesKept'
      BY <1>2 DEF rlsVars, RlsInv, PoliciesKept, Present, Creating, TableOf, PolicyOf
    <2>2. ASSUME NEW r \in RlsRuns PROVE Behind(r)'
      BY <1>2 DEF rlsVars, RlsInv, Behind, Here, Present, Creating, TableOf, PolicyOf
    <2> QED BY <2>1, <2>2, RlsTypeStep DEF RlsInv
  <1> QED BY <1>1, <1>2

LEMMA RlsInvariant == RlsSpec => []RlsInv
  BY InitInv, InvStep, PTL DEF RlsSpec

(* The variables of the script keep their types. *)
THEOREM RlsTypesCorrect == RlsSpec => []RlsTypeOK
  <1>1. RlsInv => RlsTypeOK
    BY DEF RlsInv
  <1> QED BY <1>1, RlsInvariant, PTL

(* A table that once had all its policies stays under row-level security   *)
(* and lacks none but those that a run has just dropped or failed at, for  *)
(* any number of runs of the script at the same time.                      *)
THEOREM TablesStayProtected == RlsSpec => []PoliciesKept
  <1>1. RlsInv => PoliciesKept
    BY DEF RlsInv
  <1> QED BY <1>1, RlsInvariant, PTL
-----------------------------------------------------------------------------
(* SIDE BY SIDE *)

(* A behaviour of the three is one of each: what holds of one holds of it. *)
THEOREM AccessIsAllThree == AccessSpec => IpSpec /\ RoleSpec /\ RlsSpec
  <1>1. AccessInit => IpInit /\ RoleInit /\ RlsInit
    BY DEF AccessInit
  <1>2. [IpPart \/ RolePart \/ RlsPart]_<<ipVars, roleVars, rlsVars, part>> =>
          [IpNext]_ipVars /\ [RoleNext]_roleVars /\ [RlsNext]_rlsVars
    BY DEF IpPart, RolePart, RlsPart
  <1> QED BY <1>1, <1>2, PTL DEF AccessSpec, IpSpec, RoleSpec, RlsSpec

(* All three are of their types, together. *)
THEOREM AccessTypesCorrect == AccessSpec => []AccessTypeOK
  <1>1. IpTypeOK /\ RoleTypeOK /\ RlsTypeOK => AccessTypeOK
    BY DEF AccessTypeOK
  <1> QED BY <1>1, AccessIsAllThree, IpTypesCorrect, RoleTypesCorrect, RlsTypesCorrect, PTL
=============================================================================
