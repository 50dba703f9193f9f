--------------------------- MODULE MembershipProof ---------------------------
(***************************************************************************)
(* What Membership promises of users, their workspaces and who is a member *)
(* of which, for any number of requests of any operations, any people, and *)
(* any database that they start with.                                      *)
(***************************************************************************)
EXTENDS Membership, TLAPS

MemStep(r) == Arrival(r) \/ LoginStep(r) \/ OtherStep(r) \/ Fails(r)
-----------------------------------------------------------------------------
(* THE COURSE OF A REQUEST *)

(* A step of r from one place to one of these.                             *)
Goes(r, from, to) ==
  pc[r] = from /\ pc'[r] \in to /\ pc' = [pc EXCEPT ![r] = pc'[r]]

LEMMA LoginEdges ==
  ASSUME MemTypeOK, NEW r \in Requests, LoginStep(r)
  PROVE  \/ FindUser(r) /\ Goes(r, "find user", {"save user", "list", "setWorkspace"})
         \/ SaveNewUser(r) /\ Goes(r, "save user", {"first workspace", "rejected"})
         \/ FirstWorkspace(r) /\ Goes(r, "first workspace", {"set first", "rejected"})
         \/ SetFirst(r) /\ Goes(r, "set first", {"list", "setWorkspace", "rejected"})
         \/ SetWorkspace(r) /\ Goes(r, "setWorkspace", {"new home", "set home", "rejected"})
         \/ NewHome(r) /\ Goes(r, "new home", {"set home", "rejected"})
         \/ SetHome(r) /\ Goes(r, "set home", {"list", "done", "rejected"})
         \/ ListWorkspaces(r) /\ Goes(r, "list", {"default workspace", "list again", "done", "rejected"})
         \/ DefaultWorkspace(r) /\ Goes(r, "default workspace", {"list again", "done", "rejected"})
         \/ ListAgain(r) /\ Goes(r, "list again", {"setWorkspace", "set main", "rejected"})
  <1>1. CASE FindUser(r)
    BY <1>1 DEF FindUser, Read, At, Goto, Goes, MemTypeOK
  <1>2. CASE SaveNewUser(r)
    BY <1>2 DEF SaveNewUser, Then, At, Goto, Goes, MemTypeOK
  <1>3. CASE FirstWorkspace(r)
    BY <1>3 DEF FirstWorkspace, Then, At, Goto, Goes, MemTypeOK
  <1>4. CASE SetFirst(r)
    BY <1>4 DEF SetFirst, Then, At, Goto, Goes, MemTypeOK
  <1>5. CASE SetWorkspace(r)
    BY <1>5 DEF SetWorkspace, Read, At, Goto, Goes, MemTypeOK
  <1>6. CASE NewHome(r)
    BY <1>6 DEF NewHome, Then, At, Goto, Goes, MemTypeOK
  <1>7. CASE SetHome(r)
    BY <1>7 DEF SetHome, Then, At, Goto, Goes, MemTypeOK
  <1>8. CASE ListWorkspaces(r)
    BY <1>8 DEF ListWorkspaces, Read, At, Goto, Goes, MemTypeOK, AfterList
  <1>9. CASE DefaultWorkspace(r)
    BY <1>9 DEF DefaultWorkspace, Then, At, Goto, Goes, MemTypeOK, AfterList
  <1>10. CASE ListAgain(r)
    BY <1>10 DEF ListAgain, Read, At, Goto, Goes, MemTypeOK
  <1> QED BY <1>1, <1>2, <1>3, <1>4, <1>5, <1>6, <1>7, <1>8, <1>9, <1>10 DEF LoginStep

LEMMA OtherEdges ==
  ASSUME MemTypeOK, NEW r \in Requests, OtherStep(r)
  PROVE  \/ FindInvited(r) /\ Goes(r, "find invited", {"check member", "refused"})
         \/ CheckMember(r) /\ Goes(r, "check member", {"push", "refused"})
         \/ Push(r) /\ Goes(r, "push", {"done", "rejected"})
         \/ ReadWorkspace(r) /\ Goes(r, "read workspace", {"find profile", "refused"})
         \/ FindProfile(r) /\ Goes(r, "find profile", {"save profile", "push", "refused"})
         \/ SaveProfile(r) /\ Goes(r, "save profile", {"push", "rejected"})
         \/ ReadMember(r) /\ Goes(r, "read member", {"read others", "refused"})
         \/ ReadOthers(r) /\ Goes(r, "read others", {"pull"})
         \/ Pull(r) /\ Goes(r, "pull", {"read profile", "refused", "rejected"})
         \/ ReadProfile(r) /\ Goes(r, "read profile", {"rehome", "set main", "done", "refused"})
         \/ Rehome(r) /\ Goes(r, "rehome", {"set main", "rejected"})
         \/ CheckDelete(r) /\ Goes(r, "check delete", {"delete", "refused"})
         \/ Delete(r) /\ Goes(r, "delete", {"done", "rejected"})
         \/ ClearDefault(r) /\ Goes(r, "clear default", {"set default", "rejected"})
         \/ SetDefault(r) /\ Goes(r, "set default", {"set main", "rejected"})
         \/ SetMain(r) /\ Goes(r, "set main", {"done", "rejected"})
  <1>1. CASE FindInvited(r)
    BY <1>1 DEF FindInvited, Read, At, Goto, Goes, MemTypeOK
  <1>2. CASE CheckMember(r)
    BY <1>2 DEF CheckMember, Read, At, Goto, Goes, MemTypeOK
  <1>3. CASE Push(r)
    BY <1>3 DEF Push, Then, At, Goto, Goes, MemTypeOK
  <1>4. CASE ReadWorkspace(r)
    BY <1>4 DEF ReadWorkspace, Read, At, Goto, Goes, MemTypeOK
  <1>5. CASE FindProfile(r)
    BY <1>5 DEF FindProfile, Read, At, Goto, Goes, MemTypeOK
  <1>6. CASE SaveProfile(r)
    BY <1>6 DEF SaveProfile, Then, At, Goto, Goes, MemTypeOK
  <1>7. CASE ReadMember(r)
    BY <1>7 DEF ReadMember, Read, At, Goto, Goes, MemTypeOK
  <1>8. CASE ReadOthers(r)
    BY <1>8 DEF ReadOthers, Read, At, Goto, Goes, MemTypeOK
  <1>9. CASE Pull(r)
    BY <1>9 DEF Pull, Then, At, Goto, Goes, MemTypeOK
  <1>10. CASE ReadProfile(r)
    BY <1>10 DEF ReadProfile, Read, At, Goto, Goes, MemTypeOK
  <1>11. CASE Rehome(r)
    BY <1>11 DEF Rehome, Then, At, Goto, Goes, MemTypeOK
  <1>12. CASE CheckDelete(r)
    BY <1>12 DEF CheckDelete, Read, At, Goto, Goes, MemTypeOK
  <1>13. CASE Delete(r)
    BY <1>13 DEF Delete, Then, At, Goto, Goes, MemTypeOK
  <1>14. CASE ClearDefault(r)
    BY <1>14 DEF ClearDefault, Then, At, Goto, Goes, MemTypeOK
  <1>15. CASE SetDefault(r)
    BY <1>15 DEF SetDefault, Then, At, Goto, Goes, MemTypeOK
  <1>16. CASE SetMain(r)
    BY <1>16 DEF SetMain, Then, At, Goto, Goes, MemTypeOK
  <1> QED BY <1>1, <1>2, <1>3, <1>4, <1>5, <1>6, <1>7, <1>8, <1>9, <1>10, <1>11, <1>12, <1>13, <1>14, <1>15, <1>16 DEF OtherStep
(* A request's own step leaves the others where they are.                  *)
LEMMA LoginMoves ==
  ASSUME MemTypeOK, NEW r \in Requests, LoginStep(r)
  PROVE  /\ \A q \in Requests : q # r => pc'[q] = pc[q] /\ loc'[q] = loc[q]
         /\ UNCHANGED <<op, overlap>>
  <1>1. UNCHANGED <<op, overlap>>
    BY DEF LoginStep, FindUser, SaveNewUser, FirstWorkspace, SetFirst, SetWorkspace, NewHome,
           SetHome, ListWorkspaces, DefaultWorkspace, ListAgain, Read, At
  <1>2. \A q \in Requests : q # r => pc'[q] = pc[q]
    BY DEF LoginStep, FindUser, SaveNewUser, FirstWorkspace, SetFirst, SetWorkspace, NewHome,
           SetHome, ListWorkspaces, DefaultWorkspace, ListAgain, Then, Goto, MemTypeOK
  <1>3. \A q \in Requests : q # r => loc'[q] = loc[q]
    BY DEF LoginStep, FindUser, SaveNewUser, FirstWorkspace, SetFirst, SetWorkspace, NewHome,
           SetHome, ListWorkspaces, DefaultWorkspace, ListAgain, Keep, MemTypeOK
  <1> QED BY <1>1, <1>2, <1>3

LEMMA OtherMoves ==
  ASSUME MemTypeOK, NEW r \in Requests, OtherStep(r)
  PROVE  /\ \A q \in Requests : q # r => pc'[q] = pc[q] /\ loc'[q] = loc[q]
         /\ UNCHANGED <<op, overlap>>
  <1>1. UNCHANGED <<op, overlap>>
    BY DEF OtherStep, FindInvited, CheckMember, Push, ReadWorkspace, FindProfile, SaveProfile,
           ReadMember, ReadOthers, Pull, ReadProfile, Rehome, CheckDelete, Delete, ClearDefault,
           SetDefault, SetMain, Read, At
  <1>2. \A q \in Requests : q # r => pc'[q] = pc[q]
    BY DEF OtherStep, FindInvited, CheckMember, Push, ReadWorkspace, FindProfile, SaveProfile,
           ReadMember, ReadOthers, Pull, ReadProfile, Rehome, CheckDelete, Delete, ClearDefault,
           SetDefault, SetMain, Then, Goto, MemTypeOK
  <1>3. \A q \in Requests : q # r => loc'[q] = loc[q]
    BY DEF OtherStep, FindInvited, CheckMember, Push, ReadWorkspace, FindProfile, SaveProfile,
           ReadMember, ReadOthers, Pull, ReadProfile, Rehome, CheckDelete, Delete, ClearDefault,
           SetDefault, SetMain, Keep, MemTypeOK
  <1> QED BY <1>1, <1>2, <1>3

(* A request arrives about one operation, at its first place.              *)
Begins(r, o, label) ==
  /\ pc' = [pc EXCEPT ![r] = label] /\ pc'[r] = label
  /\ op' = [op EXCEPT ![r] = o] /\ op'[r] = o

LEMMA ArrivalEdges ==
  ASSUME MemTypeOK, NEW r \in Requests, Arrival(r)
  PROVE  \/ Login(r) /\ Begins(r, "login", "find user")
         \/ InviteUser(r) /\ Begins(r, "invite", "find invited")
         \/ CreateWorkspaceUser(r) /\ Begins(r, "create user", "read workspace")
         \/ DeleteWorkspaceTeamMember(r) /\ Begins(r, "remove", "read member")
         \/ DeleteWorkspace(r) /\ Begins(r, "delete", "check delete")
         \/ SetAsDefaultWorkspace(r) /\ Begins(r, "default", "clear default")
         \/ SetDefaultWorkspace(r) /\ Begins(r, "main", "set main")
         \/ UpdateWorkspaceTeamMember(r) /\ Begins(r, "update", "done")
         \/ CreateWorkspace(r) /\ Begins(r, "new workspace", "done")
         \/ CreateUser(r) /\ Begins(r, "new user", "done")
         \/ DeleteUser(r) /\ Begins(r, "delete user", "done")
  <1>1. CASE Login(r)
    BY <1>1 DEF Login, Arrive, Goto, Begins, MemTypeOK
  <1>2. CASE InviteUser(r)
    BY <1>2 DEF InviteUser, Arrive, Goto, Begins, MemTypeOK
  <1>3. CASE CreateWorkspaceUser(r)
    BY <1>3 DEF CreateWorkspaceUser, Arrive, Goto, Begins, MemTypeOK
  <1>4. CASE DeleteWorkspaceTeamMember(r)
    BY <1>4 DEF DeleteWorkspaceTeamMember, Arrive, Goto, Begins, MemTypeOK
  <1>5. CASE DeleteWorkspace(r)
    BY <1>5 DEF DeleteWorkspace, Arrive, Goto, Begins, MemTypeOK
  <1>6. CASE SetAsDefaultWorkspace(r)
    BY <1>6 DEF SetAsDefaultWorkspace, Arrive, Goto, Begins, MemTypeOK
  <1>7. CASE SetDefaultWorkspace(r)
    BY <1>7 DEF SetDefaultWorkspace, Arrive, Goto, Begins, MemTypeOK
  <1>8. CASE UpdateWorkspaceTeamMember(r)
    BY <1>8 DEF UpdateWorkspaceTeamMember, Arrive, Goto, Begins, MemTypeOK
  <1>9. CASE CreateWorkspace(r)
    BY <1>9 DEF CreateWorkspace, Arrive, Goto, Begins, MemTypeOK
  <1>10. CASE CreateUser(r)
    BY <1>10 DEF CreateUser, Arrive, Goto, Begins, MemTypeOK
  <1>11. CASE DeleteUser(r)
    BY <1>11 DEF DeleteUser, Arrive, Goto, Begins, MemTypeOK
  <1> QED BY <1>1, <1>2, <1>3, <1>4, <1>5, <1>6, <1>7, <1>8, <1>9, <1>10, <1>11 DEF Arrival

LEMMA ArrivalMoves ==
  ASSUME MemTypeOK, NEW r \in Requests, Arrival(r)
  PROVE  /\ pc[r] = "idle" /\ op'[r] \in OpsOf[r]
         /\ \A q \in Requests : q # r => pc'[q] = pc[q] /\ op'[q] = op[q] /\ loc'[q] = loc[q]
         /\ overlap' = overlap \cup {<<r, q>> : q \in {x \in Requests : Active(x)}}
                               \cup {<<q, r>> : q \in {x \in Requests : Active(x)}}
  <1>1. pc[r] = "idle"
    BY DEF Arrival, Login, InviteUser, CreateWorkspaceUser, DeleteWorkspaceTeamMember,
           DeleteWorkspace, SetAsDefaultWorkspace, SetDefaultWorkspace, UpdateWorkspaceTeamMember,
           CreateWorkspace, CreateUser, DeleteUser, Arrive
  <1>2. PICK o \in OpsOf[r], l \in {"find user", "find invited", "read workspace", "read member",
                                    "check delete", "clear default", "set main", "done"} :
          Arrive(r, o, l)
    BY DEF Arrival, Login, InviteUser, CreateWorkspaceUser, DeleteWorkspaceTeamMember,
           DeleteWorkspace, SetAsDefaultWorkspace, SetDefaultWorkspace, UpdateWorkspaceTeamMember,
           CreateWorkspace, CreateUser, DeleteUser, Arrive
  <1>3. \A q \in Requests : q # r => loc'[q] = loc[q]
    BY DEF Arrival, Login, InviteUser, CreateWorkspaceUser, DeleteWorkspaceTeamMember,
           DeleteWorkspace, SetAsDefaultWorkspace, SetDefaultWorkspace, UpdateWorkspaceTeamMember,
           CreateWorkspace, CreateUser, DeleteUser, Keep, MemTypeOK
  <1>4. /\ \A q \in Requests : q # r => pc'[q] = pc[q] /\ op'[q] = op[q]
        /\ op'[r] = o
    BY <1>2 DEF Arrive, Goto, MemTypeOK
  <1>5. overlap' = overlap \cup {<<r, q>> : q \in {x \in Requests : Active(x)}}
                           \cup {<<q, r>> : q \in {x \in Requests : Active(x)}}
    BY <1>2 DEF Arrive
  <1> QED BY <1>1, <1>2, <1>3, <1>4, <1>5

Together(q, r) == <<q, r>> \in overlap /\ <<r, q>> \in overlap

(* A request that arrives meets all that are active; one under way neither *)
(* changes what it is about nor meets others.                              *)
LEMMA Turn ==
  ASSUME MemTypeOK, NEW r \in Requests, MemStep(r)
  PROVE  /\ \A q \in Requests : q # r => pc'[q] = pc[q] /\ op'[q] = op[q] /\ loc'[q] = loc[q]
         /\ overlap \subseteq overlap' /\ pc'[r] # "idle"
         /\ \/ Active(r) /\ UNCHANGED <<op, overlap>> /\ ~Arrival(r)
            \/ /\ pc[r] = "idle" /\ Arrival(r)
               /\ \A q \in Requests : Active(q) => Together(q, r)'
  <1>1. CASE LoginStep(r)
    <2>1. pc[r] \in LoginSteps /\ pc'[r] # "idle"
      BY <1>1, LoginEdges DEF Goes, LoginSteps
    <2> QED BY <1>1, <2>1, LoginMoves, ArrivalMoves DEF Active, Ended, LoginSteps
  <1>2. CASE OtherStep(r)
    <2>1. pc[r] \in OtherSteps /\ pc'[r] # "idle"
      BY <1>2, OtherEdges DEF Goes, OtherSteps
    <2> QED BY <1>2, <2>1, OtherMoves, ArrivalMoves DEF Active, Ended, OtherSteps
  <1>3. CASE Fails(r)
    <2>1. /\ \A q \in Requests : q # r => pc'[q] = pc[q]
          /\ pc'[r] = "rejected" /\ UNCHANGED <<loc, op, overlap>> /\ Active(r)
      BY <1>3 DEF Fails, Goto, MemTypeOK
    <2> QED BY <2>1, ArrivalMoves DEF Active
  <1>4. CASE Arrival(r)
    <2>1. \A q \in Requests : Active(q) => Together(q, r)'
      BY <1>4, ArrivalMoves DEF Together
    <2>2. pc'[r] # "idle"
      BY <1>4, ArrivalEdges DEF Begins
    <2> QED BY <1>4, <2>1, <2>2, ArrivalMoves
  <1> QED BY <1>1, <1>2, <1>3, <1>4 DEF MemStep

-----------------------------------------------------------------------------
(* TYPES: the ids that a request holds, and those of members, are in use.  *)

(* Where a request can be that is about o.                                 *)
Places(o) ==
  CASE o = "login"       -> LoginSteps \cup {"set main"}
    [] o = "invite"      -> {"find invited", "check member", "push"}
    [] o = "create user" -> {"read workspace", "find profile", "save profile", "push"}
    [] o = "remove"      -> {"read member", "read others", "pull", "read profile", "rehome", "set main"}
    [] o = "delete"      -> {"check delete", "delete"}
    [] o = "default"     -> {"clear default", "set default", "set main"}
    [] o = "main"        -> {"set main"}
    [] OTHER             -> {}

(* Where a request does not know a profile yet, or never will.             *)
Nameless == Ended \cup {"idle", "find user", "save user", "find invited", "read member",
                        "check delete", "delete"}

KnownIds(r) ==
  /\ loc[r].user < nextId /\ loc[r].ws < nextId /\ loc[r].entry < nextId
  /\ pc[r] \notin Nameless => loc[r].user # None
  /\ Active(r) => pc[r] \in Places(op[r])

IdsInUse ==
  \A w \in DOMAIN ws : \A e, f \in ws[w].members :
    e.id < nextId /\ e.user < nextId /\ (e.id = f.id => e = f)

MemTypeInv == MemTypeOK /\ IdsInUse /\ \A r \in Requests : KnownIds(r)

(* What a step leaves of the locals of its request.                        *)
LocalFits(r) ==
  /\ loc' \in [Requests -> Local]
  /\ loc'[r].user < nextId' /\ loc'[r].ws < nextId' /\ loc'[r].entry < nextId'
  /\ pc'[r] \notin Nameless => loc'[r].user # None

IdsGrow == nextId' \in Nat /\ nextId' >= nextId

LEMMA LocalsKept ==
  ASSUME MemTypeInv, NEW r \in Requests, UNCHANGED loc, IdsGrow,
         pc'[r] \in Nameless \/ pc[r] \notin Nameless
  PROVE  LocalFits(r)
  <1>1. loc[r] \in Local /\ nextId \in Nat /\ KnownIds(r) /\ loc \in [Requests -> Local]
    BY DEF MemTypeInv, MemTypeOK, Ids
  <1>2. loc[r].user \in Nat /\ loc[r].ws \in Nat /\ loc[r].entry \in Nat
    BY <1>1 DEF Local
  <1> QED BY <1>1, <1>2 DEF LocalFits, KnownIds, IdsGrow

LEMMA LocalsSet ==
  ASSUME MemTypeInv, NEW r \in Requests, NEW l \in Local, Keep(r, l), IdsGrow,
         l.user < nextId', l.ws < nextId', l.entry < nextId', pc'[r] \in Nameless \/ l.user # None
  PROVE  LocalFits(r)
  BY DEF LocalFits, Keep, MemTypeInv, MemTypeOK

(* Ids in use, as numbers. *)
LEMMA Numbers ==
  ASSUME MemTypeInv
  PROVE  /\ nextId \in Nat /\ nextId # None /\ nextId \in Ids
         /\ \A u \in DOMAIN users : u \in Ids /\ u < nextId /\ users[u] \in User
         /\ \A w \in DOMAIN ws : w \in Ids /\ w < nextId /\ ws[w] \in Workspace
         /\ \A r \in Requests :
              /\ loc[r] \in Local /\ KnownIds(r)
              /\ loc[r].user \in Nat /\ loc[r].ws \in Nat /\ loc[r].entry \in Nat
              /\ loc[r].home \in Nat /\ loc[r].person \in Persons
         /\ pc \in [Requests -> LoginSteps \cup OtherSteps \cup Ended \cup {"idle"}]
         /\ nextId \notin DOMAIN users /\ nextId \notin DOMAIN ws
  <1>1. nextId \in Nat /\ nextId # None /\ nextId \in Ids
    BY DEF MemTypeInv, MemTypeOK, Ids
  <1>2. \A x \in 1 .. nextId - 1 : x \in Ids /\ x < nextId
    BY <1>1 DEF Ids, None
  <1>3. \A r \in Requests : loc[r] \in Local
    BY DEF MemTypeInv, MemTypeOK
  <1>4. \A r \in Requests :
          /\ loc[r].user \in Nat /\ loc[r].ws \in Nat /\ loc[r].entry \in Nat
          /\ loc[r].home \in Nat /\ loc[r].person \in Persons
    BY <1>3 DEF Local
  <1>5. nextId \notin DOMAIN users /\ nextId \notin DOMAIN ws
    BY <1>1, <1>2 DEF MemTypeInv, MemTypeOK
  <1> QED BY <1>1, <1>2, <1>3, <1>4, <1>5 DEF MemTypeInv, MemTypeOK

LEMMA NewIds ==
  ASSUME MemTypeInv
  PROVE  /\ UNCHANGED nextId => IdsGrow
         /\ \A r, u : CreateDefaultWorkspace(r, u) => nextId' = nextId + 2 /\ IdsGrow
         /\ \A r, p : SaveUser(r, p) => nextId' = nextId + 1 /\ IdsGrow
  <1>1. nextId \in Nat
    BY Numbers
  <1>2. \A r, u : CreateDefaultWorkspace(r, u) => nextId' = nextId + 2
    BY DEF CreateDefaultWorkspace
  <1>3. \A r, p : SaveUser(r, p) => nextId' = nextId + 1
    BY DEF SaveUser
  <1> QED BY <1>1, <1>2, <1>3 DEF IdsGrow

LEMMA LoginLocals ==
  ASSUME MemTypeInv, NEW r \in Requests, LoginStep(r)
  PROVE  LocalFits(r) /\ IdsGrow
  <1> DEFINE L == loc[r]
  <1>1. /\ L \in Local /\ L.user \in Nat /\ L.ws \in Nat /\ L.entry \in Nat
        /\ L.user < nextId /\ L.ws < nextId /\ L.entry < nextId
        /\ nextId \in Nat /\ nextId # None /\ (pc[r] \notin Nameless => L.user # None)
    BY Numbers DEF KnownIds
  <1>2. MemTypeOK
    BY DEF MemTypeInv
  <1>3. CASE FindUser(r)
    <2>1. IdsGrow
      BY <1>3, NewIds DEF FindUser, Read, dbVars
    <2>2. CASE UNCHANGED loc /\ Goto(r, "save user")
      <3>1. pc'[r] \in Nameless
        BY <1>2, <2>2 DEF Goto, MemTypeOK, Nameless
      <3> QED BY <2>1, <2>2, <3>1, LocalsKept
    <2>3. ASSUME NEW u \in ProfilesOf(L.person), Keep(r, [L EXCEPT !.user = u, !.main = users[u].main])
          PROVE  LocalFits(r)
      <3>1. u \in Ids /\ u < nextId /\ users[u].main \in Nat
        BY Numbers DEF ProfilesOf, User
      <3> DEFINE l == [L EXCEPT !.user = u, !.main = users[u].main]
      <3>2. l \in Local /\ l.user = u /\ l.ws = L.ws /\ l.entry = L.entry
        BY <1>1, <3>1 DEF Local, Ids
      <3> HIDE DEF l
      <3>3. Keep(r, l)
        BY <2>3 DEF l
      <3> QED BY <1>1, <2>1, <3>1, <3>2, <3>3, LocalsSet DEF IdsGrow, Ids
    <2> QED BY <1>3, <2>1, <2>2, <2>3 DEF FindUser
  <1>4. CASE SaveNewUser(r)
    <2>1. IdsGrow /\ nextId' = nextId + 1
      BY <1>4, NewIds DEF SaveNewUser
    <2>2. Keep(r, [L EXCEPT !.user = nextId])
      BY <1>4 DEF SaveNewUser
    <2>3. [L EXCEPT !.user = nextId] \in Local
      BY <1>1 DEF Local
    <2> QED BY <1>1, <2>1, <2>2, <2>3, LocalsSet DEF Local
  <1>5. CASE FirstWorkspace(r) \/ NewHome(r)
    <2>1. IdsGrow /\ nextId' = nextId + 2
      BY <1>5, NewIds DEF FirstWorkspace, NewHome
    <2>2. Keep(r, [L EXCEPT !.home = nextId])
      BY <1>5 DEF FirstWorkspace, NewHome
    <2>3. [L EXCEPT !.home = nextId] \in Local
      BY <1>1 DEF Local
    <2>4. L.user # None
      BY <1>1, <1>5 DEF FirstWorkspace, NewHome, At, Nameless, Ended
    <2> QED BY <1>1, <2>1, <2>2, <2>3, <2>4, LocalsSet DEF Local
  <1>6. CASE SetFirst(r) \/ SetHome(r)
    <2>1. IdsGrow
      BY <1>6, NewIds DEF SetFirst, SetHome
    <2>2. Keep(r, [L EXCEPT !.main = L.home])
      BY <1>6 DEF SetFirst, SetHome
    <2>3. [L EXCEPT !.main = L.home] \in Local
      BY <1>1 DEF Local
    <2>4. L.user # None
      BY <1>1, <1>6 DEF SetFirst, SetHome, At, Nameless, Ended
    <2> QED BY <1>1, <2>1, <2>2, <2>3, <2>4, LocalsSet DEF Local, IdsGrow
  <1>7. CASE SetWorkspace(r) \/ ListAgain(r)
    <2>1. IdsGrow
      BY <1>7, NewIds DEF SetWorkspace, ListAgain, Read, dbVars
    <2>2. L.user # None
      BY <1>1, <1>7 DEF SetWorkspace, ListAgain, Read, At, Nameless, Ended
    <2>3. PICK l \in Local : Keep(r, l) /\ l.user = L.user /\ l.ws = L.ws /\ l.entry = L.entry
      <3>1. CASE UNCHANGED loc
        BY <1>1, <1>2, <3>1 DEF Keep, MemTypeOK
      <3>2. ASSUME NEW w \in MemberOf(L.user), Keep(r, [L EXCEPT !.home = w])
            PROVE  \E l \in Local : Keep(r, l) /\ l.user = L.user /\ l.ws = L.ws /\ l.entry = L.entry
        <4>1. w \in Nat
          BY Numbers DEF MemberOf, Ids
        <4>2. [L EXCEPT !.home = w] \in Local
          BY <1>1, <4>1 DEF Local
        <4> QED BY <1>1, <3>2, <4>2 DEF Local
      <3>3. ASSUME Keep(r, [L EXCEPT !.late = TRUE])
            PROVE  \E l \in Local : Keep(r, l) /\ l.user = L.user /\ l.ws = L.ws /\ l.entry = L.entry
        <4>1. [L EXCEPT !.late = TRUE] \in Local
          BY <1>1 DEF Local
        <4> QED BY <1>1, <3>3, <4>1 DEF Local
      <3> QED BY <1>7, <3>1, <3>2, <3>3 DEF SetWorkspace, ListAgain
    <2> QED BY <1>1, <2>1, <2>2, <2>3, LocalsSet DEF IdsGrow
  <1>8. CASE ListWorkspaces(r) \/ DefaultWorkspace(r)
    <2>1. IdsGrow /\ UNCHANGED loc
      BY <1>8, NewIds DEF ListWorkspaces, DefaultWorkspace, Read, dbVars
    <2>2. pc[r] \notin Nameless
      BY <1>8 DEF ListWorkspaces, DefaultWorkspace, Read, At, Nameless, Ended
    <2> QED BY <2>1, <2>2, LocalsKept
  <1> QED BY <1>3, <1>4, <1>5, <1>6, <1>7, <1>8 DEF LoginStep

LEMMA OtherLocals ==
  ASSUME MemTypeInv, NEW r \in Requests, OtherStep(r)
  PROVE  LocalFits(r) /\ IdsGrow
  <1> DEFINE L == loc[r]
  <1>1. /\ L \in Local /\ L.user \in Nat /\ L.ws \in Nat /\ L.entry \in Nat
        /\ L.user < nextId /\ L.ws < nextId /\ L.entry < nextId
        /\ nextId \in Nat /\ nextId # None /\ (pc[r] \notin Nameless => L.user # None)
    BY Numbers DEF KnownIds
  <1>2. MemTypeOK
    BY DEF MemTypeInv
  <1>3. CASE FindInvited(r) \/ FindProfile(r)
    <2>1. IdsGrow
      BY <1>3, NewIds DEF FindInvited, FindProfile, Read, dbVars
    <2>2. CASE UNCHANGED loc /\ (Goto(r, "refused") \/ FindProfile(r))
      <3>1. pc'[r] \in Nameless \/ pc[r] \notin Nameless
        BY <1>2, <2>2 DEF Goto, MemTypeOK, FindProfile, Read, At, Nameless, Ended
      <3> QED BY <2>1, <2>2, <3>1, LocalsKept
    <2>3. ASSUME NEW u \in ProfilesOf(L.person), Keep(r, [L EXCEPT !.user = u])
          PROVE  LocalFits(r)
      <3>1. u \in Ids /\ u < nextId
        BY Numbers DEF ProfilesOf
      <3>2. [L EXCEPT !.user = u] \in Local
        BY <1>1, <3>1 DEF Local, Ids
      <3> QED BY <1>1, <2>1, <2>3, <3>1, <3>2, LocalsSet DEF Local, IdsGrow, Ids
    <2> QED BY <1>3, <2>1, <2>2, <2>3 DEF FindInvited, FindProfile
  <1>4. CASE CheckMember(r) \/ CheckDelete(r) \/ Push(r) \/ Pull(r) \/ Delete(r) \/ ClearDefault(r)
             \/ SetDefault(r) \/ SetMain(r)
    <2>1. nextId' \in {nextId, nextId + 1} /\ UNCHANGED loc
      BY <1>4 DEF CheckMember, CheckDelete, Push, Pull, Delete, ClearDefault, SetDefault, SetMain,
                  Read, dbVars
    <2>2. pc'[r] \in Nameless \/ pc[r] \notin Nameless
      BY <1>2, <1>4, OtherEdges DEF CheckMember, CheckDelete, Push, Pull, Delete, ClearDefault,
                SetDefault, SetMain, Read, At, Goto, Then, MemTypeOK, Nameless, Ended
    <2> QED BY <1>1, <2>1, <2>2, LocalsKept DEF IdsGrow
  <1>5. CASE ReadWorkspace(r) \/ ReadOthers(r)
    <2>1. IdsGrow
      BY <1>5, NewIds DEF ReadWorkspace, ReadOthers, Read, dbVars
    <2>2. L.user # None
      BY <1>1, <1>5 DEF ReadWorkspace, ReadOthers, Read, At, Nameless, Ended
    <2>3. CASE UNCHANGED loc
      <3>1. Keep(r, L)
        BY <1>2, <2>3 DEF Keep, MemTypeOK
      <3> QED BY <1>1, <2>1, <2>2, <3>1, LocalsSet DEF IdsGrow
    <2>4. \A S \in SUBSET Nat : LET l == [L EXCEPT !.seen = S]
                                IN  l \in Local /\ l.user = L.user /\ l.ws = L.ws /\ l.entry = L.entry
      BY <1>1 DEF Local
    <2>5. CASE ReadWorkspace(r) /\ loc' # loc
      <3> DEFINE S == {e.user : e \in ws[L.ws].members}
      <3>1. L.ws \in DOMAIN ws /\ Keep(r, [L EXCEPT !.seen = S])
        BY <2>5 DEF ReadWorkspace
      <3>2. S \in SUBSET Nat
        <4>1. ws[L.ws] \in Workspace
          BY <3>1, Numbers
        <4> QED BY <4>1 DEF Workspace, Entry, Ids
      <3> DEFINE l == [L EXCEPT !.seen = S]
      <3>3. Keep(r, l) /\ l \in Local /\ l.user = L.user /\ l.ws = L.ws /\ l.entry = L.entry
        BY <2>4, <3>1, <3>2
      <3> HIDE DEF S, l
      <3> QED BY <1>1, <2>1, <2>2, <3>3, LocalsSet DEF IdsGrow
    <2>6. CASE ReadOthers(r)
      <3> DEFINE S == MemberOf(L.user) \ {L.ws}
      <3>1. S \in SUBSET Nat /\ Keep(r, [L EXCEPT !.seen = S])
        BY <2>6, Numbers DEF ReadOthers, MemberOf, Ids
      <3> DEFINE l == [L EXCEPT !.seen = S]
      <3>2. Keep(r, l) /\ l \in Local /\ l.user = L.user /\ l.ws = L.ws /\ l.entry = L.entry
        BY <2>4, <3>1
      <3> HIDE DEF S, l
      <3> QED BY <1>1, <2>1, <2>2, <3>2, LocalsSet DEF IdsGrow
    <2> QED BY <1>5, <2>1, <2>3, <2>5, <2>6
  <1>6. CASE SaveProfile(r)
    <2>1. IdsGrow /\ nextId' = nextId + 1
      BY <1>6, NewIds DEF SaveProfile
    <2>2. Keep(r, [L EXCEPT !.user = nextId])
      BY <1>6 DEF SaveProfile
    <2>3. [L EXCEPT !.user = nextId] \in Local
      BY <1>1 DEF Local
    <2> QED BY <1>1, <2>1, <2>2, <2>3, LocalsSet DEF Local
  <1>7. CASE ReadMember(r)
    <2>1. IdsGrow
      BY <1>7, NewIds DEF ReadMember, Read, dbVars
    <2>2. CASE UNCHANGED loc /\ Goto(r, "refused")
      <3>1. pc'[r] \in Nameless
        BY <1>2, <2>2 DEF Goto, MemTypeOK, Nameless, Ended
      <3> QED BY <2>1, <2>2, <3>1, LocalsKept
    <2>3. ASSUME L.ws \in DOMAIN ws, NEW e \in ws[L.ws].members, Keep(r, [L EXCEPT !.user = e.user])
          PROVE  LocalFits(r)
      <3>1. e \in Entry /\ e.user < nextId
        BY <2>3, Numbers DEF Workspace, MemTypeInv, IdsInUse
      <3>2. e.user \in Nat /\ e.user # None
        BY <3>1 DEF Entry, Ids
      <3>3. [L EXCEPT !.user = e.user] \in Local
        BY <1>1, <3>2 DEF Local
      <3> QED BY <1>1, <2>1, <2>3, <3>1, <3>2, <3>3, LocalsSet DEF Local, IdsGrow
    <2> QED BY <1>7, <2>1, <2>2, <2>3 DEF ReadMember
  <1>8. CASE ReadProfile(r)
    <2>1. IdsGrow
      BY <1>8, NewIds DEF ReadProfile, Read, dbVars
    <2>2. L.user # None
      BY <1>1, <1>8 DEF ReadProfile, Read, At, Nameless, Ended
    <2>3. CASE UNCHANGED loc
      <3>1. Keep(r, L)
        BY <1>2, <2>3 DEF Keep, MemTypeOK
      <3> QED BY <1>1, <2>1, <2>2, <3>1, LocalsSet DEF IdsGrow
    <2>4. ASSUME NEW w \in L.seen, Keep(r, [L EXCEPT !.home = w]) PROVE LocalFits(r)
      <3>1. [L EXCEPT !.home = w] \in Local
        BY <1>1 DEF Local
      <3> QED BY <1>1, <2>1, <2>2, <2>4, <3>1, LocalsSet DEF Local, IdsGrow
    <2> QED BY <1>8, <2>1, <2>3, <2>4 DEF ReadProfile
  <1>9. CASE Rehome(r)
    <2>1. IdsGrow /\ nextId' = nextId + 2
      BY <1>9, NewIds DEF Rehome
    <2>2. Keep(r, [L EXCEPT !.home = nextId])
      BY <1>9 DEF Rehome
    <2>3. [L EXCEPT !.home = nextId] \in Local
      BY <1>1 DEF Local
    <2>4. L.user # None
      BY <1>1, <1>9 DEF Rehome, At, Nameless, Ended
    <2> QED BY <1>1, <2>1, <2>2, <2>3, <2>4, LocalsSet DEF Local
  <1> QED BY <1>3, <1>4, <1>5, <1>6, <1>7, <1>8, <1>9 DEF OtherStep
-----------------------------------------------------------------------------
(* THE COLLECTIONS: what a step makes of workspaces, members and profiles. *)

WsTyped ==
  /\ DOMAIN ws \subseteq 1 .. nextId - 1 /\ \A w \in DOMAIN ws : ws[w] \in Workspace
  /\ IdsInUse

SameMember(e, f) == e.id = f.id /\ e.user = f.user /\ e.by = f.by

(* Where the members come from that are there after a step ...             *)
MembersFrom(r) ==
  \A w \in DOMAIN ws' : \A e \in ws'[w].members :
    \/ /\ w \in DOMAIN ws
       /\ \E f \in ws[w].members : SameMember(e, f) /\ (e = f \/ (pc[r] = "idle" /\ op'[r] = "update"))
    \/ w = nextId /\ ws'[w].members = {e}
    \/ /\ pc[r] = "push" /\ w = loc[r].ws /\ w \in DOMAIN ws
       /\ e = NewEntry(nextId, loc[r].user, r)

(* ... and that only two operations take any away.                         *)
MembersStay(r) ==
  pc[r] \notin {"pull", "delete"} =>
    \A w \in DOMAIN ws :
      w \in DOMAIN ws' /\ \A e \in ws[w].members : \E f \in ws'[w].members : SameMember(e, f)

WsFits(r) == WsTyped' /\ MembersFrom(r) /\ MembersStay(r)

(* Members that are what they were.                                        *)
LEMMA WsKept ==
  ASSUME MemTypeInv, IdsGrow, NEW r \in Requests,
         DOMAIN ws' \subseteq DOMAIN ws, pc[r] \notin {"pull", "delete"} => DOMAIN ws' = DOMAIN ws,
         \A w \in DOMAIN ws' : ws'[w] \in Workspace /\ ws'[w].members = ws[w].members
  PROVE  WsFits(r)
  <1>1. \A w \in DOMAIN ws : \A e \in ws[w].members : e.id \in Nat /\ e.user \in Nat
    BY Numbers DEF Workspace, Entry, Ids
  <1>2. WsTyped'
    <2>1. DOMAIN ws' \subseteq 1 .. nextId' - 1
      BY Numbers DEF IdsGrow, MemTypeInv, MemTypeOK
    <2>2. IdsInUse'
      BY <1>1, Numbers DEF IdsInUse, IdsGrow, MemTypeInv
    <2> QED BY <2>1, <2>2 DEF WsTyped
  <1>3. MembersFrom(r) /\ MembersStay(r)
    BY DEF MembersFrom, MembersStay, SameMember
  <1> QED BY <1>2, <1>3 DEF WsFits

(* A new workspace, with one member at most.                               *)
LEMMA WsAdded ==
  ASSUME MemTypeInv, NEW r \in Requests, NEW x \in Workspace, ws' = Put(ws, nextId, x),
         nextId' = nextId + 2,
         \A e \in x.members : x.members = {e} /\ e.id = nextId + 1 /\ e.user < nextId
  PROVE  WsFits(r)
  <1>1. /\ DOMAIN ws' = DOMAIN ws \cup {nextId} /\ ws'[nextId] = x
        /\ \A w \in DOMAIN ws : ws'[w] = ws[w]
    BY Numbers DEF Put
  <1>2. \A w \in DOMAIN ws : \A e \in ws[w].members : e.id \in Nat /\ e.user \in Nat
    BY Numbers DEF Workspace, Entry, Ids
  <1>3. \A e \in x.members : e.id \in Nat /\ e.user \in Nat
    BY DEF Workspace, Entry, Ids
  <1>4. WsTyped'
    <2>1. DOMAIN ws' \subseteq 1 .. nextId' - 1
      BY <1>1, Numbers DEF MemTypeInv, MemTypeOK, None, Ids
    <2>2. IdsInUse'
      <3>1. ASSUME NEW w \in DOMAIN ws', NEW e \in ws'[w].members, NEW f \in ws'[w].members
            PROVE  e.id < nextId' /\ e.user < nextId' /\ (e.id = f.id => e = f)
        <4>1. CASE w = nextId
          BY <1>1, <1>3, <4>1, Numbers
        <4>2. CASE w \in DOMAIN ws
          BY <1>1, <1>2, <4>2, Numbers DEF IdsInUse, MemTypeInv
        <4> QED BY <1>1, <4>1, <4>2
      <3> QED BY <3>1 DEF IdsInUse
    <2> QED BY <1>1, <2>1, <2>2, Numbers DEF WsTyped
  <1>5. MembersFrom(r) /\ MembersStay(r)
    BY <1>1 DEF MembersFrom, MembersStay, SameMember
  <1> QED BY <1>4, <1>5 DEF WsFits

(* A change of the members of one workspace.                               *)
LEMMA WsChanged ==
  ASSUME MemTypeInv, IdsGrow, NEW w \in DOMAIN ws, NEW M \in SUBSET Entry,
         ws' = [ws EXCEPT ![w].members = M],
         \A e \in M, f \in M : e.id < nextId' /\ e.user < nextId' /\ (e.id = f.id => e = f)
  PROVE  /\ WsTyped' /\ DOMAIN ws' = DOMAIN ws /\ ws'[w].members = M
         /\ \A x \in DOMAIN ws : x # w => ws'[x] = ws[x]
  <1>1. ws[w] \in Workspace
    BY Numbers
  <1>2. /\ DOMAIN ws' = DOMAIN ws /\ ws'[w] \in Workspace /\ ws'[w].members = M
        /\ \A x \in DOMAIN ws : x # w => ws'[x] = ws[x]
    BY <1>1 DEF Workspace
  <1>3. \A x \in DOMAIN ws : \A e \in ws[x].members : e.id \in Nat /\ e.user \in Nat
    BY Numbers DEF Workspace, Entry, Ids
  <1>4. DOMAIN ws' \subseteq 1 .. nextId' - 1
    BY <1>2, Numbers DEF IdsGrow, MemTypeInv, MemTypeOK
  <1>5. IdsInUse'
    <2>1. ASSUME NEW x \in DOMAIN ws', NEW e \in ws'[x].members, NEW f \in ws'[x].members
          PROVE  e.id < nextId' /\ e.user < nextId' /\ (e.id = f.id => e = f)
      <3>1. CASE x = w
        BY <1>2, <3>1
      <3>2. CASE x # w
        BY <1>2, <1>3, <3>2, Numbers DEF IdsInUse, MemTypeInv, IdsGrow
      <3> QED BY <3>1, <3>2
    <2> QED BY <2>1 DEF IdsInUse
  <1> QED BY <1>2, <1>4, <1>5, Numbers DEF WsTyped

(* The elements that the code adds.                                        *)
LEMMA EntriesTyped ==
  ASSUME NEW i \in Ids, NEW u \in Ids, NEW m \in Makers
  PROVE  /\ OwnEntry(i, u, m) \in Entry /\ NewEntry(i, u, m) \in Entry
         /\ OwnEntry(i, u, m).id = i /\ OwnEntry(i, u, m).user = u /\ OwnEntry(i, u, m).by = m
         /\ NewEntry(i, u, m).id = i /\ NewEntry(i, u, m).user = u /\ NewEntry(i, u, m).by = m
  BY DEF Entry, OwnEntry, NewEntry

LEMMA DefaultAdded ==
  ASSUME MemTypeInv, NEW r \in Requests, NEW u \in Ids, u < nextId, CreateDefaultWorkspace(r, u)
  PROVE  /\ WsFits(r)
         /\ DOMAIN ws' = DOMAIN ws \cup {nextId} /\ ws'[nextId].members = {OwnEntry(nextId + 1, u, r)}
         /\ \A w \in DOMAIN ws : ws'[w] = ws[w]
  <1> DEFINE e == OwnEntry(nextId + 1, u, r)
             x == [default |-> TRUE, members |-> {e}]
  <1>1. e \in Entry /\ e.id = nextId + 1 /\ e.user = u
    <2>1. nextId + 1 \in Ids /\ r \in Makers
      BY Numbers DEF Ids, None, Makers
    <2> QED BY <2>1, EntriesTyped
  <1>2. ws' = Put(ws, nextId, x) /\ nextId' = nextId + 2
    BY DEF CreateDefaultWorkspace
  <1> HIDE DEF e
  <1>3. x \in Workspace /\ x.members = {e}
    BY <1>1 DEF Workspace
  <1> HIDE DEF x
  <1>4. WsFits(r)
    BY <1>1, <1>2, <1>3, WsAdded
  <1>5. /\ DOMAIN ws' = DOMAIN ws \cup {nextId} /\ ws'[nextId] = x
        /\ \A w \in DOMAIN ws : ws'[w] = ws[w]
    BY <1>2, Numbers DEF Put
  <1> QED BY <1>3, <1>4, <1>5 DEF e

LEMMA LoginWs ==
  ASSUME MemTypeInv, NEW r \in Requests, LoginStep(r)
  PROVE  WsFits(r)
  <1>1. CASE FirstWorkspace(r) \/ NewHome(r) \/ DefaultWorkspace(r)
    <2>1. CreateDefaultWorkspace(r, loc[r].user)
      BY <1>1 DEF FirstWorkspace, NewHome, DefaultWorkspace
    <2>2. pc[r] \notin Nameless
      BY <1>1 DEF FirstWorkspace, NewHome, DefaultWorkspace, At, Nameless, Ended
    <2>3. loc[r].user \in Ids /\ loc[r].user < nextId
      BY <2>2, Numbers DEF KnownIds, Ids
    <2> QED BY <2>1, <2>3, DefaultAdded
  <1>2. CASE UNCHANGED ws
    BY <1>2, LoginLocals, Numbers, WsKept
  <1> QED BY <1>1, <1>2 DEF LoginStep, FindUser, SaveNewUser, SetFirst, SetWorkspace, SetHome,
                            ListWorkspaces, ListAgain, Read, dbVars

LEMMA PushWs ==
  ASSUME MemTypeInv, NEW r \in Requests, Push(r)
  PROVE  WsFits(r)
  <1> DEFINE w == loc[r].ws
             n == NewEntry(nextId, loc[r].user, r)
  <1>1. pc[r] = "push" /\ nextId' = nextId + 1 /\ IdsGrow
    BY Numbers DEF Push, At, IdsGrow
  <1>2. loc[r].user \in Ids /\ loc[r].user < nextId
    BY <1>1, Numbers DEF KnownIds, Nameless, Ended, Ids
  <1>3. n \in Entry /\ n.id = nextId /\ n.user = loc[r].user
    BY <1>2, Numbers, EntriesTyped DEF Makers
  <1>4. CASE w \in DOMAIN ws
    <2>1. ws[w].members \in SUBSET Entry
      BY <1>4, Numbers DEF Workspace
    <2> DEFINE M == ws[w].members \cup {n}
    <2>2. ws' = [ws EXCEPT ![w].members = M]
      BY <1>4 DEF Push
    <2> HIDE DEF n
    <2>3. \A e \in ws[w].members : e.id \in Nat /\ e.user \in Nat /\ e.id < nextId /\ e.user < nextId
      BY <1>4, <2>1 DEF Entry, Ids, MemTypeInv, IdsInUse
    <2>4. \A e \in M, f \in M : e.id < nextId' /\ e.user < nextId' /\ (e.id = f.id => e = f)
      BY <1>1, <1>2, <1>3, <1>4, <2>3, Numbers DEF MemTypeInv, IdsInUse
    <2>5. M \in SUBSET Entry
      BY <1>3, <2>1
    <2> HIDE DEF M
    <2>6. /\ WsTyped' /\ DOMAIN ws' = DOMAIN ws /\ ws'[w].members = M
          /\ \A x \in DOMAIN ws : x # w => ws'[x] = ws[x]
      BY <1>1, <1>4, <2>2, <2>4, <2>5, WsChanged
    <2>7. MembersFrom(r)
      <3>1. ASSUME NEW x \in DOMAIN ws', NEW e \in ws'[x].members
            PROVE  \/ e \in ws[x].members
                   \/ x = w /\ e = n
        BY <2>6, <3>1 DEF M
      <3> QED BY <1>1, <1>4, <2>6, <3>1 DEF MembersFrom, SameMember, n
    <2>8. MembersStay(r)
      BY <2>6 DEF MembersStay, SameMember, M
    <2> QED BY <2>6, <2>7, <2>8 DEF WsFits
  <1>5. CASE w \notin DOMAIN ws
    <2>1. UNCHANGED ws
      BY <1>5 DEF Push
    <2> QED BY <1>1, <2>1, Numbers, WsKept
  <1> QED BY <1>4, <1>5

LEMMA PullWs ==
  ASSUME MemTypeInv, NEW r \in Requests, Pull(r)
  PROVE  WsFits(r)
  <1> DEFINE w == loc[r].ws
             M == {e \in ws[w].members : e.id # loc[r].entry}
  <1>1. pc[r] = "pull" /\ IdsGrow
    BY NewIds DEF Pull, At
  <1>2. CASE w \in DOMAIN ws /\ ws' = [ws EXCEPT ![w].members = M]
    <2>1. M \in SUBSET Entry /\ M \subseteq ws[w].members
      BY <1>2, Numbers DEF Workspace
    <2>2. \A e \in M : e.id \in Nat /\ e.user \in Nat
      BY <2>1 DEF Entry, Ids
    <2>3. \A e \in M, f \in M : e.id < nextId' /\ e.user < nextId' /\ (e.id = f.id => e = f)
      BY <1>1, <1>2, <2>1, <2>2, Numbers DEF MemTypeInv, IdsInUse, IdsGrow
    <2> HIDE DEF M
    <2>4. /\ WsTyped' /\ DOMAIN ws' = DOMAIN ws /\ ws'[w].members = M
          /\ \A x \in DOMAIN ws : x # w => ws'[x] = ws[x]
      BY <1>1, <1>2, <2>1, <2>3, WsChanged
    <2>5. MembersFrom(r)
      <3>1. ASSUME NEW x \in DOMAIN ws', NEW e \in ws'[x].members PROVE e \in ws[x].members
        BY <2>1, <2>4, <3>1
      <3> QED BY <2>4, <3>1 DEF MembersFrom, SameMember
    <2> QED BY <1>1, <2>4, <2>5 DEF WsFits, MembersStay
  <1>3. CASE UNCHANGED ws
    BY <1>1, <1>3, Numbers, WsKept
  <1> QED BY <1>2, <1>3 DEF Pull

(* Flags are no concern of the members.                                    *)
LEMMA FlagsWs ==
  ASSUME MemTypeInv, NEW r \in Requests, ClearDefault(r) \/ SetDefault(r)
  PROVE  WsFits(r)
  <1>1. IdsGrow /\ pc[r] \notin {"pull", "delete"}
    BY NewIds DEF ClearDefault, SetDefault, At
  <1>2. \A x \in Workspace : /\ [x EXCEPT !.default = TRUE] \in Workspace
                             /\ [x EXCEPT !.default = TRUE].members = x.members
                             /\ [x EXCEPT !.default = FALSE] \in Workspace
                             /\ [x EXCEPT !.default = FALSE].members = x.members
    BY DEF Workspace
  <1>3. /\ DOMAIN ws' = DOMAIN ws
        /\ \A w \in DOMAIN ws : ws'[w] \in Workspace /\ ws'[w].members = ws[w].members
    <2>1. CASE ClearDefault(r)
      BY <1>2, <2>1, Numbers DEF ClearDefault
    <2>2. CASE SetDefault(r)
      BY <1>2, <2>2, Numbers DEF SetDefault
    <2> QED BY <2>1, <2>2
  <1> QED BY <1>1, <1>3, WsKept

LEMMA OtherWs ==
  ASSUME MemTypeInv, NEW r \in Requests, OtherStep(r)
  PROVE  WsFits(r)
  <1>1. CASE Rehome(r)
    <2>1. CreateDefaultWorkspace(r, loc[r].user) /\ pc[r] \notin Nameless
      BY <1>1 DEF Rehome, At, Nameless, Ended
    <2>2. loc[r].user \in Ids /\ loc[r].user < nextId
      BY <2>1, Numbers DEF KnownIds, Ids
    <2> QED BY <2>1, <2>2, DefaultAdded
  <1>2. CASE Delete(r)
    <2>1. pc[r] = "delete" /\ IdsGrow
      BY <1>2, NewIds DEF Delete, At
    <2>2. DOMAIN ws' \subseteq DOMAIN ws /\ \A w \in DOMAIN ws' : ws'[w] = ws[w]
      BY <1>2 DEF Delete, Drop
    <2> QED BY <2>1, <2>2, Numbers, WsKept
  <1>3. CASE UNCHANGED ws
    BY <1>3, OtherLocals, Numbers, WsKept
  <1> QED BY <1>1, <1>2, <1>3, PushWs, PullWs, FlagsWs
          DEF OtherStep, FindInvited, CheckMember, ReadWorkspace, FindProfile, SaveProfile, ReadMember,
              ReadOthers, ReadProfile, CheckDelete, SetMain, Read, dbVars
LEMMA ArrivalLocals ==
  ASSUME MemTypeInv, NEW r \in Requests, Arrival(r)
  PROVE  LocalFits(r) /\ IdsGrow
  <1>1. /\ Nobody \in Local /\ Nobody.user = None /\ Nobody.ws = None /\ Nobody.entry = None
        /\ nextId \in Nat /\ nextId # None /\ None \in Nat
    BY StartAssumption, Numbers DEF Nobody, Local, None
  <1> HIDE DEF Nobody
  <1>2. pc[r] = "idle" /\ MemTypeOK
    BY ArrivalMoves DEF MemTypeInv
  <1>3. IdsGrow
    <2>1. CASE CreateUser(r)
      BY <2>1, NewIds DEF CreateUser
    <2>2. CASE CreateWorkspace(r)
      <3>1. nextId' = nextId + 2
        BY <2>2 DEF CreateWorkspace
      <3> QED BY <1>1, <3>1 DEF IdsGrow
    <2>3. CASE UNCHANGED nextId
      BY <2>3, NewIds
    <2> QED BY <2>1, <2>2, <2>3
            DEF Arrival, Login, InviteUser, CreateWorkspaceUser, DeleteWorkspaceTeamMember,
                DeleteWorkspace, SetAsDefaultWorkspace, SetDefaultWorkspace, UpdateWorkspaceTeamMember,
                DeleteUser, dbVars
  <1>4. nextId' \in Nat /\ nextId' >= nextId
    BY <1>3 DEF IdsGrow
  <1>5. CASE Login(r)
    <2>1. PICK p \in Persons, c \in BOOLEAN : Keep(r, [Nobody EXCEPT !.person = p, !.claim = c])
      BY <1>5 DEF Login
    <2> DEFINE l == [Nobody EXCEPT !.person = p, !.claim = c]
    <2>2. l \in Local /\ l.user = None /\ l.ws = None /\ l.entry = None
      BY <1>1 DEF Local
    <2>3. pc'[r] \in Nameless
      BY <1>2, <1>5 DEF Login, Arrive, Goto, MemTypeOK, Nameless
    <2> HIDE DEF l
    <2>4. Keep(r, l)
      BY <2>1 DEF l
    <2> QED BY <1>1, <1>3, <1>4, <2>2, <2>3, <2>4, LocalsSet DEF None
  <1>6. CASE InviteUser(r)
    <2>1. PICK w \in DOMAIN ws, p \in Persons : Keep(r, [Nobody EXCEPT !.ws = w, !.person = p])
      BY <1>6 DEF InviteUser
    <2> DEFINE l == [Nobody EXCEPT !.ws = w, !.person = p]
    <2>2. w \in Nat /\ w < nextId
      BY Numbers DEF Ids
    <2>3. l \in Local /\ l.user = None /\ l.ws = w /\ l.entry = None
      BY <1>1, <2>2 DEF Local
    <2>4. pc'[r] \in Nameless
      BY <1>2, <1>6 DEF InviteUser, Arrive, Goto, MemTypeOK, Nameless
    <2> HIDE DEF l
    <2>5. Keep(r, l)
      BY <2>1 DEF l
    <2> QED BY <1>1, <1>3, <1>4, <2>2, <2>3, <2>4, <2>5, LocalsSet DEF None
  <1>7. CASE CreateWorkspaceUser(r)
    <2>1. PICK w \in DOMAIN ws, p \in Persons, u \in DOMAIN users :
            Keep(r, [Nobody EXCEPT !.ws = w, !.person = p, !.user = u])
      BY <1>7 DEF CreateWorkspaceUser
    <2> DEFINE l == [Nobody EXCEPT !.ws = w, !.person = p, !.user = u]
    <2>2. w \in Nat /\ w < nextId /\ u \in Nat /\ u # None /\ u < nextId
      BY Numbers DEF Ids
    <2>3. l \in Local /\ l.user = u /\ l.ws = w /\ l.entry = None
      BY <1>1, <2>2 DEF Local
    <2> HIDE DEF l
    <2>4. Keep(r, l)
      BY <2>1 DEF l
    <2> QED BY <1>1, <1>3, <1>4, <2>2, <2>3, <2>4, LocalsSet DEF None
  <1>8. CASE DeleteWorkspaceTeamMember(r)
    <2>1. PICK w \in DOMAIN ws : \E e \in ws[w].members : Keep(r, [Nobody EXCEPT !.ws = w, !.entry = e.id])
      BY <1>8 DEF DeleteWorkspaceTeamMember
    <2>2. PICK e \in ws[w].members : Keep(r, [Nobody EXCEPT !.ws = w, !.entry = e.id])
      BY <2>1
    <2> DEFINE l == [Nobody EXCEPT !.ws = w, !.entry = e.id]
    <2>3. w \in Nat /\ w < nextId /\ e.id \in Nat /\ e.id < nextId
      BY Numbers DEF Ids, Workspace, Entry, MemTypeInv, IdsInUse
    <2>4. l \in Local /\ l.user = None /\ l.ws = w /\ l.entry = e.id
      BY <1>1, <2>3 DEF Local
    <2>5. pc'[r] \in Nameless
      BY <1>2, <1>8 DEF DeleteWorkspaceTeamMember, Arrive, Goto, MemTypeOK, Nameless
    <2> HIDE DEF l
    <2>6. Keep(r, l)
      BY <2>2 DEF l
    <2> QED BY <1>1, <1>3, <1>4, <2>3, <2>4, <2>5, <2>6, LocalsSet DEF None
  <1>9. CASE DeleteWorkspace(r)
    <2>1. PICK w \in DOMAIN ws : Keep(r, [Nobody EXCEPT !.ws = w])
      BY <1>9 DEF DeleteWorkspace
    <2> DEFINE l == [Nobody EXCEPT !.ws = w]
    <2>2. w \in Nat /\ w < nextId
      BY Numbers DEF Ids
    <2>3. l \in Local /\ l.user = None /\ l.ws = w /\ l.entry = None
      BY <1>1, <2>2 DEF Local
    <2>4. pc'[r] \in Nameless
      BY <1>2, <1>9 DEF DeleteWorkspace, Arrive, Goto, MemTypeOK, Nameless
    <2> HIDE DEF l
    <2>5. Keep(r, l)
      BY <2>1 DEF l
    <2> QED BY <1>1, <1>3, <1>4, <2>2, <2>3, <2>4, <2>5, LocalsSet DEF None
  <1>10. CASE SetAsDefaultWorkspace(r) \/ SetDefaultWorkspace(r)
    <2>1. PICK w \in DOMAIN ws, u \in DOMAIN users : Keep(r, [Nobody EXCEPT !.user = u, !.home = w])
      BY <1>10 DEF SetAsDefaultWorkspace, SetDefaultWorkspace
    <2> DEFINE l == [Nobody EXCEPT !.user = u, !.home = w]
    <2>2. w \in Nat /\ u \in Nat /\ u # None /\ u < nextId
      BY Numbers DEF Ids
    <2>3. l \in Local /\ l.user = u /\ l.ws = None /\ l.entry = None
      BY <1>1, <2>2 DEF Local
    <2> HIDE DEF l
    <2>4. Keep(r, l)
      BY <2>1 DEF l
    <2> QED BY <1>1, <1>3, <1>4, <2>2, <2>3, <2>4, LocalsSet DEF None
  <1>11. CASE UNCHANGED loc /\ Goto(r, "done")
    <2>1. pc'[r] \in Nameless
      BY <1>2, <1>11 DEF Goto, MemTypeOK, Nameless, Ended
    <2> QED BY <1>3, <1>11, <2>1, LocalsKept
  <1> QED BY <1>3, <1>5, <1>6, <1>7, <1>8, <1>9, <1>10, <1>11
          DEF Arrival, UpdateWorkspaceTeamMember, CreateWorkspace, CreateUser, DeleteUser, Arrive

LEMMA LocalSteps ==
  ASSUME MemTypeInv, NEW r \in Requests, MemStep(r)
  PROVE  LocalFits(r) /\ IdsGrow
  <1>1. CASE Fails(r)
    <2>1. UNCHANGED <<nextId, loc>> /\ pc'[r] \in Nameless
      BY <1>1 DEF Fails, dbVars, Goto, MemTypeInv, MemTypeOK, Nameless, Ended
    <2> QED BY <2>1, NewIds, LocalsKept
  <1> QED BY <1>1, ArrivalLocals, LoginLocals, OtherLocals DEF MemStep

LEMMA UpdateWs ==
  ASSUME MemTypeInv, NEW r \in Requests, UpdateWorkspaceTeamMember(r)
  PROVE  WsFits(r)
  <1>1. pc[r] = "idle" /\ op'[r] = "update" /\ IdsGrow
    BY NewIds DEF UpdateWorkspaceTeamMember, Arrive, MemTypeInv, MemTypeOK
  <1>2. PICK w \in DOMAIN ws : \E e \in ws[w].members, o, a \in BOOLEAN :
          ws' = [ws EXCEPT ![w].members = (@ \ {e}) \cup {[e EXCEPT !.owner = o, !.active = a]}]
    BY DEF UpdateWorkspaceTeamMember
  <1>3. PICK e \in ws[w].members, o, a \in BOOLEAN :
          ws' = [ws EXCEPT ![w].members = (@ \ {e}) \cup {[e EXCEPT !.owner = o, !.active = a]}]
    BY <1>2
  <1> DEFINE f == [e EXCEPT !.owner = o, !.active = a]
             M == (ws[w].members \ {e}) \cup {f}
  <1>4. ws[w].members \in SUBSET Entry
    BY Numbers DEF Workspace
  <1>5. f \in Entry /\ SameMember(e, f)
    BY <1>4 DEF Entry, SameMember
  <1>6. ws' = [ws EXCEPT ![w].members = M]
    BY <1>3
  <1> HIDE DEF f
  <1>7. \A x \in ws[w].members : x.id \in Nat /\ x.user \in Nat /\ x.id < nextId /\ x.user < nextId
    BY <1>4 DEF Entry, Ids, MemTypeInv, IdsInUse
  <1>8. \A x \in M, y \in M : x.id < nextId' /\ x.user < nextId' /\ (x.id = y.id => x = y)
    <2>1. \A x \in ws[w].members : x.id < nextId' /\ x.user < nextId'
      BY <1>1, <1>7, Numbers DEF IdsGrow
    <2>2. \A x, y \in ws[w].members : x.id = y.id => x = y
      BY DEF MemTypeInv, IdsInUse
    <2>3. f.id = e.id /\ f.user = e.user
      BY <1>5 DEF SameMember
    <2> QED BY <2>1, <2>2, <2>3
  <1>9. M \in SUBSET Entry
    BY <1>4, <1>5
  <1>10. e \in ws[w].members /\ \A x \in M : x = f \/ x \in ws[w].members
    OBVIOUS
  <1>11. f \in M /\ \A x \in ws[w].members : x = e \/ x \in M
    OBVIOUS
  <1> HIDE DEF M
  <1>12. /\ WsTyped' /\ DOMAIN ws' = DOMAIN ws /\ ws'[w].members = M
         /\ \A x \in DOMAIN ws : x # w => ws'[x] = ws[x]
    BY <1>1, <1>6, <1>8, <1>9, WsChanged
  <1>13. MembersFrom(r)
    BY <1>1, <1>5, <1>10, <1>12 DEF MembersFrom, SameMember
  <1>14. MembersStay(r)
    BY <1>5, <1>11, <1>12 DEF MembersStay, SameMember
  <1> QED BY <1>12, <1>13, <1>14 DEF WsFits

LEMMA CreateWs ==
  ASSUME MemTypeInv, NEW r \in Requests, CreateWorkspace(r)
  PROVE  WsFits(r)
  <1>1. PICK d \in BOOLEAN, M \in {{}} \cup {{OwnEntry(nextId + 1, u, r)} : u \in DOMAIN users} :
          ws' = Put(ws, nextId, [default |-> d, members |-> M])
    BY DEF CreateWorkspace
  <1> DEFINE x == [default |-> d, members |-> M]
  <1>2. \A u \in DOMAIN users : /\ OwnEntry(nextId + 1, u, r) \in Entry
                                /\ OwnEntry(nextId + 1, u, r).id = nextId + 1
                                /\ OwnEntry(nextId + 1, u, r).user = u /\ u < nextId
    <2>1. nextId + 1 \in Ids /\ r \in Makers
      BY Numbers DEF Ids, None, Makers
    <2> QED BY <2>1, Numbers, EntriesTyped
  <1>3. M \in SUBSET Entry /\ \A e \in M : M = {e} /\ e.id = nextId + 1 /\ e.user < nextId
    BY <1>2
  <1>4. x \in Workspace /\ x.members = M
    BY <1>3 DEF Workspace
  <1>5. ws' = Put(ws, nextId, x) /\ nextId' = nextId + 2
    BY <1>1 DEF CreateWorkspace
  <1> HIDE DEF x
  <1> QED BY <1>3, <1>4, <1>5, WsAdded

LEMMA WsSteps ==
  ASSUME MemTypeInv, NEW r \in Requests, MemStep(r)
  PROVE  WsFits(r)
  <1>1. CASE UNCHANGED ws
    BY <1>1, LocalSteps, Numbers, WsKept
  <1> QED BY <1>1, LoginWs, OtherWs, UpdateWs, CreateWs
          DEF MemStep, Arrival, Login, InviteUser, CreateWorkspaceUser, DeleteWorkspaceTeamMember,
              DeleteWorkspace, SetAsDefaultWorkspace, SetDefaultWorkspace, CreateUser, DeleteUser,
              Fails, dbVars

(* Profiles: who makes one, and of whom.                                   *)
UsersTyped == DOMAIN users \subseteq 1 .. nextId - 1 /\ \A u \in DOMAIN users : users[u] \in User

UsersFrom(r) ==
  \A u \in DOMAIN users' :
    \/ u \in DOMAIN users /\ users'[u].person = users[u].person /\ users'[u].by = users[u].by
    \/ /\ u = nextId /\ users'[u].by = r
       /\ \/ pc[r] \in {"save user", "save profile"} /\ users'[u].person = loc[r].person
          \/ pc[r] = "idle" /\ op'[r] = "new user"

LEMMA Saved ==
  ASSUME MemTypeInv, NEW r \in Requests, NEW p \in Persons, SaveUser(r, p)
  PROVE  /\ UsersTyped'
         /\ \A u \in DOMAIN users' : \/ u \in DOMAIN users /\ users'[u] = users[u]
                                     \/ u = nextId /\ users'[u].by = r /\ users'[u].person = p
  <1> DEFINE x == [person |-> p, main |-> None, by |-> r]
  <1>1. x \in User /\ x.person = p /\ x.by = r
    BY DEF User, None, Makers
  <1>2. users' = Put(users, nextId, x) /\ nextId' = nextId + 1
    BY DEF SaveUser
  <1> HIDE DEF x
  <1>3. /\ DOMAIN users' = DOMAIN users \cup {nextId} /\ users'[nextId] = x
        /\ \A u \in DOMAIN users : users'[u] = users[u]
    BY <1>2, Numbers DEF Put
  <1>4. DOMAIN users' \subseteq 1 .. nextId' - 1
    BY <1>2, <1>3, Numbers DEF MemTypeInv, MemTypeOK, None
  <1> QED BY <1>1, <1>3, <1>4, Numbers DEF UsersTyped

LEMMA UsersSteps ==
  ASSUME MemTypeInv, NEW r \in Requests, MemStep(r)
  PROVE  UsersTyped' /\ UsersFrom(r)
  <1>1. nextId \in Nat /\ IdsGrow
    BY Numbers, LocalSteps
  <1>2. CASE SaveNewUser(r) \/ SaveProfile(r)
    <2>1. pc[r] \in {"save user", "save profile"} /\ SaveUser(r, loc[r].person)
      BY <1>2 DEF SaveNewUser, SaveProfile, At
    <2>2. loc[r].person \in Persons
      BY Numbers
    <2>3. /\ UsersTyped'
          /\ \A u \in DOMAIN users' : \/ u \in DOMAIN users /\ users'[u] = users[u]
                                      \/ u = nextId /\ users'[u].by = r /\ users'[u].person = loc[r].person
      BY <2>1, <2>2, Saved
    <2> QED BY <2>1, <2>3 DEF UsersFrom
  <1>3. CASE CreateUser(r)
    <2>1. PICK p \in Persons : SaveUser(r, p)
      BY <1>3 DEF CreateUser
    <2>2. pc[r] = "idle" /\ op'[r] = "new user"
      BY <1>3 DEF CreateUser, Arrive, MemTypeInv, MemTypeOK
    <2> QED BY <2>1, <2>2, Saved DEF UsersFrom
  <1>4. ASSUME DOMAIN users' \subseteq DOMAIN users,
               \A u \in DOMAIN users' : users'[u] \in User /\ users'[u].person = users[u].person
                                        /\ users'[u].by = users[u].by
        PROVE  UsersTyped' /\ UsersFrom(r)
    <2>1. DOMAIN users' \subseteq 1 .. nextId' - 1
      BY <1>1, <1>4 DEF IdsGrow, MemTypeInv, MemTypeOK
    <2>2. UsersFrom(r)
      BY <1>4 DEF UsersFrom
    <2> QED BY <1>4, <2>1, <2>2 DEF UsersTyped
  <1>5. CASE SetFirst(r) \/ SetHome(r) \/ SetMain(r)
    <2>1. PICK u, w \in Nat : users' = MainSet(u, w)
      BY <1>5, Numbers DEF SetFirst, SetHome, SetMain
    <2>2. \A x \in User : /\ [x EXCEPT !.main = w] \in User
                          /\ [x EXCEPT !.main = w].person = x.person
                          /\ [x EXCEPT !.main = w].by = x.by
      BY DEF User
    <2>3. /\ DOMAIN users' = DOMAIN users
          /\ \A v \in DOMAIN users : users'[v] = users[v] \/ users'[v] = [users[v] EXCEPT !.main = w]
      BY <2>1 DEF MainSet
    <2> QED BY <1>4, <2>2, <2>3, Numbers
  <1>6. CASE DeleteUser(r)
    <2>1. DOMAIN users' \subseteq DOMAIN users /\ \A u \in DOMAIN users' : users'[u] = users[u]
      BY <1>6 DEF DeleteUser, Drop
    <2> QED BY <1>4, <2>1, Numbers
  <1>7. CASE UNCHANGED users
    BY <1>4, <1>7, Numbers
  <1> QED BY <1>2, <1>3, <1>5, <1>6, <1>7
          DEF MemStep, Arrival, Login, InviteUser, CreateWorkspaceUser, DeleteWorkspaceTeamMember,
              DeleteWorkspace, SetAsDefaultWorkspace, SetDefaultWorkspace, UpdateWorkspaceTeamMember,
              CreateWorkspace, Fails, dbVars, LoginStep, FindUser, FirstWorkspace,
              SetWorkspace, NewHome, ListWorkspaces, DefaultWorkspace, ListAgain, Read,
              OtherStep, FindInvited, CheckMember, Push, ReadWorkspace, FindProfile, ReadMember,
              ReadOthers, Pull, ReadProfile, Rehome, CheckDelete, Delete, ClearDefault, SetDefault
-----------------------------------------------------------------------------
(* Control: a request is where an operation like its own can be.           *)
LEMMA PlaceOf ==
  ASSUME NEW o \in Ops \cup {"none"}
  PROVE  /\ \A l \in LoginSteps : l \in Places(o) => o = "login"
         /\ \A l \in {"find invited", "check member"} : l \in Places(o) => o = "invite"
         /\ \A l \in {"read workspace", "find profile", "save profile"} : l \in Places(o) => o = "create user"
         /\ "push" \in Places(o) => o \in {"invite", "create user"}
         /\ \A l \in {"read member", "read others", "pull", "read profile", "rehome"} : l \in Places(o) => o = "remove"
         /\ \A l \in {"check delete", "delete"} : l \in Places(o) => o = "delete"
         /\ \A l \in {"clear default", "set default"} : l \in Places(o) => o = "default"
         /\ "set main" \in Places(o) => o \in {"login", "remove", "default", "main"}
  BY DEF Places, Ops, LoginSteps

LEMMA PlaceGroup ==
  ASSUME NEW o \in Ops \cup {"none"}, NEW l \in OtherSteps, l \in Places(o)
  PROVE  \/ l \in {"find invited", "check member", "push"} /\ o \in {"invite", "create user"}
         \/ l \in {"read workspace", "find profile", "save profile"} /\ o = "create user"
         \/ l \in {"read member", "read others", "pull", "read profile", "rehome"} /\ o = "remove"
         \/ l \in {"check delete", "delete"} /\ o = "delete"
         \/ l \in {"clear default", "set default"} /\ o = "default"
         \/ l = "set main"
  BY PlaceOf DEF OtherSteps

LEMMA PlaceStep ==
  ASSUME MemTypeInv, NEW r \in Requests, MemStep(r)
  PROVE  /\ pc' \in [Requests -> LoginSteps \cup OtherSteps \cup Ended \cup {"idle"}]
         /\ op' \in [Requests -> Ops \cup {"none"}]
         /\ pc'[r] \notin Ended => pc'[r] \in Places(op'[r])
  <1>1. MemTypeOK /\ op[r] \in Ops \cup {"none"} /\ (Active(r) => pc[r] \in Places(op[r]))
    BY DEF MemTypeInv, MemTypeOK, KnownIds
  <1>2. CASE Fails(r)
    BY <1>1, <1>2 DEF Fails, Goto, MemTypeOK, Ended
  <1>3. CASE LoginStep(r)
    <2>1. UNCHANGED op
      BY <1>1, <1>3, LoginMoves
    <2>2. /\ pc[r] \in LoginSteps /\ pc' = [pc EXCEPT ![r] = pc'[r]]
          /\ pc'[r] \in LoginSteps \cup {"set main", "done", "rejected"}
      BY <1>1, <1>3, LoginEdges DEF Goes, LoginSteps
    <2>3. op[r] = "login"
      <3>1. pc[r] \in Places(op[r])
        BY <1>1, <2>2 DEF Active, LoginSteps, Ended
      <3> QED BY <1>1, <2>2, <3>1, PlaceOf
    <2>4. pc' \in [Requests -> LoginSteps \cup OtherSteps \cup Ended \cup {"idle"}]
      BY <1>1, <2>2 DEF MemTypeOK, OtherSteps, Ended
    <2> QED BY <1>1, <2>1, <2>2, <2>3, <2>4 DEF Places, MemTypeOK, Ended
  <1>4. CASE OtherStep(r)
    <2>1. UNCHANGED op
      BY <1>1, <1>4, OtherMoves
    <2>2. /\ pc[r] \in OtherSteps /\ pc' = [pc EXCEPT ![r] = pc'[r]]
          /\ pc'[r] \in OtherSteps \cup Ended
      BY <1>1, <1>4, OtherEdges DEF Goes, OtherSteps, Ended
    <2>3. pc[r] \in Places(op[r])
      BY <1>1, <2>2 DEF Active, OtherSteps, Ended
    <2>4. pc'[r] \notin Ended => pc'[r] \in Places(op[r])
      <3>1. \/ pc[r] \in {"find invited", "check member", "push"} /\ op[r] \in {"invite", "create user"}
            \/ pc[r] \in {"read workspace", "find profile", "save profile"} /\ op[r] = "create user"
            \/ pc[r] \in {"read member", "read others", "pull", "read profile", "rehome"} /\ op[r] = "remove"
            \/ pc[r] \in {"check delete", "delete"} /\ op[r] = "delete"
            \/ pc[r] \in {"clear default", "set default"} /\ op[r] = "default"
            \/ pc[r] = "set main"
        BY <1>1, <2>2, <2>3, PlaceGroup
      <3>2. CASE pc[r] \in {"find invited", "check member", "push"}
        BY <1>1, <1>4, <2>3, <3>1, <3>2, OtherEdges, PlaceOf DEF Goes, Places, Ended
      <3>3. CASE pc[r] \in {"read workspace", "find profile", "save profile"}
        BY <1>1, <1>4, <3>1, <3>3, OtherEdges DEF Goes, Places, Ended
      <3>4. CASE pc[r] \in {"read member", "read others", "pull", "read profile", "rehome"}
        BY <1>1, <1>4, <3>1, <3>4, OtherEdges DEF Goes, Places, Ended
      <3>5. CASE pc[r] \in {"check delete", "delete", "clear default", "set default", "set main"}
        BY <1>1, <1>4, <3>1, <3>5, OtherEdges DEF Goes, Places, Ended
      <3> QED BY <3>1, <3>2, <3>3, <3>4, <3>5
    <2>5. pc' \in [Requests -> LoginSteps \cup OtherSteps \cup Ended \cup {"idle"}]
      BY <1>1, <2>2 DEF MemTypeOK
    <2> QED BY <1>1, <2>1, <2>4, <2>5 DEF MemTypeOK
  <1>5. CASE Arrival(r)
    <2>1. PICK o \in Ops, l \in OtherSteps \cup LoginSteps \cup {"done"} :
            Begins(r, o, l) /\ (l # "done" => l \in Places(o))
      BY <1>1, <1>5, ArrivalEdges DEF Ops, OtherSteps, LoginSteps, Places
    <2> QED BY <1>1, <2>1 DEF Begins, MemTypeOK, Ended
  <1> QED BY <1>2, <1>3, <1>4, <1>5 DEF MemStep

LEMMA OverlapStep ==
  ASSUME MemTypeInv, NEW r \in Requests, MemStep(r)
  PROVE  overlap' \subseteq Requests \X Requests
  <1>1. MemTypeOK
    BY DEF MemTypeInv
  <1>2. CASE Arrival(r)
    BY <1>1, <1>2, ArrivalMoves DEF MemTypeOK
  <1>3. CASE UNCHANGED overlap
    BY <1>1, <1>3 DEF MemTypeOK
  <1> QED BY <1>1, <1>2, <1>3, Turn

LEMMA FaultStep ==
  ASSUME MemTypeInv, NEW r \in Requests, MemStep(r)
  PROVE  faults' \in 0 .. MaxFaults
  <1>1. faults \in 0 .. MaxFaults /\ MaxFaults \in Nat
    BY FaultAssumption DEF MemTypeInv, MemTypeOK
  <1>2. faults' = faults \/ Fault
    BY DEF MemStep, Arrival, Login, InviteUser, CreateWorkspaceUser, DeleteWorkspaceTeamMember,
           DeleteWorkspace, SetAsDefaultWorkspace, SetDefaultWorkspace, UpdateWorkspaceTeamMember,
           CreateWorkspace, CreateUser, DeleteUser, Arrive, Fails,
           LoginStep, FindUser, SaveNewUser, FirstWorkspace, SetFirst, SetWorkspace, NewHome,
           SetHome, ListWorkspaces, DefaultWorkspace, ListAgain,
           OtherStep, FindInvited, CheckMember, Push, ReadWorkspace, FindProfile, SaveProfile,
           ReadMember, ReadOthers, Pull, ReadProfile, Rehome, CheckDelete, Delete, ClearDefault,
           SetDefault, SetMain, Then, Read, NoFault
  <1> QED BY <1>1, <1>2 DEF Fault

LEMMA MemTypeInit ==
  MemInit => MemTypeInv
  <1> SUFFICES ASSUME MemInit PROVE MemTypeInv
    OBVIOUS
  <1> USE DEF MemInit
  <1>1. /\ Nobody \in Local /\ Nobody.user = None /\ Nobody.ws = None /\ Nobody.entry = None
        /\ nextId \in Nat /\ nextId \in Ids /\ None < nextId
    BY StartAssumption DEF Nobody, Local, None, Ids
  <1>2. IdsInUse
    <2>1. \A u \in DOMAIN StartUsers : u < StartId
      BY StartAssumption DEF Ids
    <2> QED BY <2>1, StartAssumption DEF IdsInUse
  <1> HIDE DEF Nobody
  <1>3. \A r \in Requests : KnownIds(r)
    BY <1>1 DEF KnownIds, Nameless, Active, Ended
  <1>4. MemTypeOK
    BY <1>1, StartAssumption, FaultAssumption DEF MemTypeOK, Ended
  <1> QED BY <1>2, <1>3, <1>4 DEF MemTypeInv

LEMMA MemTypeStep ==
  MemTypeInv /\ [MemNext]_vars => MemTypeInv'
  <1> SUFFICES ASSUME MemTypeInv, [MemNext]_vars PROVE MemTypeInv'
    OBVIOUS
  <1>1. CASE UNCHANGED vars
    BY <1>1 DEF vars, MemTypeInv, MemTypeOK, IdsInUse, KnownIds, Active
  <1>2. ASSUME NEW r \in Requests, MemStep(r) PROVE MemTypeInv'
    <2>1. /\ LocalFits(r) /\ WsTyped' /\ UsersTyped' /\ MemTypeOK
          /\ nextId' \in Nat /\ nextId' >= nextId /\ nextId' \in Ids
      BY <1>2, LocalSteps, WsSteps, UsersSteps, Numbers DEF WsFits, IdsGrow, Ids, None, MemTypeInv
    <2>2. MemTypeOK'
      BY <1>2, <2>1, PlaceStep, OverlapStep, FaultStep DEF MemTypeOK, LocalFits, WsTyped, UsersTyped
    <2>3. ASSUME NEW q \in Requests PROVE KnownIds(q)'
      <3>1. CASE q = r
        BY <1>2, <2>1, <3>1, PlaceStep DEF KnownIds, LocalFits, Active
      <3>2. CASE q # r
        <4>1. pc'[q] = pc[q] /\ op'[q] = op[q] /\ loc'[q] = loc[q]
          BY <1>2, <2>1, <3>2, Turn
        <4>2. KnownIds(q) /\ loc[q].user \in Nat /\ loc[q].ws \in Nat /\ loc[q].entry \in Nat
          BY Numbers
        <4> QED BY <2>1, <4>1, <4>2, Numbers DEF KnownIds, Active
      <3> QED BY <3>1, <3>2
    <2> QED BY <2>1, <2>2, <2>3 DEF MemTypeInv, WsTyped
  <1> QED BY <1>1, <1>2 DEF MemNext, MemStep

LEMMA MemTypeAlways == MemSpec => []MemTypeInv
  BY MemTypeInit, MemTypeStep, PTL DEF MemSpec

(* Every profile, workspace, member and request is what the code makes of  *)
(* it, and no id is in use that is still to be given.                      *)
THEOREM MemTypesCorrect == MemSpec => []MemTypeOK
  <1>1. MemTypeInv => MemTypeOK
    BY DEF MemTypeInv
  <1> QED BY <1>1, MemTypeAlways, PTL
-----------------------------------------------------------------------------
(* WHO MEETS WHOM: two requests that are active at a time are in the       *)
(* history together.                                                       *)
ActiveTogether == \A q, r \in Requests : q # r /\ Active(q) /\ Active(r) => Together(q, r)

LEMMA TogetherStep ==
  ASSUME MemTypeInv, ActiveTogether, NEW r \in Requests, MemStep(r)
  PROVE  ActiveTogether'
  <1>1. /\ \A q \in Requests : q # r => pc'[q] = pc[q]
        /\ overlap \subseteq overlap'
        /\ \/ Active(r)
           \/ \A q \in Requests : Active(q) => Together(q, r)'
    BY Turn DEF MemTypeInv
  <1>2. ASSUME NEW p \in Requests, NEW q \in Requests, p # q, Active(p)', Active(q)'
        PROVE  Together(p, q)'
    <2>1. Active(p) \/ p = r
      BY <1>1, <1>2 DEF Active
    <2>2. Active(q) \/ q = r
      BY <1>1, <1>2 DEF Active
    <2>3. CASE Active(p) /\ Active(q)
      BY <1>1, <1>2, <2>3 DEF ActiveTogether, Together
    <2> QED BY <1>1, <1>2, <2>1, <2>2, <2>3 DEF Together
  <1> QED BY <1>2 DEF ActiveTogether
-----------------------------------------------------------------------------
(* MEMBERS: who is about to add a user to a workspace has met whoever added*)
(* that user since it looked.                                              *)
Members(w) == IF w \in DOMAIN ws THEN ws[w].members ELSE {}

PushReady(r) ==
  pc[r] = "push" => \A e \in Members(loc[r].ws) : e.user = loc[r].user => Together(r, e.by)

SeenReady(r) ==
  pc[r] = "find profile" => \A e \in Members(loc[r].ws) : e.user \in loc[r].seen \/ Together(r, e.by)

MemberInv == MemberOnce /\ \A r \in Requests : PushReady(r) /\ SeenReady(r)

(* Whom another request finds in its workspace after a step was there, or  *)
(* was added by a request it has met.                                      *)
LEMMA Newcomers ==
  ASSUME MemTypeInv, ActiveTogether, NEW r \in Requests, MemStep(r), NEW p \in Requests, p # r,
         Active(p), NEW e \in Members(loc[p].ws)'
  PROVE  Together(p, e.by)' \/ \E f \in Members(loc[p].ws) : SameMember(e, f)
  <1>1. /\ loc'[p] = loc[p] /\ pc'[p] = pc[p] /\ overlap \subseteq overlap' /\ MemTypeOK
    BY Turn DEF MemTypeInv
  <1>2. MembersFrom(r)
    BY WsSteps DEF WsFits
  <1>3. loc[p].ws # nextId /\ loc[p].ws \in DOMAIN ws' /\ e \in ws'[loc[p].ws].members
    BY <1>1, Numbers DEF Members, KnownIds
  <1>4. CASE pc[r] = "push" /\ e = NewEntry(nextId, loc[r].user, r)
    <2>1. e.by = r /\ Active(r)
      BY <1>4 DEF NewEntry, Active, Ended
    <2> QED BY <1>1, <2>1 DEF ActiveTogether, Together
  <1> QED BY <1>2, <1>3, <1>4 DEF MembersFrom, Members

LEMMA MemberOnceStep ==
  ASSUME MemTypeInv, MemberInv, NEW r \in Requests, MemStep(r)
  PROVE  MemberOnce'
  <1>1. MembersFrom(r) /\ WsTyped' /\ overlap \subseteq overlap' /\ nextId \notin DOMAIN ws
    BY WsSteps, Turn, Numbers DEF WsFits, MemTypeInv
  <1>2. ASSUME NEW w \in DOMAIN ws', NEW e \in ws'[w].members, NEW f \in ws'[w].members,
               e.user = f.user, e # f
        PROVE  <<e.by, f.by>> \in overlap'
    <2>1. w # nextId /\ w \in DOMAIN ws
      BY <1>1, <1>2 DEF MembersFrom
    <2>2. e.id # f.id
      BY <1>1, <1>2 DEF WsTyped, IdsInUse
    <2>3. CASE \E x, y \in ws[w].members : SameMember(e, x) /\ SameMember(f, y)
      BY <1>1, <1>2, <2>1, <2>2, <2>3 DEF MemberInv, MemberOnce, SameMember
    <2> DEFINE n == NewEntry(nextId, loc[r].user, r)
    <2>4. n.user = loc[r].user /\ n.by = r
      BY DEF NewEntry
    <2> HIDE DEF n
    <2>5. CASE pc[r] = "push" /\ w = loc[r].ws /\ e = n /\ \E y \in ws[w].members : SameMember(f, y)
      <3>1. PICK y \in ws[w].members : SameMember(f, y)
        BY <2>5
      <3>2. Together(r, y.by)
        BY <1>2, <2>1, <2>4, <2>5, <3>1 DEF MemberInv, PushReady, Members, SameMember
      <3> QED BY <1>1, <2>4, <2>5, <3>1, <3>2 DEF Together, SameMember
    <2>6. CASE pc[r] = "push" /\ w = loc[r].ws /\ f = n /\ \E x \in ws[w].members : SameMember(e, x)
      <3>1. PICK x \in ws[w].members : SameMember(e, x)
        BY <2>6
      <3>2. Together(r, x.by)
        BY <1>2, <2>1, <2>4, <2>6, <3>1 DEF MemberInv, PushReady, Members, SameMember
      <3> QED BY <1>1, <2>4, <2>6, <3>1, <3>2 DEF Together, SameMember
    <2> QED BY <1>1, <1>2, <2>1, <2>3, <2>5, <2>6 DEF MembersFrom, n
  <1> QED BY <1>2 DEF MemberOnce

LEMMA PushStep ==
  ASSUME MemTypeInv, ActiveTogether, MemberInv, NEW r \in Requests, MemStep(r), NEW p \in Requests
  PROVE  PushReady(p)'
  <1>1. MemTypeOK /\ overlap \subseteq overlap'
    BY Turn DEF MemTypeInv
  <1> SUFFICES ASSUME pc'[p] = "push", NEW e \in Members(loc[p].ws)', e.user = loc'[p].user
               PROVE  Together(p, e.by)'
    BY DEF PushReady
  <1>2. CASE p # r
    <2>1. pc[p] = "push" /\ loc'[p] = loc[p] /\ Active(p)
      BY <1>1, <1>2, Turn DEF Active, Ended
    <2>2. CASE \E f \in Members(loc[p].ws) : SameMember(e, f)
      BY <1>1, <2>1, <2>2 DEF MemberInv, PushReady, SameMember, Together
    <2> QED BY <1>2, <2>1, <2>2, Newcomers
  <1>3. CASE p = r
    <2>1. CheckMember(r) \/ FindProfile(r) \/ SaveProfile(r)
      <3>1. ~LoginStep(r)
        BY <1>1, <1>3, LoginEdges DEF Goes
      <3>2. ~Arrival(r)
        BY <1>1, <1>3, ArrivalEdges DEF Begins
      <3>3. ~Fails(r)
        BY <1>1, <1>3 DEF Fails, Goto, MemTypeOK
      <3>4. OtherStep(r)
        BY <3>1, <3>2, <3>3 DEF MemStep
      <3> QED BY <1>1, <1>3, <3>4, OtherEdges DEF Goes
    <2>2. CASE CheckMember(r)
      <3>1. UNCHANGED <<ws, loc>> /\ loc[r].ws \notin MemberOf(loc[r].user)
        BY <1>1, <1>3, <2>2 DEF CheckMember, Read, dbVars, Goto, MemTypeOK, Already
      <3> QED BY <1>3, <3>1 DEF Members, MemberOf, In
    <2>3. CASE FindProfile(r)
      <3>1. PICK u \in ProfilesOf(loc[r].person) :
              Keep(r, [loc[r] EXCEPT !.user = u]) /\ u \notin loc[r].seen
        BY <1>1, <1>3, <2>3 DEF FindProfile, Goto, MemTypeOK
      <3>2. pc[r] = "find profile" /\ UNCHANGED <<ws, overlap>>
        BY <2>3 DEF FindProfile, Read, At, dbVars
      <3>3. loc'[r].user = u /\ loc'[r].ws = loc[r].ws
        BY <1>1, <3>1 DEF Keep, MemTypeOK, Local
      <3> QED BY <1>3, <3>1, <3>2, <3>3 DEF Members, MemberInv, SeenReady, Together
    <2>4. CASE SaveProfile(r)
      <3>1. Keep(r, [loc[r] EXCEPT !.user = nextId]) /\ UNCHANGED ws
        BY <2>4 DEF SaveProfile
      <3>2. loc'[r].user = nextId /\ loc'[r].ws = loc[r].ws
        BY <1>1, <3>1 DEF Keep, MemTypeOK, Local
      <3>3. e.user < nextId /\ e.user = nextId
        BY <1>3, <3>1, <3>2 DEF Members, MemTypeInv, IdsInUse
      <3> QED BY <3>3, Numbers
    <2> QED BY <2>1, <2>2, <2>3, <2>4
  <1> QED BY <1>2, <1>3

LEMMA SeenStep ==
  ASSUME MemTypeInv, ActiveTogether, MemberInv, NEW r \in Requests, MemStep(r), NEW p \in Requests
  PROVE  SeenReady(p)'
  <1>1. MemTypeOK /\ overlap \subseteq overlap'
    BY Turn DEF MemTypeInv
  <1> SUFFICES ASSUME pc'[p] = "find profile", NEW e \in Members(loc[p].ws)', e.user \notin loc'[p].seen
               PROVE  Together(p, e.by)'
    BY DEF SeenReady
  <1>2. CASE p # r
    <2>1. pc[p] = "find profile" /\ loc'[p] = loc[p] /\ Active(p)
      BY <1>1, <1>2, Turn DEF Active, Ended
    <2>2. CASE \E f \in Members(loc[p].ws) : SameMember(e, f)
      BY <1>1, <2>1, <2>2 DEF MemberInv, SeenReady, SameMember, Together
    <2> QED BY <1>2, <2>1, <2>2, Newcomers
  <1>3. CASE p = r
    <2>1. ReadWorkspace(r)
      <3>1. ~LoginStep(r)
        BY <1>1, <1>3, LoginEdges DEF Goes
      <3>2. ~Arrival(r)
        BY <1>1, <1>3, ArrivalEdges DEF Begins
      <3>3. ~Fails(r)
        BY <1>1, <1>3 DEF Fails, Goto, MemTypeOK
      <3>4. OtherStep(r)
        BY <3>1, <3>2, <3>3 DEF MemStep
      <3> QED BY <1>1, <1>3, <3>4, OtherEdges DEF Goes
    <2>2. /\ Keep(r, [loc[r] EXCEPT !.seen = {x.user : x \in ws[loc[r].ws].members}])
          /\ UNCHANGED ws
      BY <1>1, <1>3, <2>1 DEF ReadWorkspace, Read, dbVars, Goto, MemTypeOK
    <2>3. /\ loc'[r].seen = {x.user : x \in ws[loc[r].ws].members}
          /\ loc'[r].ws = loc[r].ws
      BY <1>1, <2>2 DEF Keep, MemTypeOK, Local
    <2> QED BY <1>3, <2>2, <2>3 DEF Members
  <1> QED BY <1>2, <1>3

MeetInv == MemTypeInv /\ ActiveTogether

LEMMA MeetInit ==
  MemInit => MeetInv
  BY MemTypeInit DEF MemInit, MeetInv, ActiveTogether, Active

LEMMA MeetStep ==
  MeetInv /\ [MemNext]_vars => MeetInv'
  <1> SUFFICES ASSUME MeetInv, [MemNext]_vars PROVE ActiveTogether'
    BY MemTypeStep DEF MeetInv
  <1>1. CASE UNCHANGED vars
    BY <1>1 DEF vars, MeetInv, ActiveTogether, Active, Together
  <1> QED BY <1>1, TogetherStep DEF MeetInv, MemNext, MemStep

LEMMA MeetAlways == MemSpec => []MeetInv
  BY MeetInit, MeetStep, PTL DEF MemSpec

LEMMA MemberInit ==
  MemInit => MemberInv
  BY StartAssumption DEF MemInit, MemberInv, MemberOnce, PushReady, SeenReady

LEMMA MemberStep ==
  MeetInv /\ MemberInv /\ [MemNext]_vars => MemberInv'
  <1> SUFFICES ASSUME MeetInv, MemberInv, [MemNext]_vars PROVE MemberInv'
    OBVIOUS
  <1>1. CASE UNCHANGED vars
    BY <1>1 DEF vars, MemberInv, MemberOnce, PushReady, SeenReady, Members, Together
  <1>2. ASSUME NEW r \in Requests, MemStep(r) PROVE MemberInv'
    BY <1>2, MemberOnceStep, PushStep, SeenStep DEF MeetInv, MemberInv
  <1> QED BY <1>1, <1>2 DEF MemNext, MemStep

(* "sin duplicar el registro": whoever is a member of a workspace twice was*)
(* added to it by two requests that were active together.                  *)
THEOREM MembersOnce == MemSpec => []MemberOnce
  <1>1. MemberInv => MemberOnce
    BY DEF MemberInv
  <1>2. MemSpec => []MemberInv
    BY MeetAlways, MemberInit, MemberStep, PTL DEF MemSpec
  <1> QED BY <1>1, <1>2, PTL
-----------------------------------------------------------------------------
(* PROFILES: who is about to save one has met whoever made another of that *)
(* person since it looked.                                                 *)
MakersArrived == \A u \in DOMAIN users : users[u].by \in Requests => pc[users[u].by] # "idle"

ByHand(m) == m \in Requests /\ op[m] = "new user"

SaveReady(r) ==
  pc[r] \in {"save user", "save profile"} =>
    \A u \in ProfilesOf(loc[r].person) : Together(r, users[u].by) \/ ByHand(users[u].by)

ProfileInv == ProfileOnce /\ MakersArrived /\ \A r \in Requests : SaveReady(r)

LEMMA ProfileOnceStep ==
  ASSUME MeetInv, ProfileInv, NEW r \in Requests, MemStep(r)
  PROVE  ProfileOnce' /\ MakersArrived'
  <1>1. MemTypeInv /\ UsersFrom(r) /\ overlap \subseteq overlap' /\ pc'[r] # "idle"
    BY UsersSteps, Turn DEF MeetInv, MemTypeInv
  <1>2. \A q \in Requests : pc[q] # "idle" => pc'[q] # "idle" /\ op'[q] = op[q]
    BY <1>1, Turn DEF MemTypeInv, Active
  <1>3. MakersArrived'
    BY <1>1, <1>2 DEF ProfileInv, MakersArrived, UsersFrom
  <1>4. ASSUME NEW u \in DOMAIN users', NEW v \in DOMAIN users', users'[u].person = users'[v].person, u # v
        PROVE  \/ <<users'[u].by, users'[v].by>> \in overlap'
               \/ ByHand(users[u].by)' \/ ByHand(users[v].by)'
    <2>1. CASE u \in DOMAIN users /\ v \in DOMAIN users
      <3>1. /\ users'[u].person = users[u].person /\ users'[u].by = users[u].by
            /\ users'[v].person = users[v].person /\ users'[v].by = users[v].by
        BY <1>1, <2>1, Numbers DEF UsersFrom
      <3>2. \/ <<users[u].by, users[v].by>> \in overlap
            \/ ByHand(users[u].by) \/ ByHand(users[v].by)
        <4>1. users[u].person = users[v].person /\ u # v
          BY <1>4, <3>1
        <4> QED BY <2>1, <4>1 DEF ProfileInv, ProfileOnce, ByHand
      <3> QED BY <1>1, <1>2, <2>1, <3>1, <3>2 DEF ProfileInv, MakersArrived, ByHand
    <2>2. ASSUME NEW x \in DOMAIN users', NEW y \in DOMAIN users', users'[x].person = users'[y].person,
                 x \notin DOMAIN users, y \in DOMAIN users
          PROVE  Together(users[x].by, users[y].by)' \/ ByHand(users[x].by)' \/ ByHand(users[y].by)'
      <3>1. /\ users'[x].by = r
            /\ \/ pc[r] \in {"save user", "save profile"} /\ users'[x].person = loc[r].person
               \/ op'[r] = "new user"
        BY <1>1, <2>2 DEF UsersFrom
      <3>2. users'[y].person = users[y].person /\ users'[y].by = users[y].by
        BY <1>1, <2>2, Numbers DEF UsersFrom
      <3>3. CASE op'[r] = "new user"
        BY <3>1, <3>3 DEF ByHand
      <3>4. CASE pc[r] \in {"save user", "save profile"} /\ users'[x].person = loc[r].person
        <4>1. Together(r, users[y].by) \/ ByHand(users[y].by)
          BY <2>2, <3>2, <3>4 DEF ProfileInv, SaveReady, ProfilesOf
        <4> QED BY <1>1, <1>2, <2>2, <3>1, <3>2, <4>1 DEF ProfileInv, MakersArrived, ByHand, Together
      <3> QED BY <3>1, <3>3, <3>4
    <2>3. u \in DOMAIN users \/ v \in DOMAIN users
      BY <1>1, <1>4 DEF UsersFrom
    <2> QED BY <1>4, <2>1, <2>2, <2>3 DEF Together
  <1> QED BY <1>3, <1>4 DEF ProfileOnce, ByHand

LEMMA SaveStep ==
  ASSUME MeetInv, ProfileInv, NEW r \in Requests, MemStep(r), NEW p \in Requests
  PROVE  SaveReady(p)'
  <1>1. MemTypeInv /\ MemTypeOK /\ UsersFrom(r) /\ overlap \subseteq overlap'
    BY UsersSteps, Turn DEF MeetInv, MemTypeInv
  <1>2. \A q \in Requests : pc[q] # "idle" => op'[q] = op[q]
    BY <1>1, Turn DEF Active
  <1> SUFFICES ASSUME pc'[p] \in {"save user", "save profile"}, NEW u \in ProfilesOf(loc[p].person)'
               PROVE  Together(p, users[u].by)' \/ ByHand(users[u].by)'
    BY DEF SaveReady
  <1>3. CASE p # r
    <2>1. pc[p] = pc'[p] /\ loc'[p] = loc[p] /\ Active(p)
      BY <1>1, <1>3, Turn DEF Active, Ended
    <2>2. CASE u \in DOMAIN users
      <3>1. users'[u].person = users[u].person /\ users'[u].by = users[u].by
        BY <1>1, <2>2, Numbers DEF UsersFrom, ProfilesOf
      <3>2. Together(p, users[u].by) \/ ByHand(users[u].by)
        BY <2>1, <2>2, <3>1 DEF ProfileInv, SaveReady, ProfilesOf
      <3> QED BY <1>1, <1>2, <2>2, <3>1, <3>2 DEF ProfileInv, MakersArrived, ByHand, Together
    <2>3. CASE u \notin DOMAIN users
      <3>1. users'[u].by = r /\ (Active(r) \/ op'[r] = "new user")
        BY <1>1, <2>3 DEF UsersFrom, ProfilesOf, Active, Ended
      <3> QED BY <1>1, <1>3, <2>1, <3>1 DEF MeetInv, ActiveTogether, Together, ByHand
    <2> QED BY <2>2, <2>3
  <1>4. CASE p = r
    <2>1. FindUser(r) \/ FindProfile(r)
      <3>1. ~Arrival(r)
        BY <1>1, <1>4, ArrivalEdges DEF Begins
      <3>2. ~Fails(r)
        BY <1>1, <1>4 DEF Fails, Goto, MemTypeOK
      <3>3. LoginStep(r) => FindUser(r)
        BY <1>1, <1>4, LoginEdges DEF Goes
      <3>4. OtherStep(r) => FindProfile(r)
        BY <1>1, <1>4, OtherEdges DEF Goes
      <3> QED BY <3>1, <3>2, <3>3, <3>4 DEF MemStep
    <2>2. UNCHANGED users
      BY <2>1 DEF FindUser, FindProfile, Read, dbVars
    <2>3. UNCHANGED loc /\ ProfilesOf(loc[r].person) = {}
      BY <1>1, <1>4, <2>1 DEF FindUser, FindProfile, Goto, MemTypeOK
    <2> QED BY <1>4, <2>2, <2>3 DEF ProfilesOf
  <1> QED BY <1>3, <1>4

LEMMA ProfileInit ==
  MemInit => ProfileInv
  <1> SUFFICES ASSUME MemInit PROVE ProfileInv
    OBVIOUS
  <1>1. ProfileOnce
    BY StartAssumption DEF MemInit, ProfileOnce
  <1>2. MakersArrived
    BY StartAssumption, OpsAssumption DEF MemInit, MakersArrived
  <1> QED BY <1>1, <1>2 DEF MemInit, ProfileInv, SaveReady

LEMMA ProfileStep ==
  MeetInv /\ ProfileInv /\ [MemNext]_vars => ProfileInv'
  <1> SUFFICES ASSUME MeetInv, ProfileInv, [MemNext]_vars PROVE ProfileInv'
    OBVIOUS
  <1>1. CASE UNCHANGED vars
    <2>1. ProfileOnce' /\ MakersArrived'
      <3>1. UNCHANGED <<users, pc, op, overlap>>
        BY <1>1 DEF vars
      <3>2. MakersArrived'
        BY <3>1 DEF ProfileInv, MakersArrived
      <3>3. ProfileOnce'
        <4>1. ASSUME NEW u \in DOMAIN users', NEW v \in DOMAIN users',
                     users'[u].person = users'[v].person, u # v
              PROVE  \/ <<users'[u].by, users'[v].by>> \in overlap'
                     \/ ByHand(users[u].by)' \/ ByHand(users[v].by)'
          <5>1. \/ <<users[u].by, users[v].by>> \in overlap
                \/ ByHand(users[u].by) \/ ByHand(users[v].by)
            <6>1. u \in DOMAIN users /\ v \in DOMAIN users /\ users[u].person = users[v].person
              BY <3>1, <4>1
            <6> QED BY <4>1, <6>1 DEF ProfileInv, ProfileOnce, ByHand
          <5> QED BY <3>1, <5>1 DEF ByHand
        <4> QED BY <4>1 DEF ProfileOnce, ByHand
      <3> QED BY <3>2, <3>3
    <2>2. ASSUME NEW r \in Requests PROVE SaveReady(r)'
      BY <1>1 DEF vars, ProfileInv, SaveReady, ProfilesOf, Together, ByHand
    <2> QED BY <2>1, <2>2 DEF ProfileInv
  <1>2. ASSUME NEW r \in Requests, MemStep(r) PROVE ProfileInv'
    BY <1>2, ProfileOnceStep, SaveStep DEF ProfileInv
  <1> QED BY <1>1, <1>2 DEF MemNext, MemStep

(* Whoever has two profiles got them by two requests that were active      *)
(* together, or one of them by a request that was there to make a profile. *)
THEOREM ProfilesOnce == MemSpec => []ProfileOnce
  <1>1. ProfileInv => ProfileOnce
    BY DEF ProfileInv
  <1>2. MemSpec => []ProfileInv
    BY MeetAlways, ProfileInit, ProfileStep, PTL DEF MemSpec
  <1> QED BY <1>1, <1>2, PTL
-----------------------------------------------------------------------------
(* DELETIONS: what was checked of the members of a workspace still holds   *)
(* when they go, but for what requests did that were active together.      *)
MetArrived == \A q, r \in Requests : <<q, r>> \in overlap => pc[q] # "idle" /\ pc[r] # "idle"

CheckedDelete(r) ==
  pc[r] = "delete" =>
    \A e \in Members(loc[r].ws) :
      e.active => e.owner \/ OverlapsWith(r, {"invite", "create user", "update"})

CheckedPull(r) ==
  pc[r] \in {"read others", "pull"} =>
    \A e \in Members(loc[r].ws) : e.id = loc[r].entry => ~e.owner \/ OverlapsWith(r, {"update"})

CheckInv == \A r \in Requests : CheckedDelete(r) /\ CheckedPull(r)

LEMMA MetStep ==
  ASSUME MemTypeInv, MetArrived, NEW r \in Requests, MemStep(r)
  PROVE  MetArrived'
  <1>1. MemTypeOK /\ pc'[r] # "idle" /\ \A q \in Requests : q # r => pc'[q] = pc[q]
    BY Turn DEF MemTypeInv
  <1>2. CASE Arrival(r)
    BY <1>1, <1>2, ArrivalMoves DEF MetArrived, Active
  <1>3. CASE UNCHANGED overlap
    BY <1>1, <1>3 DEF MetArrived
  <1> QED BY <1>1, <1>2, <1>3, Turn

(* Whom a request has met stays what it was about.                         *)
LEMMA OverlapsKept ==
  ASSUME MemTypeInv, MetArrived, NEW r \in Requests, MemStep(r), NEW p \in Requests, NEW O,
         OverlapsWith(p, O)
  PROVE  OverlapsWith(p, O)'
  <1>1. PICK q \in Requests : <<p, q>> \in overlap /\ op[q] \in O
    BY DEF OverlapsWith
  <1>2. op'[q] = op[q] /\ overlap \subseteq overlap'
    BY <1>1, Turn DEF MetArrived, MemTypeInv, Active
  <1> QED BY <1>1, <1>2 DEF OverlapsWith

(* A request under way meets each that takes a step meanwhile.             *)
LEMMA Meets ==
  ASSUME MemTypeInv, ActiveTogether, NEW r \in Requests, MemStep(r), NEW p \in Requests, p # r, Active(p)
  PROVE  /\ <<p, r>> \in overlap' /\ (Active(r) => UNCHANGED op)
         /\ \A O : op'[r] \in O => OverlapsWith(p, O)'
  <1>1. <<p, r>> \in overlap' /\ (Active(r) => UNCHANGED op)
    BY Turn DEF MemTypeInv, ActiveTogether, Together, Active
  <1> QED BY <1>1 DEF OverlapsWith

(* What another request finds changed among the members of its workspace.  *)
LEMMA Changes ==
  ASSUME MeetInv, NEW r \in Requests, MemStep(r), NEW p \in Requests, p # r,
         Active(p), NEW e \in Members(loc[p].ws)'
  PROVE  \/ e \in Members(loc[p].ws)
         \/ OverlapsWith(p, {"update"})' /\ \E f \in Members(loc[p].ws) : SameMember(e, f)
         \/ e.id = nextId /\ OverlapsWith(p, {"invite", "create user"})'
  <1>1. MemTypeInv /\ ActiveTogether /\ MemTypeOK /\ loc'[p] = loc[p]
    BY Turn DEF MeetInv, MemTypeInv
  <1>2. MembersFrom(r)
    BY <1>1, WsSteps DEF WsFits
  <1>3. loc[p].ws # nextId /\ loc[p].ws \in DOMAIN ws' /\ e \in ws'[loc[p].ws].members
    BY <1>1, Numbers DEF Members, KnownIds
  <1>4. CASE pc[r] = "push" /\ e = NewEntry(nextId, loc[r].user, r)
    <2>1. Active(r) /\ op[r] \in Ops \cup {"none"} /\ pc[r] \in Places(op[r])
      BY <1>1, <1>4 DEF Active, Ended, MemTypeInv, MemTypeOK, KnownIds
    <2>2. op[r] \in {"invite", "create user"}
      BY <1>4, <2>1, PlaceOf
    <2>3. op'[r] \in {"invite", "create user"}
      BY <1>1, <2>1, <2>2, Meets
    <2> QED BY <1>1, <1>4, <2>3, Meets DEF NewEntry
  <1>5. CASE op'[r] = "update"
    <2>1. OverlapsWith(p, {"update"})'
      BY <1>1, <1>5, Meets
    <2> QED BY <1>2, <1>3, <1>4, <2>1 DEF MembersFrom, Members
  <1> QED BY <1>2, <1>3, <1>4, <1>5 DEF MembersFrom, Members

LEMMA CheckedDeleteStep ==
  ASSUME MeetInv, MetArrived, CheckInv, NEW r \in Requests, MemStep(r), NEW p \in Requests
  PROVE  CheckedDelete(p)'
  <1>1. MemTypeInv /\ MemTypeOK
    BY DEF MeetInv, MemTypeInv
  <1> SUFFICES ASSUME pc'[p] = "delete", NEW e \in Members(loc[p].ws)', e.active
               PROVE  e.owner \/ OverlapsWith(p, {"invite", "create user", "update"})'
    BY DEF CheckedDelete
  <1>2. CASE p # r
    <2>1. pc[p] = "delete" /\ loc'[p] = loc[p] /\ Active(p)
      BY <1>1, <1>2, Turn DEF Active, Ended
    <2>2. CASE e \in Members(loc[p].ws)
      BY <1>1, <2>1, <2>2, OverlapsKept DEF CheckInv, CheckedDelete
    <2>3. CASE OverlapsWith(p, {"update"})' \/ OverlapsWith(p, {"invite", "create user"})'
      BY <2>3 DEF OverlapsWith
    <2> QED BY <1>2, <2>1, <2>2, <2>3, Changes
  <1>3. CASE p = r
    <2>1. CheckDelete(r)
      <3>1. ~LoginStep(r)
        BY <1>1, <1>3, LoginEdges DEF Goes
      <3>2. ~Arrival(r)
        BY <1>1, <1>3, ArrivalEdges DEF Begins
      <3>3. ~Fails(r)
        BY <1>1, <1>3 DEF Fails, Goto, MemTypeOK
      <3>4. OtherStep(r)
        BY <3>1, <3>2, <3>3 DEF MemStep
      <3> QED BY <1>1, <1>3, <3>4, OtherEdges DEF Goes
    <2>2. /\ UNCHANGED <<ws, loc>>
          /\ loc[r].ws \in DOMAIN ws /\ Deletable(ws[loc[r].ws])
      BY <1>1, <1>3, <2>1 DEF CheckDelete, Read, dbVars, Goto, MemTypeOK
    <2> QED BY <1>3, <2>2 DEF Members, Deletable
  <1> QED BY <1>2, <1>3

(* What a request is about was there before the next id is given.          *)
LEMMA IdsOld ==
  ASSUME MemTypeInv, NEW p \in Requests
  PROVE  loc[p].entry # nextId /\ loc[p].ws # nextId
  <1>1. /\ loc[p].entry < nextId /\ loc[p].entry \in Nat /\ nextId \in Nat
        /\ loc[p].ws < nextId /\ loc[p].ws \in Nat
    BY Numbers DEF KnownIds
  <1> QED BY <1>1

LEMMA CheckedPullStep ==
  ASSUME MeetInv, MetArrived, CheckInv, NEW r \in Requests, MemStep(r), NEW p \in Requests
  PROVE  CheckedPull(p)'
  <1>1. MemTypeInv /\ MemTypeOK
    BY DEF MeetInv, MemTypeInv
  <1> SUFFICES ASSUME pc'[p] \in {"read others", "pull"}, NEW e \in Members(loc[p].ws)',
                      e.id = loc'[p].entry, e.owner
               PROVE  OverlapsWith(p, {"update"})'
    BY DEF CheckedPull
  <1>2. CASE p # r
    <2>1. pc[p] \in {"read others", "pull"} /\ loc'[p] = loc[p] /\ Active(p)
      BY <1>1, <1>2, Turn DEF Active, Ended
    <2>2. CASE e \in Members(loc[p].ws)
      BY <1>1, <2>1, <2>2, OverlapsKept DEF CheckInv, CheckedPull
    <2>3. e.id # nextId
      <3>1. loc[p].entry # nextId
        BY <1>1, IdsOld
      <3> QED BY <2>1, <3>1
    <2> QED BY <1>2, <2>1, <2>2, <2>3, Changes
  <1>3. CASE p = r
    <2>1. ReadMember(r) \/ ReadOthers(r)
      <3>1. ~LoginStep(r)
        BY <1>1, <1>3, LoginEdges DEF Goes
      <3>2. ~Arrival(r)
        BY <1>1, <1>3, ArrivalEdges DEF Begins
      <3>3. ~Fails(r)
        BY <1>1, <1>3 DEF Fails, Goto, MemTypeOK
      <3>4. OtherStep(r)
        BY <3>1, <3>2, <3>3 DEF MemStep
      <3> QED BY <1>1, <1>3, <3>4, OtherEdges DEF Goes
    <2>2. CASE ReadMember(r)
      <3>1. loc[r].ws \in DOMAIN ws /\ UNCHANGED ws
        BY <1>1, <1>3, <2>2 DEF ReadMember, Read, dbVars, Goto, MemTypeOK
      <3>2. PICK f \in ws[loc[r].ws].members :
              f.id = loc[r].entry /\ ~f.owner /\ Keep(r, [loc[r] EXCEPT !.user = f.user])
        BY <1>1, <1>3, <2>2, <3>1 DEF ReadMember, Removable, Goto, MemTypeOK
      <3>3. loc'[r].ws = loc[r].ws /\ loc'[r].entry = loc[r].entry
        BY <1>1, <3>2 DEF Keep, MemTypeOK, Local
      <3>4. e \in ws[loc[r].ws].members /\ e.id = f.id
        BY <1>3, <3>1, <3>2, <3>3 DEF Members
      <3>5. e = f
        BY <1>1, <3>1, <3>4 DEF MemTypeInv, IdsInUse
      <3> QED BY <3>2, <3>5
    <2>3. CASE ReadOthers(r)
      <3>1. pc[r] = "read others" /\ UNCHANGED ws
            /\ Keep(r, [loc[r] EXCEPT !.seen = MemberOf(loc[r].user) \ {loc[r].ws}])
        BY <2>3 DEF ReadOthers, Read, At, dbVars
      <3>2. loc'[r].ws = loc[r].ws /\ loc'[r].entry = loc[r].entry
        BY <1>1, <3>1 DEF Keep, MemTypeOK, Local
      <3>3. OverlapsWith(r, {"update"})
        BY <1>3, <3>1, <3>2 DEF Members, CheckInv, CheckedPull
      <3> QED BY <1>1, <1>3, <3>3, OverlapsKept
    <2> QED BY <2>1, <2>2, <2>3
  <1> QED BY <1>2, <1>3

CheckedInv == MetArrived /\ CheckInv

LEMMA CheckedInit ==
  MemInit => CheckedInv
  BY DEF MemInit, CheckedInv, MetArrived, CheckInv, CheckedDelete, CheckedPull

LEMMA CheckedStep ==
  MeetInv /\ CheckedInv /\ [MemNext]_vars => CheckedInv'
  <1> SUFFICES ASSUME MeetInv, CheckedInv, [MemNext]_vars PROVE CheckedInv'
    OBVIOUS
  <1>1. CASE UNCHANGED vars
    <2>1. MetArrived'
      BY <1>1 DEF vars, CheckedInv, MetArrived
    <2>2. ASSUME NEW r \in Requests PROVE CheckedDelete(r)' /\ CheckedPull(r)'
      BY <1>1 DEF vars, CheckedInv, CheckInv, CheckedDelete, CheckedPull, Members, OverlapsWith
    <2> QED BY <2>1, <2>2 DEF CheckedInv, CheckInv
  <1>2. ASSUME NEW r \in Requests, MemStep(r) PROVE CheckedInv'
    BY <1>2, MetStep, CheckedDeleteStep, CheckedPullStep DEF CheckedInv, CheckInv, MeetInv
  <1> QED BY <1>1, <1>2 DEF MemNext, MemStep

LEMMA ChecksHold ==
  MeetInv /\ CheckedInv /\ [MemNext]_vars =>
    [\A r \in Requests :
       LET w == loc[r].ws
       IN  /\ pc[r] = "delete" /\ w \in DOMAIN ws /\ w \notin DOMAIN ws' =>
                \A e \in ws[w].members :
                  e.active => e.owner \/ OverlapsWith(r, {"invite", "create user", "update"})
           /\ pc[r] = "pull" /\ pc'[r] = "read profile" =>
                \A e \in ws[w].members :
                  e.id = loc[r].entry => ~e.owner \/ OverlapsWith(r, {"update"})]_vars
  <1> SUFFICES ASSUME MeetInv, CheckedInv, [MemNext]_vars, NEW r \in Requests
               PROVE  LET w == loc[r].ws
                      IN  /\ pc[r] = "delete" /\ w \in DOMAIN ws /\ w \notin DOMAIN ws' =>
                               \A e \in ws[w].members :
                                 e.active => e.owner \/ OverlapsWith(r, {"invite", "create user", "update"})
                          /\ pc[r] = "pull" /\ pc'[r] = "read profile" =>
                               \A e \in ws[w].members :
                                 e.id = loc[r].entry => ~e.owner \/ OverlapsWith(r, {"update"})
    OBVIOUS
  <1>1. pc[r] = "delete" /\ loc[r].ws \in DOMAIN ws =>
          \A e \in ws[loc[r].ws].members :
            e.active => e.owner \/ OverlapsWith(r, {"invite", "create user", "update"})
    BY DEF CheckedInv, CheckInv, CheckedDelete, Members
  <1>2. ASSUME pc[r] = "pull", pc'[r] = "read profile" PROVE loc[r].ws \in DOMAIN ws
    <2>1. PICK q \in Requests : MemStep(q)
      BY <1>2 DEF MemNext, MemStep, vars
    <2>2. q = r /\ MemTypeOK
      BY <1>2, <2>1, Turn DEF MeetInv, MemTypeInv
    <2>3. ~LoginStep(r) /\ ~Arrival(r)
      BY <1>2, <2>2, LoginEdges, ArrivalEdges DEF Goes, Begins
    <2>4. ~Fails(r)
      BY <1>2, <2>2 DEF Fails, Goto, MemTypeOK
    <2>5. Pull(r)
      BY <1>2, <2>1, <2>2, <2>3, <2>4, OtherEdges DEF MemStep, Goes
    <2> QED BY <1>2, <2>2, <2>5 DEF Pull, Goto, MemTypeOK
  <1>3. pc[r] = "pull" /\ pc'[r] = "read profile" =>
          \A e \in ws[loc[r].ws].members :
            e.id = loc[r].entry => ~e.owner \/ OverlapsWith(r, {"update"})
    BY <1>2 DEF CheckedInv, CheckInv, CheckedPull, Members
  <1> QED BY <1>1, <1>3

(* A deleted workspace takes nobody with it who is active and no owner, and*)
(* no owner is removed, but for requests active together with the deletion.*)
THEOREM DeletionsChecked == MemSpec => DeletesAsChecked
  <1>1. MemSpec => []CheckedInv
    BY MeetAlways, CheckedInit, CheckedStep, PTL DEF MemSpec
  <1> QED BY <1>1, MeetAlways, ChecksHold, PTL DEF MemSpec, DeletesAsChecked
-----------------------------------------------------------------------------
(* REMOVALS: one that no other request overlaps sees the workspaces of the *)
(* user as they are.                                                       *)
Others(r) == MemberOf(loc[r].user) \ {loc[r].ws}

Rehoming(r) ==
  op[r] = "remove" /\ Alone(r) =>
    /\ pc[r] \in {"pull", "read profile"} => loc[r].seen = Others(r)
    /\ pc[r] = "set main" => loc[r].home \in Others(r)

RehomeInv == \A r \in Requests : Rehoming(r)

(* Only its own steps can move a request that ends up alone.               *)
LEMMA AloneMoves ==
  ASSUME MeetInv, NEW r \in Requests, MemStep(r), NEW p \in Requests, Active(p)', Alone(p)'
  PROVE  p = r
  <1>1. MemTypeInv /\ ActiveTogether /\ MemTypeOK
    BY DEF MeetInv, MemTypeInv
  <1>2. ASSUME p # r PROVE FALSE
    <2>1. pc'[p] = pc[p]
      BY <1>1, <1>2, Turn
    <2>2. <<p, r>> \in overlap'
      BY <1>1, <1>2, <2>1, Meets DEF Active
    <2> QED BY <2>2 DEF Alone
  <1> QED BY <1>2

(* Where such a request can have come from, in a removal.                  *)
LEMMA RemovalEdges ==
  ASSUME MemTypeInv, NEW r \in Requests, MemStep(r), op'[r] = "remove",
         pc'[r] \in {"pull", "read profile", "set main"}
  PROVE  /\ UNCHANGED <<op, overlap>>
         /\ \/ ReadOthers(r) /\ pc'[r] = "pull"
            \/ Pull(r) /\ pc[r] = "pull" /\ pc'[r] = "read profile"
            \/ ReadProfile(r) /\ pc[r] = "read profile" /\ pc'[r] = "set main"
            \/ Rehome(r) /\ pc[r] = "rehome" /\ pc'[r] = "set main"
  <1>1. MemTypeOK /\ op[r] \in Ops \cup {"none"} /\ (Active(r) => pc[r] \in Places(op[r]))
    BY DEF MemTypeInv, MemTypeOK, KnownIds
  <1>2. ~Arrival(r)
    BY <1>1, ArrivalEdges DEF Begins
  <1>3. ~Fails(r)
    BY <1>1 DEF Fails, Goto, MemTypeOK
  <1>4. ~LoginStep(r)
    <2>1. ASSUME LoginStep(r) PROVE FALSE
      <3>1. pc[r] \in LoginSteps /\ op'[r] = op[r]
        BY <1>1, <2>1, LoginEdges, LoginMoves DEF Goes, LoginSteps
      <3>2. Active(r)
        BY <3>1 DEF Active, LoginSteps, Ended
      <3> QED BY <1>1, <3>1, <3>2, PlaceOf
    <2> QED BY <2>1
  <1>5. OtherStep(r) /\ UNCHANGED <<op, overlap>>
    BY <1>1, <1>2, <1>3, <1>4, OtherMoves DEF MemStep
  <1>6. pc[r] # "set default"
    <2>1. ASSUME pc[r] = "set default" PROVE FALSE
      <3>1. Active(r)
        BY <2>1 DEF Active, Ended
      <3> QED BY <1>1, <1>5, <2>1, <3>1, PlaceOf
    <2> QED BY <2>1
  <1> QED BY <1>1, <1>5, <1>6, OtherEdges DEF Goes

LEMMA RehomeStep ==
  ASSUME MeetInv, RehomeInv, NEW r \in Requests, MemStep(r), NEW p \in Requests
  PROVE  Rehoming(p)'
  <1>1. MemTypeInv /\ MemTypeOK
    BY DEF MeetInv, MemTypeInv
  <1> SUFFICES ASSUME op'[p] = "remove", Alone(p)', pc'[p] \in {"pull", "read profile", "set main"}
               PROVE  /\ pc'[p] \in {"pull", "read profile"} => loc'[p].seen = Others(p)'
                      /\ pc'[p] = "set main" => loc'[p].home \in Others(p)'
    BY DEF Rehoming
  <1>2. p = r
    BY <1>1, AloneMoves DEF Active, Ended
  <1>3. op[r] = "remove" /\ Alone(r)
    BY <1>1, <1>2, RemovalEdges DEF Alone
  <1>4. CASE ReadOthers(r) /\ pc'[r] = "pull"
    <2>1. UNCHANGED ws /\ Keep(r, [loc[r] EXCEPT !.seen = MemberOf(loc[r].user) \ {loc[r].ws}])
      BY <1>4 DEF ReadOthers, Read, dbVars
    <2>2. /\ loc'[r].seen = MemberOf(loc[r].user) \ {loc[r].ws}
          /\ loc'[r].user = loc[r].user /\ loc'[r].ws = loc[r].ws
      BY <1>1, <2>1 DEF Keep, MemTypeOK, Local
    <2> QED BY <1>2, <1>4, <2>1, <2>2 DEF Others, MemberOf, In
  <1>5. CASE Pull(r) /\ pc[r] = "pull" /\ pc'[r] = "read profile"
    <2>1. UNCHANGED loc /\ loc[r].seen = Others(r)
      BY <1>3, <1>5 DEF Pull, RehomeInv, Rehoming
    <2>2. DOMAIN ws' = DOMAIN ws /\ \A w \in DOMAIN ws : w # loc[r].ws => ws'[w] = ws[w]
      BY <1>5 DEF Pull
    <2>3. Others(r)' = Others(r)
      BY <2>1, <2>2 DEF Others, MemberOf, In
    <2> QED BY <1>2, <1>5, <2>1, <2>3
  <1>6. CASE ReadProfile(r) /\ pc[r] = "read profile" /\ pc'[r] = "set main"
    <2>1. UNCHANGED ws /\ loc[r].seen = Others(r)
      BY <1>3, <1>6 DEF ReadProfile, Read, dbVars, RehomeInv, Rehoming
    <2>2. PICK w \in loc[r].seen : Keep(r, [loc[r] EXCEPT !.home = w])
      BY <1>1, <1>6 DEF ReadProfile, Goto, MemTypeOK
    <2>3. loc'[r].home = w /\ loc'[r].user = loc[r].user /\ loc'[r].ws = loc[r].ws
      BY <1>1, <2>2 DEF Keep, MemTypeOK, Local
    <2> QED BY <1>2, <1>6, <2>1, <2>2, <2>3 DEF Others, MemberOf, In
  <1>7. CASE Rehome(r) /\ pc[r] = "rehome" /\ pc'[r] = "set main"
    <2>1. /\ CreateDefaultWorkspace(r, loc[r].user)
          /\ Keep(r, [loc[r] EXCEPT !.home = nextId])
      BY <1>7 DEF Rehome
    <2>2. loc'[r].home = nextId /\ loc'[r].user = loc[r].user /\ loc'[r].ws = loc[r].ws
      BY <1>1, <2>1 DEF Keep, MemTypeOK, Local
    <2>3. loc[r].user \in Ids /\ loc[r].user < nextId /\ loc[r].ws # nextId
      BY <1>1, <1>7, IdsOld, Numbers DEF KnownIds, Nameless, Ended, Ids
    <2>4. nextId \in DOMAIN ws' /\ ws'[nextId].members = {OwnEntry(nextId + 1, loc[r].user, r)}
      BY <1>1, <2>1, <2>3, DefaultAdded
    <2>5. OwnEntry(nextId + 1, loc[r].user, r).user = loc[r].user
      BY DEF OwnEntry
    <2> QED BY <1>2, <1>7, <2>2, <2>3, <2>4, <2>5 DEF Others, MemberOf, In
  <1> QED BY <1>1, <1>2, <1>4, <1>5, <1>6, <1>7, RemovalEdges

LEMMA RehomeInit ==
  MemInit => RehomeInv
  BY DEF MemInit, RehomeInv, Rehoming

LEMMA RehomeNext ==
  MeetInv /\ RehomeInv /\ [MemNext]_vars => RehomeInv'
  <1> SUFFICES ASSUME MeetInv, RehomeInv, [MemNext]_vars PROVE RehomeInv'
    OBVIOUS
  <1>1. CASE UNCHANGED vars
    <2>1. ASSUME NEW r \in Requests PROVE Rehoming(r)'
      <3>1. UNCHANGED <<ws, pc, op, loc, overlap>> /\ Rehoming(r)
        BY <1>1 DEF vars, RehomeInv
      <3> QED BY <3>1 DEF Rehoming, Others, MemberOf, In, Alone
    <2> QED BY <2>1 DEF RehomeInv
  <1>2. ASSUME NEW r \in Requests, MemStep(r) PROVE RehomeInv'
    BY <1>2, RehomeStep DEF RehomeInv
  <1> QED BY <1>1, <1>2 DEF MemNext, MemStep

(* How a removal ends well.                                                *)
LEMMA RemovalEnds ==
  ASSUME MeetInv, RehomeInv, NEW q \in Requests, MemStep(q), NEW r \in Requests,
         Ends(r, "remove", "done"), Alone(r)
  PROVE  LET u == loc[r].user
         IN  /\ \E w \in DOMAIN ws' : \E e \in ws'[w].members : e.user = u
             /\ u \in DOMAIN users' /\ users'[u].main = loc[r].ws =>
                  \E e \in ws'[loc[r].ws].members : e.user = u
  <1>1. /\ MemTypeInv /\ MemTypeOK
        /\ op[r] = "remove" /\ Active(r) /\ pc'[r] = "done" /\ pc[r] \in Places("remove")
    BY DEF MeetInv, MemTypeInv, Ends, KnownIds
  <1>2. q = r
    BY <1>1, Turn DEF Active, Ended
  <1>3. (ReadProfile(r) /\ pc[r] = "read profile") \/ (SetMain(r) /\ pc[r] = "set main")
    <2>1. ~Arrival(r)
      BY <1>1, ArrivalMoves DEF Active
    <2>2. ~Fails(r)
      BY <1>1 DEF Fails, Goto, MemTypeOK
    <2>3. ~LoginStep(r)
      <3>1. LoginStep(r) => pc[r] \in LoginSteps
        BY <1>1, LoginEdges DEF Goes, LoginSteps
      <3>2. "remove" \in Ops
        BY DEF Ops
      <3> QED BY <1>1, <3>1, <3>2, PlaceOf
    <2>4. OtherStep(r)
      BY <1>2, <2>1, <2>2, <2>3 DEF MemStep
    <2>5. pc[r] \in {"read member", "read others", "pull", "read profile", "rehome", "set main"}
      BY <1>1 DEF Places
    <2>6. pc[r] \in {"read profile", "set main"}
      BY <1>1, <2>4, <2>5, OtherEdges DEF Goes
    <2> QED BY <1>1, <2>4, <2>6, OtherEdges DEF Goes
  <1>4. CASE ReadProfile(r) /\ pc[r] = "read profile"
    <2>1. /\ UNCHANGED <<users, ws>> /\ loc[r].seen # {}
          /\ loc[r].user \in DOMAIN users => users[loc[r].user].main # loc[r].ws
      BY <1>1, <1>4 DEF ReadProfile, Read, dbVars, Goto, MemTypeOK
    <2>2. loc[r].seen = Others(r)
      BY <1>1, <1>4 DEF RehomeInv, Rehoming
    <2> QED BY <2>1, <2>2 DEF Others, MemberOf, In
  <1>5. CASE SetMain(r) /\ pc[r] = "set main"
    <2>1. loc[r].home \in Others(r)
      BY <1>1, <1>5 DEF RehomeInv, Rehoming
    <2>2. UNCHANGED ws /\ users' = MainSet(loc[r].user, loc[r].home)
      BY <1>5 DEF SetMain
    <2>3. loc[r].user \in DOMAIN users' => users'[loc[r].user].main = loc[r].home
      BY <2>2, <1>1 DEF MainSet, MemTypeOK, User
    <2> QED BY <2>1, <2>2, <2>3 DEF Others, MemberOf, In
  <1> QED BY <1>3, <1>4, <1>5

LEMMA RemovalsEnd ==
  MeetInv /\ RehomeInv /\ [MemNext]_vars =>
    [\A r \in Requests :
       Ends(r, "remove", "done") /\ Alone(r) =>
         LET u == loc[r].user
         IN  /\ \E w \in DOMAIN ws' : \E e \in ws'[w].members : e.user = u
             /\ u \in DOMAIN users' /\ users'[u].main = loc[r].ws =>
                  \E e \in ws'[loc[r].ws].members : e.user = u]_vars
  BY RemovalEnds DEF MemNext, MemStep

(* A user whose removal no other request overlaps has another workspace,   *)
(* and as main workspace not the one they were removed from.               *)
THEOREM RemovalsRehome == MemSpec => RemovedRehomed
  <1>1. MemSpec => []RehomeInv
    BY MeetAlways, RehomeInit, RehomeNext, PTL DEF MemSpec
  <1> QED BY <1>1, MeetAlways, RemovalsEnd, PTL DEF MemSpec, RemovedRehomed
-----------------------------------------------------------------------------
(* LOGINS: a user has a workspace by the time one is set as the main one,  *)
(* unless a request has taken members or workspaces away since.            *)
Takers == {"remove", "delete", "delete user"}

Provided(r) ==
  op[r] = "login" /\ pc[r] \in {"set home", "set main"} =>
    MemberOf(loc[r].user) # {} \/ OverlapsWith(r, Takers)

ProvidedInv == \A r \in Requests : Provided(r)

LEMMA ProvidedStep ==
  ASSUME MeetInv, MetArrived, ProvidedInv, NEW r \in Requests, MemStep(r), NEW p \in Requests
  PROVE  Provided(p)'
  <1>1. MemTypeInv /\ MemTypeOK /\ ActiveTogether
    BY DEF MeetInv, MemTypeInv
  <1> SUFFICES ASSUME op'[p] = "login", pc'[p] \in {"set home", "set main"}
               PROVE  (MemberOf(loc[p].user) # {})' \/ OverlapsWith(p, Takers)'
    BY DEF Provided
  <1>2. CASE p # r
    <2>1. pc[p] \in {"set home", "set main"} /\ op[p] = "login" /\ loc'[p] = loc[p] /\ Active(p)
      BY <1>1, <1>2, Turn DEF Active, Ended
    <2>2. CASE OverlapsWith(p, Takers)
      BY <1>1, <2>2, OverlapsKept
    <2>3. CASE pc[r] \in {"pull", "delete"}
      <3>1. Active(r) /\ pc[r] \in Places(op[r]) /\ op[r] \in Ops \cup {"none"}
        BY <1>1, <2>3 DEF Active, Ended, MemTypeInv, KnownIds, MemTypeOK
      <3>2. op[r] \in Takers
        BY <2>3, <3>1, PlaceOf DEF Takers
      <3>3. op'[r] \in Takers
        BY <1>1, <3>1, <3>2, Turn DEF Active
      <3> QED BY <1>1, <1>2, <2>1, <3>3, Meets
    <2>4. CASE MemberOf(loc[p].user) # {} /\ pc[r] \notin {"pull", "delete"}
      <3>1. PICK w \in DOMAIN ws : In(w, loc[p].user)
        BY <2>4 DEF MemberOf
      <3>2. PICK e \in ws[w].members : e.user = loc[p].user
        BY <3>1 DEF In
      <3>3. MembersStay(r)
        BY <1>1, WsSteps DEF WsFits
      <3>4. w \in DOMAIN ws' /\ \E f \in ws'[w].members : SameMember(e, f)
        BY <2>4, <3>2, <3>3 DEF MembersStay
      <3>5. \E f \in ws'[w].members : f.user = loc'[p].user
        BY <2>1, <3>2, <3>4 DEF SameMember
      <3> QED BY <3>4, <3>5 DEF MemberOf, In
    <2> QED BY <2>1, <2>2, <2>3, <2>4 DEF ProvidedInv, Provided
  <1>3. CASE p = r
    <2>1. SetWorkspace(r) \/ NewHome(r) \/ ListAgain(r)
      <3>1. ~Arrival(r)
        BY <1>1, <1>3, ArrivalEdges DEF Begins
      <3>2. ~Fails(r)
        BY <1>1, <1>3 DEF Fails, Goto, MemTypeOK
      <3>3. ~OtherStep(r)
        <4>1. ASSUME OtherStep(r) PROVE FALSE
          <5>1. pc[r] \in {"read profile", "rehome", "set default"} /\ op'[r] = op[r]
            BY <1>1, <1>3, <4>1, OtherEdges, OtherMoves DEF Goes
          <5>2. pc[r] \in Places(op[r]) /\ op[r] \in Ops \cup {"none"}
            BY <1>1, <5>1 DEF Active, Ended, MemTypeInv, KnownIds, MemTypeOK
          <5> QED BY <1>3, <5>1, <5>2, PlaceOf
        <4> QED BY <4>1
      <3>4. LoginStep(r)
        BY <3>1, <3>2, <3>3 DEF MemStep
      <3> QED BY <1>1, <1>3, <3>4, LoginEdges DEF Goes
    <2>2. CASE SetWorkspace(r) \/ ListAgain(r)
      <3>1. UNCHANGED ws
        BY <2>2 DEF SetWorkspace, ListAgain, Read, dbVars
      <3>2. PICK w \in MemberOf(loc[r].user) : Keep(r, [loc[r] EXCEPT !.home = w])
        BY <1>1, <1>3, <2>2 DEF SetWorkspace, ListAgain, Goto, MemTypeOK
      <3>3. loc'[r].user = loc[r].user
        BY <1>1, <3>2 DEF Keep, MemTypeOK, Local
      <3> QED BY <1>3, <3>1, <3>2, <3>3 DEF MemberOf, In
    <2>3. CASE NewHome(r)
      <3>1. /\ CreateDefaultWorkspace(r, loc[r].user) /\ pc[r] = "new home"
            /\ Keep(r, [loc[r] EXCEPT !.home = nextId])
        BY <2>3 DEF NewHome, At
      <3>2. loc'[r].user = loc[r].user
        BY <1>1, <3>1 DEF Keep, MemTypeOK, Local
      <3>3. loc[r].user \in Ids /\ loc[r].user < nextId
        BY <1>1, <3>1, Numbers DEF KnownIds, Nameless, Ended, Ids
      <3>4. nextId \in DOMAIN ws' /\ ws'[nextId].members = {OwnEntry(nextId + 1, loc[r].user, r)}
        BY <1>1, <3>1, <3>3, DefaultAdded
      <3>5. OwnEntry(nextId + 1, loc[r].user, r).user = loc[r].user
        BY DEF OwnEntry
      <3> QED BY <1>3, <3>2, <3>4, <3>5 DEF MemberOf, In
    <2> QED BY <2>1, <2>2, <2>3
  <1> QED BY <1>2, <1>3

LEMMA ProvidedInit ==
  MemInit => ProvidedInv
  BY DEF MemInit, ProvidedInv, Provided

LEMMA ProvidedNext ==
  MeetInv /\ CheckedInv /\ ProvidedInv /\ [MemNext]_vars => ProvidedInv'
  <1> SUFFICES ASSUME MeetInv, CheckedInv, ProvidedInv, [MemNext]_vars PROVE ProvidedInv'
    OBVIOUS
  <1>1. CASE UNCHANGED vars
    <2>1. ASSUME NEW r \in Requests PROVE Provided(r)'
      <3>1. UNCHANGED <<ws, pc, op, loc, overlap>> /\ Provided(r)
        BY <1>1 DEF vars, ProvidedInv
      <3> QED BY <3>1 DEF Provided, MemberOf, In, OverlapsWith
    <2> QED BY <2>1 DEF ProvidedInv
  <1>2. ASSUME NEW r \in Requests, MemStep(r) PROVE ProvidedInv'
    BY <1>2, ProvidedStep DEF ProvidedInv, CheckedInv
  <1> QED BY <1>1, <1>2 DEF MemNext, MemStep

(* How a login ends well.                                                  *)
LEMMA LoginEnds ==
  ASSUME MeetInv, ProvidedInv, NEW q \in Requests, MemStep(q), NEW r \in Requests,
         Ends(r, "login", "done"), ~OverlapsWith(r, Takers)
  PROVE  \E w \in DOMAIN ws' : \E e \in ws'[w].members : e.user = loc[r].user
  <1>1. /\ MemTypeInv /\ MemTypeOK
        /\ op[r] = "login" /\ Active(r) /\ pc'[r] = "done" /\ pc[r] \in Places("login")
    BY DEF MeetInv, MemTypeInv, Ends, KnownIds
  <1>2. q = r
    BY <1>1, Turn DEF Active, Ended
  <1>3. ListWorkspaces(r) \/ DefaultWorkspace(r) \/ SetHome(r) \/ SetMain(r)
    <2>1. ~Arrival(r)
      BY <1>1, ArrivalMoves DEF Active
    <2>2. ~Fails(r)
      BY <1>1 DEF Fails, Goto, MemTypeOK
    <2>3. LoginStep(r) => ListWorkspaces(r) \/ DefaultWorkspace(r) \/ SetHome(r)
      BY <1>1, LoginEdges DEF Goes
    <2>4. pc[r] \in LoginSteps \cup {"set main"}
      BY <1>1 DEF Places
    <2>5. OtherStep(r) => SetMain(r)
      BY <1>1, <2>4, OtherEdges DEF Goes, LoginSteps
    <2> QED BY <1>2, <2>1, <2>2, <2>3, <2>5 DEF MemStep
  <1>4. CASE ListWorkspaces(r)
    <2>1. UNCHANGED ws /\ MemberOf(loc[r].user) # {}
      BY <1>1, <1>4 DEF ListWorkspaces, Read, dbVars, Goto, MemTypeOK, Needs
    <2> QED BY <2>1 DEF MemberOf, In
  <1>5. CASE DefaultWorkspace(r)
    <2>1. CreateDefaultWorkspace(r, loc[r].user) /\ pc[r] = "default workspace"
      BY <1>5 DEF DefaultWorkspace, At
    <2>2. loc[r].user \in Ids /\ loc[r].user < nextId
      BY <1>1, <2>1, Numbers DEF KnownIds, Nameless, Ended, Ids
    <2>3. nextId \in DOMAIN ws' /\ ws'[nextId].members = {OwnEntry(nextId + 1, loc[r].user, r)}
      BY <1>1, <2>1, <2>2, DefaultAdded
    <2>4. OwnEntry(nextId + 1, loc[r].user, r).user = loc[r].user
      BY DEF OwnEntry
    <2> QED BY <2>3, <2>4
  <1>6. CASE SetHome(r) \/ SetMain(r)
    <2>1. pc[r] \in {"set home", "set main"} /\ UNCHANGED ws
      BY <1>6 DEF SetHome, SetMain, At
    <2>2. MemberOf(loc[r].user) # {}
      BY <1>1, <2>1 DEF ProvidedInv, Provided
    <2> QED BY <2>1, <2>2 DEF MemberOf, In
  <1> QED BY <1>3, <1>4, <1>5, <1>6

LEMMA LoginsEnd ==
  MeetInv /\ ProvidedInv /\ [MemNext]_vars =>
    [\A r \in Requests :
       Ends(r, "login", "done") /\ ~OverlapsWith(r, {"remove", "delete", "delete user"}) =>
         \E w \in DOMAIN ws' : \E e \in ws'[w].members : e.user = loc[r].user]_vars
  BY LoginEnds DEF MemNext, MemStep, Takers

(* After a login the user is a member of some workspace, unless a request  *)
(* that takes members or workspaces away was active together with it.      *)
THEOREM LoginsProvide == MemSpec => LoginProvides
  <1>1. MemSpec => []CheckedInv
    BY MeetAlways, CheckedInit, CheckedStep, PTL DEF MemSpec
  <1>2. MemSpec => []ProvidedInv
    BY <1>1, MeetAlways, ProvidedInit, ProvidedNext, PTL DEF MemSpec
  <1> QED BY <1>2, MeetAlways, LoginsEnd, PTL DEF MemSpec, LoginProvides
=============================================================================
