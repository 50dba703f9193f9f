----------------------------- MODULE Membership -----------------------------
(***************************************************************************)
(* Users, their workspaces, and who is a member of which: WorkspaceService,*)
(* ProfileService, and the TokenInterceptor that provisions a user at any  *)
(* authenticated request.  Profiles and workspaces are two collections of  *)
(* MongoDB; the members are embedded in their workspace.  Every await ends *)
(* an action, there are no transactions, and no index makes the email of a *)
(* profile or the user of a member unique.                                 *)
(*                                                                         *)
(* A profile stands for its id, the person for its email, and an entry for *)
(* one element of teamMembers; the array is in the order of the ids.       *)
(***************************************************************************)
EXTENDS Integers

CONSTANTS
  Persons,          \* people, who each have an email
  Requests,
  OpsOf,            \* the operations each request may be about
  StartUsers,       \* the database at the start
  StartWorkspaces,
  StartId,          \* the first id not used in it
  Earlier,          \* who made it
  MaxFaults         \* bound on failing calls, for model checking

None == 0

Ids == Nat \ {None}

Makers == Requests \cup {Earlier}

Entry == [id : Ids, user : Ids, owner : BOOLEAN, active : BOOLEAN, by : Makers]

Workspace == [default : BOOLEAN, members : SUBSET Entry]

User == [person : Persons, main : Nat, by : Makers]

Ops == {"login", "invite", "create user", "remove", "delete", "default", "main",
        "update", "new workspace", "new user", "delete user"}

ASSUME OpsAssumption == OpsOf \in [Requests -> SUBSET Ops] /\ Earlier \notin Requests

ASSUME FaultAssumption == MaxFaults \in Nat

(* At the start everyone with a profile has logged in before, is alone with*)
(* that email, and is in each of its workspaces once.  No two elements of  *)
(* an array have the same id.                                              *)
ASSUME StartAssumption ==
  /\ StartId \in Ids /\ Persons # {}
  /\ DOMAIN StartUsers \subseteq 1 .. StartId - 1
  /\ DOMAIN StartWorkspaces \subseteq 1 .. StartId - 1
  /\ \A u \in DOMAIN StartUsers :
       /\ StartUsers[u] \in User /\ StartUsers[u].by = Earlier
       /\ StartUsers[u].main \in DOMAIN StartWorkspaces
       /\ \E e \in StartWorkspaces[StartUsers[u].main].members : e.user = u
       /\ \A v \in DOMAIN StartUsers : StartUsers[u].person = StartUsers[v].person => u = v
  /\ \A w \in DOMAIN StartWorkspaces :
       /\ StartWorkspaces[w] \in Workspace
       /\ \A e, f \in StartWorkspaces[w].members :
            /\ e.id < StartId /\ e.by = Earlier /\ e.user \in DOMAIN StartUsers
            /\ e.user = f.user \/ e.id = f.id => e = f

VARIABLES
  users,    \* collection users
  ws,       \* collection workspaces
  nextId,   \* ObjectIds, which never repeat
  pc,       \* where each request is
  op,       \* what it is about
  loc,      \* its local variables
  overlap,  \* history: pairs of requests that were active together
  faults    \* failing calls so far

dbVars == <<users, ws, nextId>>

vars == <<users, ws, nextId, pc, op, loc, overlap, faults>>

(* user and ws: whom and what it is about; entry: the member to remove;    *)
(* person: the email; claim: whether the token names the profile; late:    *)
(* whether setWorkspace is called last; main: the main workspace it read;  *)
(* home: the one it will set; seen: ids it read.                           *)
Local == [user : Nat, ws : Nat, entry : Nat, person : Persons, claim : BOOLEAN,
          late : BOOLEAN, main : Nat, home : Nat, seen : SUBSET Nat]

Nobody == [user |-> None, ws |-> None, entry |-> None, person |-> CHOOSE p \in Persons : TRUE,
           claim |-> FALSE, late |-> FALSE, main |-> None, home |-> None, seen |-> {}]

Ended == {"done", "refused", "rejected"}

Active(r) == pc[r] \notin Ended \cup {"idle"}

LoginSteps == {"find user", "save user", "first workspace", "set first", "setWorkspace",
               "new home", "set home", "list", "default workspace", "list again"}

OtherSteps == {"find invited", "check member", "push", "read workspace", "find profile",
               "save profile", "read member", "read others", "pull", "read profile", "rehome",
               "check delete", "delete", "clear default", "set default", "set main"}

(* The type invariant.                                                     *)
MemTypeOK ==
  /\ DOMAIN users \subseteq 1 .. nextId - 1 /\ \A u \in DOMAIN users : users[u] \in User
  /\ DOMAIN ws \subseteq 1 .. nextId - 1 /\ \A w \in DOMAIN ws : ws[w] \in Workspace
  /\ nextId \in Ids
  /\ pc \in [Requests -> LoginSteps \cup OtherSteps \cup Ended \cup {"idle"}]
  /\ op \in [Requests -> Ops \cup {"none"}]
  /\ loc \in [Requests -> Local]
  /\ overlap \subseteq Requests \X Requests
  /\ faults \in 0 .. MaxFaults
-----------------------------------------------------------------------------
Put(f, k, v) == [x \in DOMAIN f \cup {k} |-> IF x = k THEN v ELSE f[x]]

Drop(f, k) == [x \in DOMAIN f \ {k} |-> f[x]]

MutProfilesOf(p) == {}
(* findOne of a profile by email finds one of these.                       *)
ProfilesOf(p) == {u \in DOMAIN users : users[u].person = p}

In(w, u) == \E e \in ws[w].members : e.user = u

MemberOf(u) == {w \in DOMAIN ws : In(w, u)}

(* The populated user of an entry is null if its profile was deleted.      *)
Dead(e) == e.user \notin DOMAIN users

(* getWorkspacesByUser reads the user of each member until it comes to the *)
(* one it looks for, and throws at a null ...                              *)
Trips(u) ==
  \E w \in MemberOf(u) : \E e \in ws[w].members :
    Dead(e) /\ \A f \in ws[w].members : f.user = u /\ ~Dead(f) => e.id < f.id

(* ... and finds none when setWorkspace asks, with an id that is no string.*)
TripsAny(u) == \E w \in MemberOf(u) : \E e \in ws[w].members : Dead(e)

Goto(r, label) == pc' = [pc EXCEPT ![r] = label]

NoFault == faults' = faults

(* A call that MongoDB or Microsoft Graph rejects.                         *)
Fault == faults < MaxFaults /\ faults' = faults + 1

(* After a write: go on, or end if it was reported as failed all the same. *)
Then(r, label) == (NoFault /\ Goto(r, label)) \/ (Fault /\ Goto(r, "rejected"))

Keep(r, l) == loc' = [loc EXCEPT ![r] = l]
-----------------------------------------------------------------------------
MemInit ==
  /\ users = StartUsers /\ ws = StartWorkspaces /\ nextId = StartId
  /\ pc = [r \in Requests |-> "idle"]
  /\ op = [r \in Requests |-> "none"]
  /\ loc = [r \in Requests |-> Nobody]
  /\ overlap = {}
  /\ faults = 0

(* A request of operation o arrives.                                       *)
Arrive(r, o, label) ==
  /\ pc[r] = "idle" /\ o \in OpsOf[r]
  /\ Goto(r, label)
  /\ op' = [op EXCEPT ![r] = o]
  /\ overlap' = overlap \cup {<<r, q>> : q \in {x \in Requests : Active(x)}}
                        \cup {<<q, r>> : q \in {x \in Requests : Active(x)}}
  /\ UNCHANGED faults

Login(r) ==
  /\ Arrive(r, "login", "find user")
  /\ \E p \in Persons, c \in BOOLEAN : Keep(r, [Nobody EXCEPT !.person = p, !.claim = c])
  /\ UNCHANGED dbVars

InviteUser(r) ==
  /\ Arrive(r, "invite", "find invited")
  /\ \E w \in DOMAIN ws, p \in Persons : Keep(r, [Nobody EXCEPT !.ws = w, !.person = p])
  /\ UNCHANGED dbVars

(* user is the caller until the profile of the new member is known.        *)
CreateWorkspaceUser(r) ==
  /\ Arrive(r, "create user", "read workspace")
  /\ \E w \in DOMAIN ws, p \in Persons, c \in DOMAIN users :
       Keep(r, [Nobody EXCEPT !.ws = w, !.person = p, !.user = c])
  /\ UNCHANGED dbVars

DeleteWorkspaceTeamMember(r) ==
  /\ Arrive(r, "remove", "read member")
  /\ \E w \in DOMAIN ws : \E e \in ws[w].members :
       Keep(r, [Nobody EXCEPT !.ws = w, !.entry = e.id])
  /\ UNCHANGED dbVars

DeleteWorkspace(r) ==
  /\ Arrive(r, "delete", "check delete")
  /\ \E w \in DOMAIN ws : Keep(r, [Nobody EXCEPT !.ws = w])
  /\ UNCHANGED dbVars

SetAsDefaultWorkspace(r) ==
  /\ Arrive(r, "default", "clear default")
  /\ \E w \in DOMAIN ws, u \in DOMAIN users : Keep(r, [Nobody EXCEPT !.user = u, !.home = w])
  /\ UNCHANGED dbVars

(* setDefaultWorkspace of a profile.                                       *)
SetDefaultWorkspace(r) ==
  /\ Arrive(r, "main", "set main")
  /\ \E w \in DOMAIN ws, u \in DOMAIN users : Keep(r, [Nobody EXCEPT !.user = u, !.home = w])
  /\ UNCHANGED dbVars
-----------------------------------------------------------------------------
(* A step of a request that reads, or that writes and may have failed to.  *)
Fails(r) ==
  /\ Active(r) /\ Fault /\ Goto(r, "rejected")
  /\ UNCHANGED <<dbVars, op, loc, overlap>>

At(r, label) == pc[r] = label /\ UNCHANGED <<op, overlap>>

Read(r, label) == At(r, label) /\ NoFault /\ UNCHANGED dbVars

(* save of a new profile.                                                  *)
SaveUser(r, p) ==
  /\ users' = Put(users, nextId, [person |-> p, main |-> None, by |-> r])
  /\ nextId' = nextId + 1

MutOwnEntry(i, u, r) == [id |-> i, user |-> None, owner |-> TRUE, active |-> TRUE, by |-> r]
(* An element of teamMembers for the owner of a new workspace ...          *)
OwnEntry(i, u, r) == [id |-> i, user |-> u, owner |-> TRUE, active |-> TRUE, by |-> r]

(* ... and for a user who is added to one.                                 *)
NewEntry(i, u, r) == [id |-> i, user |-> u, owner |-> FALSE, active |-> TRUE, by |-> r]

(* createDefaultWorkspace; isDefault is true in the schema.                *)
CreateDefaultWorkspace(r, u) ==
  /\ ws' = Put(ws, nextId, [default |-> TRUE, members |-> {OwnEntry(nextId + 1, u, r)}])
  /\ nextId' = nextId + 2

MutMainSet(u, w) == users
(* An update of the mainWorkspace of a profile, if it is still there.      *)
MainSet(u, w) == IF u \in DOMAIN users THEN [users EXCEPT ![u].main = w] ELSE users
-----------------------------------------------------------------------------
(* TokenInterceptor: getUserAfterLogin.  If the token does not name the    *)
(* profile, setOidAfterLogin writes oids and calls setWorkspace.           *)
FindUser(r) ==
  /\ Read(r, "find user")
  /\ LET found == ProfilesOf(loc[r].person)
     IN  \/ found = {} /\ Goto(r, "save user") /\ UNCHANGED loc
         \/ \E u \in found :
              /\ Keep(r, [loc[r] EXCEPT !.user = u, !.main = users[u].main])
              /\ Goto(r, IF loc[r].claim THEN "list" ELSE "setWorkspace")

(* createUserAfterLogin: the profile, its workspace, and the link to it.   *)
SaveNewUser(r) ==
  /\ At(r, "save user")
  /\ SaveUser(r, loc[r].person)
  /\ Keep(r, [loc[r] EXCEPT !.user = nextId])
  /\ Then(r, "first workspace")
  /\ UNCHANGED ws

FirstWorkspace(r) ==
  /\ At(r, "first workspace")
  /\ CreateDefaultWorkspace(r, loc[r].user)
  /\ Keep(r, [loc[r] EXCEPT !.home = nextId])
  /\ Then(r, "set first")
  /\ UNCHANGED users

(* The interceptor fails on the null it gets if the profile is gone.       *)
SetFirst(r) ==
  /\ At(r, "set first")
  /\ users' = MainSet(loc[r].user, loc[r].home)
  /\ Keep(r, [loc[r] EXCEPT !.main = loc[r].home])
  /\ IF loc[r].user \in DOMAIN users
     THEN Then(r, IF loc[r].claim THEN "list" ELSE "setWorkspace")
     ELSE NoFault /\ Goto(r, "rejected")
  /\ UNCHANGED <<ws, nextId>>

(* setWorkspace: any workspace of the user, or a new one, becomes the main *)
(* one.  When the interceptor calls it itself, nothing follows.            *)
SetWorkspace(r) ==
  /\ Read(r, "setWorkspace")
  /\ \/ TripsAny(loc[r].user) /\ Goto(r, "rejected") /\ UNCHANGED loc
     \/ /\ ~TripsAny(loc[r].user)
        /\ \/ MemberOf(loc[r].user) = {} /\ Goto(r, "new home") /\ UNCHANGED loc
           \/ \E w \in MemberOf(loc[r].user) :
                Keep(r, [loc[r] EXCEPT !.home = w]) /\ Goto(r, "set home")

NewHome(r) ==
  /\ At(r, "new home")
  /\ CreateDefaultWorkspace(r, loc[r].user)
  /\ Keep(r, [loc[r] EXCEPT !.home = nextId])
  /\ Then(r, "set home")
  /\ UNCHANGED users

SetHome(r) ==
  /\ At(r, "set home")
  /\ users' = MainSet(loc[r].user, loc[r].home)
  /\ Keep(r, [loc[r] EXCEPT !.main = loc[r].home])
  /\ IF loc[r].late THEN Then(r, "done")
     ELSE IF loc[r].user \in DOMAIN users THEN Then(r, "list")
     ELSE NoFault /\ Goto(r, "rejected")
  /\ UNCHANGED <<ws, nextId>>

(* What follows once the user has a workspace: the main one is set if the  *)
(* profile had none when it was read.                                      *)
AfterList(r) == IF loc[r].main = None THEN "list again" ELSE "done"

MutNeeds(u) == FALSE
(* Whether a workspace must be created at a login.                         *)
Needs(u) == MemberOf(u) = {}

ListWorkspaces(r) ==
  /\ Read(r, "list")
  /\ \/ Trips(loc[r].user) /\ Goto(r, "rejected")
     \/ ~Trips(loc[r].user) /\ Needs(loc[r].user) /\ Goto(r, "default workspace")
     \/ ~Trips(loc[r].user) /\ ~Needs(loc[r].user) /\ Goto(r, AfterList(r))
  /\ UNCHANGED loc

DefaultWorkspace(r) ==
  /\ At(r, "default workspace")
  /\ CreateDefaultWorkspace(r, loc[r].user)
  /\ Then(r, AfterList(r))
  /\ UNCHANGED <<users, loc>>

ListAgain(r) ==
  /\ Read(r, "list again")
  /\ \/ Trips(loc[r].user) /\ Goto(r, "rejected") /\ UNCHANGED loc
     \/ /\ ~Trips(loc[r].user)
        /\ \/ /\ MemberOf(loc[r].user) = {}
              /\ Keep(r, [loc[r] EXCEPT !.late = TRUE]) /\ Goto(r, "setWorkspace")
           \/ \E w \in MemberOf(loc[r].user) :
                Keep(r, [loc[r] EXCEPT !.home = w]) /\ Goto(r, "set main")
-----------------------------------------------------------------------------
FindInvited(r) ==
  /\ Read(r, "find invited")
  /\ \/ ProfilesOf(loc[r].person) = {} /\ Goto(r, "refused") /\ UNCHANGED loc
     \/ \E u \in ProfilesOf(loc[r].person) :
          Keep(r, [loc[r] EXCEPT !.user = u]) /\ Goto(r, "check member")

MutAlready(w, u) == FALSE
(* Whether a user is found among the members of a workspace.               *)
Already(w, u) == w \in MemberOf(u)

CheckMember(r) ==
  /\ Read(r, "check member")
  /\ Goto(r, IF Already(loc[r].ws, loc[r].user) THEN "refused" ELSE "push")
  /\ UNCHANGED loc

(* An updateOne with $push, which does nothing if the workspace is gone.   *)
Push(r) ==
  /\ At(r, "push")
  /\ IF loc[r].ws \in DOMAIN ws
     THEN ws' = [ws EXCEPT ![loc[r].ws].members = @ \cup {NewEntry(nextId, loc[r].user, r)}]
     ELSE UNCHANGED ws
  /\ nextId' = nextId + 1
  /\ Then(r, "done")
  /\ UNCHANGED <<users, loc>>
-----------------------------------------------------------------------------
(* createWorkspaceUser: the caller must be an active member.  The members  *)
(* it read are what it looks at later on.                                  *)
ReadWorkspace(r) ==
  /\ Read(r, "read workspace")
  /\ LET w == loc[r].ws
         allowed == w \in DOMAIN ws /\ \E e \in ws[w].members : e.user = loc[r].user /\ e.active
     IN  \/ ~allowed /\ Goto(r, "refused") /\ UNCHANGED loc
         \/ /\ allowed /\ Goto(r, "find profile")
            /\ Keep(r, [loc[r] EXCEPT !.seen = {e.user : e \in ws[w].members}])

FindProfile(r) ==
  /\ Read(r, "find profile")
  /\ \/ ProfilesOf(loc[r].person) = {} /\ Goto(r, "save profile") /\ UNCHANGED loc
     \/ \E u \in ProfilesOf(loc[r].person) :
          /\ Keep(r, [loc[r] EXCEPT !.user = u])
          /\ Goto(r, IF u \in loc[r].seen THEN "refused" ELSE "push")

SaveProfile(r) ==
  /\ At(r, "save profile")
  /\ SaveUser(r, loc[r].person)
  /\ Keep(r, [loc[r] EXCEPT !.user = nextId])
  /\ Then(r, "push")
  /\ UNCHANGED ws
-----------------------------------------------------------------------------
Removable(e) == ~e.owner

(* deleteWorkspaceTeamMember: find the member, who must not be an owner.   *)
ReadMember(r) ==
  /\ Read(r, "read member")
  /\ LET w == loc[r].ws
         them == IF w \in DOMAIN ws THEN {e \in ws[w].members : e.id = loc[r].entry} ELSE {}
     IN  \/ (\A e \in them : ~Removable(e)) /\ Goto(r, "refused") /\ UNCHANGED loc
         \/ \E e \in them : /\ Removable(e)
                            /\ Keep(r, [loc[r] EXCEPT !.user = e.user])
                            /\ Goto(r, "read others")

ReadOthers(r) ==
  /\ Read(r, "read others")
  /\ Keep(r, [loc[r] EXCEPT !.seen = MemberOf(loc[r].user) \ {loc[r].ws}])
  /\ Goto(r, "pull")

Pull(r) ==
  /\ At(r, "pull")
  /\ LET w == loc[r].ws
         there == w \in DOMAIN ws /\ \E e \in ws[w].members : e.id = loc[r].entry
     IN  IF there
         THEN /\ ws' = [ws EXCEPT ![w].members = {e \in @ : e.id # loc[r].entry}]
              /\ Then(r, "read profile")
         ELSE NoFault /\ Goto(r, "refused") /\ UNCHANGED ws
  /\ UNCHANGED <<users, nextId, loc>>

(* A user with no other workspace gets a new one as main workspace; one    *)
(* whose main workspace this was gets another of those read before.        *)
ReadProfile(r) ==
  /\ Read(r, "read profile")
  /\ LET u == loc[r].user
     IN  \/ loc[r].seen = {} /\ u \notin DOMAIN users /\ Goto(r, "refused") /\ UNCHANGED loc
         \/ loc[r].seen = {} /\ u \in DOMAIN users /\ Goto(r, "rehome") /\ UNCHANGED loc
         \/ /\ loc[r].seen # {} /\ (u \in DOMAIN users => users[u].main # loc[r].ws)
            /\ Goto(r, "done") /\ UNCHANGED loc
         \/ /\ u \in DOMAIN users /\ users[u].main = loc[r].ws
            /\ \E w \in loc[r].seen : Keep(r, [loc[r] EXCEPT !.home = w])
            /\ Goto(r, "set main")

Rehome(r) ==
  /\ At(r, "rehome")
  /\ CreateDefaultWorkspace(r, loc[r].user)
  /\ Keep(r, [loc[r] EXCEPT !.home = nextId])
  /\ Then(r, "set main")
  /\ UNCHANGED users
-----------------------------------------------------------------------------
MutDeletable(x) == ~x.default
(* No default workspace, and none with active members who do not own it.   *)
Deletable(x) == ~x.default /\ \A e \in x.members : e.active => e.owner

CheckDelete(r) ==
  /\ Read(r, "check delete")
  /\ Goto(r, IF loc[r].ws \in DOMAIN ws /\ Deletable(ws[loc[r].ws]) THEN "delete" ELSE "refused")
  /\ UNCHANGED loc

Delete(r) ==
  /\ At(r, "delete")
  /\ ws' = Drop(ws, loc[r].ws)
  /\ Then(r, "done")
  /\ UNCHANGED <<users, nextId, loc>>

(* setAsDefaultWorkspace: all workspaces of the user lose the flag ...     *)
ClearDefault(r) ==
  /\ At(r, "clear default")
  /\ ws' = [w \in DOMAIN ws |-> IF In(w, loc[r].user) THEN [ws[w] EXCEPT !.default = FALSE]
                                ELSE ws[w]]
  /\ Then(r, "set default")
  /\ UNCHANGED <<users, nextId, loc>>

(* ... one gets it ...                                                     *)
SetDefault(r) ==
  /\ At(r, "set default")
  /\ ws' = IF loc[r].home \in DOMAIN ws THEN [ws EXCEPT ![loc[r].home].default = TRUE] ELSE ws
  /\ Then(r, "set main")
  /\ UNCHANGED <<users, nextId, loc>>

(* ... and the profile names it.  The last step of others, too.            *)
SetMain(r) ==
  /\ At(r, "set main")
  /\ users' = MainSet(loc[r].user, loc[r].home)
  /\ Then(r, "done")
  /\ UNCHANGED <<ws, nextId, loc>>
-----------------------------------------------------------------------------
(* Operations of one write.  One that fails has no part in anything here.  *)
UpdateWorkspaceTeamMember(r) ==
  /\ Arrive(r, "update", "done")
  /\ \E w \in DOMAIN ws : \E e \in ws[w].members, o, a \in BOOLEAN :
       ws' = [ws EXCEPT ![w].members = (@ \ {e}) \cup {[e EXCEPT !.owner = o, !.active = a]}]
  /\ UNCHANGED <<users, nextId, loc>>

(* The body may name the members of the new workspace, or none, and say    *)
(* that it is no default workspace.                                        *)
CreateWorkspace(r) ==
  /\ Arrive(r, "new workspace", "done")
  /\ \E d \in BOOLEAN, M \in {{}} \cup {{OwnEntry(nextId + 1, u, r)} : u \in DOMAIN users} :
       ws' = Put(ws, nextId, [default |-> d, members |-> M])
  /\ nextId' = nextId + 2
  /\ UNCHANGED <<users, loc>>

CreateUser(r) ==
  /\ Arrive(r, "new user", "done")
  /\ \E p \in Persons : SaveUser(r, p)
  /\ UNCHANGED <<ws, loc>>

DeleteUser(r) ==
  /\ Arrive(r, "delete user", "done")
  /\ \E u \in DOMAIN users : users' = Drop(users, u)
  /\ UNCHANGED <<ws, nextId, loc>>
-----------------------------------------------------------------------------
LoginStep(r) ==
  \/ FindUser(r) \/ SaveNewUser(r) \/ FirstWorkspace(r) \/ SetFirst(r) \/ SetWorkspace(r)
  \/ NewHome(r) \/ SetHome(r) \/ ListWorkspaces(r) \/ DefaultWorkspace(r) \/ ListAgain(r)

OtherStep(r) ==
  \/ FindInvited(r) \/ CheckMember(r) \/ Push(r) \/ ReadWorkspace(r) \/ FindProfile(r)
  \/ SaveProfile(r) \/ ReadMember(r) \/ ReadOthers(r) \/ Pull(r) \/ ReadProfile(r)
  \/ Rehome(r) \/ CheckDelete(r) \/ Delete(r) \/ ClearDefault(r) \/ SetDefault(r) \/ SetMain(r)

Arrival(r) ==
  \/ Login(r) \/ InviteUser(r) \/ CreateWorkspaceUser(r) \/ DeleteWorkspaceTeamMember(r)
  \/ DeleteWorkspace(r) \/ SetAsDefaultWorkspace(r) \/ SetDefaultWorkspace(r)
  \/ UpdateWorkspaceTeamMember(r) \/ CreateWorkspace(r) \/ CreateUser(r) \/ DeleteUser(r)

MemNext == \E r \in Requests : Arrival(r) \/ LoginStep(r) \/ OtherStep(r) \/ Fails(r)

MemSpec == MemInit /\ [][MemNext]_vars
-----------------------------------------------------------------------------
Alone(r) == \A q \in Requests : <<r, q>> \notin overlap

OverlapsWith(r, O) == \E q \in Requests : <<r, q>> \in overlap /\ op[q] \in O

(* "sin duplicar el registro": nobody is a member of a workspace twice,    *)
(* unless the two requests that added them were active together.           *)
MemberOnce ==
  \A w \in DOMAIN ws : \A e, f \in ws[w].members :
    e.user = f.user => e = f \/ <<e.by, f.by>> \in overlap

(* Nobody has two profiles, unless the requests that made them were active *)
(* together, or one was asked for explicitly.                              *)
ProfileOnce ==
  \A u, v \in DOMAIN users :
    users[u].person = users[v].person /\ u # v =>
      LET makers == {users[u].by, users[v].by}
      IN  \/ <<users[u].by, users[v].by>> \in overlap
          \/ \E r \in makers \cap Requests : op[r] = "new user"

Ends(r, o, label) == op[r] = o /\ Active(r) /\ pc'[r] = label

(* After a login the user is a member of some workspace, unless a request  *)
(* that takes members or workspaces away was active together with it.      *)
LoginProvides ==
  [][\A r \in Requests :
       Ends(r, "login", "done") /\ ~OverlapsWith(r, {"remove", "delete", "delete user"}) =>
         \E w \in DOMAIN ws' : \E e \in ws'[w].members : e.user = loc[r].user]_vars

(* A user who was removed from a workspace belongs to another one, and the *)
(* one they were removed from is not their main workspace, unless another  *)
(* request was active together with the removal.  (The removed may still   *)
(* be in it if they were there twice.)                                     *)
RemovedRehomed ==
  [][\A r \in Requests :
       Ends(r, "remove", "done") /\ Alone(r) =>
         LET u == loc[r].user
         IN  /\ \E w \in DOMAIN ws' : \E e \in ws'[w].members : e.user = u
             /\ u \in DOMAIN users' /\ users'[u].main = loc[r].ws =>
                  \E e \in ws'[loc[r].ws].members : e.user = u]_vars

(* A deleted workspace takes nobody with it who is active and no owner, and*)
(* no owner is removed from a workspace, unless a request that could make  *)
(* them so was active together with the deletion.                          *)
DeletesAsChecked ==
  [][\A r \in Requests :
       LET w == loc[r].ws
       IN  /\ pc[r] = "delete" /\ w \in DOMAIN ws /\ w \notin DOMAIN ws' =>
                \A e \in ws[w].members :
                  e.active => e.owner \/ OverlapsWith(r, {"invite", "create user", "update"})
           /\ pc[r] = "pull" /\ pc'[r] = "read profile" =>
                \A e \in ws[w].members :
                  e.id = loc[r].entry => ~e.owner \/ OverlapsWith(r, {"update"})]_vars

(* "No se puede eliminar un workspace por defecto": the main workspace of a*)
(* user is not deleted, when no other request is active.                   *)
MainNotDeleted ==
  [][\A r \in Requests : pc[r] = "delete" /\ Alone(r) =>
       \A w \in DOMAIN ws \ DOMAIN ws' : \A u \in DOMAIN users : users[u].main # w]_vars

(* 401 "Token inválido": a login that meets no failing call, and no other  *)
(* request, is not answered so.                                            *)
LoginAccepted ==
  [][\A r \in Requests :
       Ends(r, "login", "rejected") /\ Alone(r) => faults' # faults]_vars
=============================================================================
