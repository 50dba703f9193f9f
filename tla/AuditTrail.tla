----------------------------- MODULE AuditTrail -----------------------------
(***************************************************************************)
(* The audit trail: what AuditInterceptor records of the requests that     *)
(* pass it, and what AuditController answers about the records.            *)
(*                                                                         *)
(* The interceptor acts in a tap that nobody awaits, when the handler has  *)
(* answered: it finds its endpoint in a list of regular expressions, and   *)
(* leaves the record to a service that never throws.  Of logins it keeps   *)
(* only the first of a day, by a flag in a cache that each process has for *)
(* itself.  A list is read by pages, which are counted and then found.     *)
(*                                                                         *)
(* A URL is the pattern it fits and whether it has a query; the documents  *)
(* stored are their fields that something reads.                           *)
(***************************************************************************)
EXTENDS Integers, FiniteSets, Sequences

CONSTANTS
  Servers,     \* processes
  Calls,       \* requests; a client that reads all pages of a list is one
  Mixes,       \* the mixes of requests looked at: what each is, if anything
  CallerOf,    \* the user whose id its token carries
  NoUser,      \* a token that carries none yet
  AnyUser,     \* a list that is not of one user
  PageSize,    \* the limit of a list
  FlagLife,    \* 24 hours
  LastHour,    \* bound on time, for model checking
  MaxRestarts, \* bound on restarts of a process, for model checking
  MaxRejects   \* bound on rejected calls to MongoDB, for model checking

AuditUsers == {CallerOf[c] : c \in Calls} \ {NoUser}

ASSUME AuditAssumption ==
  /\ IsFiniteSet(Calls) /\ Servers # {}
  /\ PageSize \in Nat \ {0} /\ FlagLife \in Nat \ {0} /\ LastHour \in Nat
  /\ MaxRestarts \in Nat /\ MaxRejects \in Nat
  /\ AnyUser \notin AuditUsers

-----------------------------------------------------------------------------
(* The endpoints that are audited, in the order in which they were added:  *)
(* a pattern, whether it allows a query, its methods, the type of event    *)
(* and which details are extracted.                                        *)
Endpoint(path, query, methods, event, details) ==
  [path |-> path, query |-> query, methods |-> methods, event |-> event, details |-> details]

Change == {"PUT", "PATCH"}

WorkspaceAuditConfig == <<
  Endpoint("workspace", TRUE, Change, "update workspace", "workspace fields"),
  Endpoint("create-user", FALSE, {"POST"}, "create user", "user created"),
  Endpoint("member", TRUE, Change, "update user", "member fields"),
  Endpoint("member", TRUE, {"DELETE"}, "delete user", "member deleted"),
  Endpoint("roles", TRUE, {"POST"}, "create role", "role created"),
  Endpoint("role", TRUE, Change, "edit role", "role fields"),
  Endpoint("role", TRUE, {"DELETE"}, "delete role", "role deleted") >>

ProfileAuditConfig == <<
  Endpoint("me", FALSE, {"PATCH"}, "update my profile", "own fields"),
  Endpoint("image", TRUE, {"POST"}, "update my profile", "image"),
  Endpoint("email", TRUE, Change, "update user", "fields of another") >>

Endpoints == WorkspaceAuditConfig \o ProfileAuditConfig

FitsPath(e, url) == e.path = url.path /\ (url.query => e.query)

FitsCall(e, url) == FitsPath(e, url) /\ url.method \in e.methods

First(S) == Endpoints[CHOOSE i \in S : \A j \in S : i <= j]

ShouldAuditEndpoint(url) == \E i \in DOMAIN Endpoints : FitsCall(Endpoints[i], url)

MutEventType(url) == First({i \in DOMAIN Endpoints : FitsPath(Endpoints[i], url)}).event
(* The type of event, of the first endpoint with this path and method.     *)
EventType(url) == First({i \in DOMAIN Endpoints : FitsCall(Endpoints[i], url)}).event

(* The details, of the first endpoint with this path: the method is not    *)
(* asked.                                                                  *)
Details(url) == First({i \in DOMAIN Endpoints : FitsPath(Endpoints[i], url)}).details

(* The routes that exist, of those the lists name and of others there.     *)
Routes == {<<"workspace", "PATCH">>, <<"workspace", "DELETE">>, <<"workspace", "GET">>,
           <<"create-user", "POST">>, <<"member", "PATCH">>, <<"member", "DELETE">>,
           <<"roles", "POST">>, <<"roles", "GET">>, <<"role", "PATCH">>,
           <<"role", "DELETE">>, <<"me", "PATCH">>, <<"me", "GET">>, <<"image", "POST">>}

Urls == {[path |-> p[1], method |-> p[2], query |-> q] : p \in Routes, q \in BOOLEAN}

(* The handlers return the response object, which has no id: the resource  *)
(* is the first parameter of the route whose name ends in Id.              *)
ExtractResourceId(url) ==
  IF url.path \in {"workspace", "create-user", "member", "roles", "role"} THEN "workspace id" ELSE "none"

ExtractResourceType(url) ==
  IF url.path \in {"me", "image", "email"} THEN "profile" ELSE "workspace"

MapMethodToAction(method) ==
  CASE method = "POST" -> "create" [] method \in Change -> "update"
    [] method = "DELETE" -> "delete" [] OTHER -> "read"
-----------------------------------------------------------------------------
VARIABLES
  audits,    \* the collection: its documents
  cache,     \* per process and user, when the flag of a first access ends
  hour,      \* the clock
  stage,     \* where each request is, and on which process
  asked,     \* the URL a request has, or the list it reads
  read,      \* what a client has read of a list, and the count it was told
  restarts,  \* per process, how often it was restarted
  together,  \* history: logins that ran while another of their user did
  purged,    \* history: whether records were deleted
  rejects    \* calls that failed so far

auVars == <<audits, cache, hour, stage, asked, read, restarts, together, purged, rejects>>

Kinds == {"none", "login", "operation", "register", "list", "search", "purge"}

ASSUME MixAssumption == Mixes \subseteq [Calls -> Kinds]

Stages == {"ready", "handling", "tap", "insert", "flag", "count", "find", "done", "dead"}

Nothing == [path |-> "", method |-> "", query |-> FALSE]

EmptyRead == [page |-> 1, pages |-> 0, seen |-> {}, before |-> {}, at |-> {}, torn |-> FALSE]

(* A document: by, on and life stand for req and _id.                      *)
Record(c, user, event, action, type, resource, details) ==
  [by |-> c, user |-> user, event |-> event, action |-> action, type |-> type,
   resource |-> resource, details |-> details, at |-> hour,
   on |-> stage[c].on, life |-> restarts[stage[c].on]]

Events == {"Login", "other"} \cup {Endpoints[i].event : i \in DOMAIN Endpoints}

Actions == {"first_access", "other", "create", "update", "delete", "read"}

Detailed == {"empty", "resource"} \cup {Endpoints[i].details : i \in DOMAIN Endpoints}

Types == {"profile/login", "profile", "workspace"}

Resources == {"user id", "workspace id", "none"}

Docs == [by : Calls, user : AuditUsers, event : Events, action : Actions, type : Types,
         resource : Resources, details : Detailed, at : Nat, on : Servers, life : Nat]

Lists == [user : AuditUsers \cup {AnyUser}, from : Nat, to : Nat]

Reading == [page : Nat, pages : Nat, seen : SUBSET Docs, before : SUBSET Docs, at : SUBSET Docs,
            torn : BOOLEAN]

(* The type invariant. *)
AuditTypeOK ==
  /\ audits \subseteq Docs /\ \A x \in audits : x.at <= hour
  /\ cache \in [Servers -> [AuditUsers -> 0 .. LastHour + FlagLife]]
  /\ hour \in 0 .. LastHour
  /\ stage \in [Calls -> [at : Stages, kind : Kinds, on : Servers]]
  /\ asked \in [Calls -> Urls \cup {Nothing} \cup Lists]
  /\ read \in [Calls -> Reading]
  /\ \A c \in Calls : /\ read[c].seen \subseteq audits \/ purged
                      /\ read[c].page \in 1 .. Cardinality(Calls) + 1
  /\ restarts \in [Servers -> 0 .. MaxRestarts]
  /\ together \subseteq Calls /\ purged \in BOOLEAN /\ rejects \in 0 .. MaxRejects
-----------------------------------------------------------------------------
AuditInit ==
  /\ audits = {} /\ hour = 0 /\ rejects = 0
  /\ cache = [s \in Servers |-> [u \in AuditUsers |-> 0]]
  /\ \E mix \in Mixes : stage = [c \in Calls |-> [at |-> "ready", kind |-> mix[c],
                                                 on |-> CHOOSE s \in Servers : TRUE]]
  /\ asked = [c \in Calls |-> Nothing]
  /\ read = [c \in Calls |-> EmptyRead]
  /\ restarts = [s \in Servers |-> 0]
  /\ together = {} /\ purged = FALSE

Move(c, at) == stage' = [stage EXCEPT ![c].at = at]

Ready(c, kind) == stage[c].at = "ready" /\ stage[c].kind = kind

Reject == rejects < MaxRejects /\ rejects' = rejects + 1

(* GET /profile/login; a token without the id is not audited.  Any process *)
(* may get it, which only the cache tells from the others.                 *)
Login(c) ==
  /\ Ready(c, "login") /\ CallerOf[c] # NoUser
  /\ \E s \in Servers : stage' = [stage EXCEPT ![c].at = "handling", ![c].on = s]
  /\ UNCHANGED <<audits, cache, hour, asked, read, restarts, together, purged, rejects>>

(* Any other request with a token.  What is not audited ends here.         *)
Operate(c) ==
  /\ Ready(c, "operation")
  /\ \E url \in Urls :
       /\ asked' = [asked EXCEPT ![c] = url]
       /\ Move(c, IF CallerOf[c] # NoUser /\ ShouldAuditEndpoint(url)
                  THEN "handling" ELSE "done")
  /\ UNCHANGED <<audits, cache, hour, read, restarts, together, purged, rejects>>

InTap == {"tap", "insert", "flag"}

Logins(u) == {c \in Calls : stage[c].kind = "login" /\ CallerOf[c] = u /\ stage[c].at \in InTap}

(* The handler has answered, well or not, and the tap runs; or an          *)
(* interceptor after this one refused the request, and it does not.        *)
Answered(c) ==
  /\ stage[c].at = "handling"
  /\ \/ Move(c, "done") /\ UNCHANGED together
     \/ /\ Move(c, IF stage[c].kind = "login" THEN "tap" ELSE "insert")
        /\ together' = IF stage[c].kind = "login" /\ Logins(CallerOf[c]) # {}
                       THEN together \cup {c} \cup Logins(CallerOf[c]) ELSE together
  /\ UNCHANGED <<audits, cache, hour, asked, read, restarts, purged, rejects>>

MutHasFlag(c) == cache[stage[c].on][CallerOf[c]] >= hour + FlagLife
HasFlag(c) == cache[stage[c].on][CallerOf[c]] > hour

LookFlag(c) ==
  /\ stage[c].at = "tap"
  /\ Move(c, IF HasFlag(c) THEN "done" ELSE "insert")
  /\ UNCHANGED <<audits, cache, hour, asked, read, restarts, together, purged, rejects>>

(* What the tap of a request hands to registrarEvento.                     *)
TapRecord(c) ==
  IF stage[c].kind = "login"
  THEN Record(c, CallerOf[c], "Login", "first_access", "profile/login", "user id", "empty")
  ELSE Record(c, CallerOf[c], EventType(asked[c]), MapMethodToAction(asked[c].method),
              ExtractResourceType(asked[c]), ExtractResourceId(asked[c]), Details(asked[c]))

(* registrarEvento: a create whose error becomes an answer.                *)
RegistrarEvento(x) ==
  \/ audits' = audits \cup {x} /\ UNCHANGED rejects
  \/ Reject /\ audits' \in {audits, audits \cup {x}}

AfterInsert(c) == IF stage[c].kind = "login" THEN "flag" ELSE "done"

TapInsert(c) ==
  /\ stage[c].at = "insert"
  /\ RegistrarEvento(TapRecord(c))
  /\ Move(c, AfterInsert(c))
  /\ UNCHANGED <<cache, hour, asked, read, restarts, together, purged>>

MutFlagOf(u) == AuditUsers
(* The users who share the key first_access_<userId>. *)
FlagOf(u) == {u}

SetFlag(c) ==
  /\ stage[c].at = "flag"
  /\ cache' = [cache EXCEPT ![stage[c].on] =
                 [u \in AuditUsers |-> IF u \in FlagOf(CallerOf[c]) THEN hour + FlagLife ELSE @[u]]]
  /\ Move(c, "done")
  /\ UNCHANGED <<audits, hour, asked, read, restarts, together, purged, rejects>>

(* POST /audit/register: the client says everything, also the user and the *)
(* event, which are fixed here; the details looked at name the resource.   *)
RegisterEvent(c) ==
  /\ Ready(c, "register") /\ CallerOf[c] # NoUser
  /\ Move(c, "done")
  /\ RegistrarEvento(Record(c, CallerOf[c], "other", "other", "workspace", "workspace id", "resource"))
  /\ UNCHANGED <<cache, hour, asked, read, restarts, together, purged>>

(* DELETE /audit/user/:userId.                                             *)
EliminarRegistrosUsuario(c) ==
  /\ Ready(c, "purge")
  /\ Move(c, "done")
  /\ \E u \in AuditUsers : LET left == {x \in audits : x.user # u} IN
       \/ audits' = left /\ UNCHANGED rejects
       \/ Reject /\ audits' \in {audits, left}
  /\ purged' = (purged \/ audits' # audits)
  /\ UNCHANGED <<cache, hour, asked, read, restarts, together>>
-----------------------------------------------------------------------------
(* The filter of a list: its user, and its first and last day.  No         *)
(* document has the startDate and endDate that the other two alternatives  *)
(* ask for.                                                                *)
AuditFilter(list) ==
  {x \in audits : list.user \in {AnyUser, x.user} /\ x.at >= list.from /\ x.at <= list.to}

(* GET /audit, and GET /audit/user/:userId: which is the same of one user. *)
StartList(c) ==
  /\ \E kind \in {"list", "search"} :
       /\ Ready(c, kind)
       /\ Move(c, IF kind = "list" THEN "count" ELSE "find")
  /\ \E u \in {AnyUser} \cup AuditUsers, from \in {0, hour} :
       LET list == [user |-> u, from |-> from, to |-> LastHour]
       IN  /\ asked' = [asked EXCEPT ![c] = list]
           /\ read' = [read EXCEPT ![c].before = AuditFilter(list)]
  /\ UNCHANGED <<audits, cache, hour, restarts, together, purged, rejects>>

PagesOf(total) == (total + PageSize - 1) \div PageSize

Count(c) ==
  /\ stage[c].at = "count"
  /\ read' = [read EXCEPT ![c].pages = PagesOf(Cardinality(AuditFilter(asked[c]))),
                          ![c].at = AuditFilter(asked[c])]
  /\ Move(c, "find")
  /\ UNCHANGED <<audits, cache, hour, asked, restarts, together, purged, rejects>>

MutSkip(page) == page * PageSize
Skip(page) == (page - 1) * PageSize

(* The sets of n documents that a sort by descending timestamp may put     *)
(* first: documents of one time come in any order.                         *)
Leading(docs, n) ==
  {T \in SUBSET docs : /\ Cardinality(T) = IF n < Cardinality(docs) THEN n ELSE Cardinality(docs)
                       /\ \A x \in T, y \in docs : y.at > x.at => y \in T}

PageAt(docs, skip) ==
  {page \in SUBSET docs :
     \E B \in Leading(docs, skip) :
       B \cap page = {} /\ B \cup page \in Leading(docs, skip + PageSize)}

(* A page is found, in a search together with the count; the client goes   *)
(* on to the next while there is one.                                      *)
Find(c) ==
  /\ stage[c].at = "find"
  /\ LET docs  == AuditFilter(asked[c])
         pages == IF stage[c].kind = "search" THEN PagesOf(Cardinality(docs)) ELSE read[c].pages
     IN  \E page \in PageAt(docs, Skip(read[c].page)) :
           /\ read' = [read EXCEPT ![c].seen = @ \cup page,
                                   ![c].page = IF read[c].page < pages THEN @ + 1 ELSE @,
                                   ![c].pages = pages,
                                   ![c].torn = @ \/ (stage[c].kind = "list" /\ docs # read[c].at)]
           /\ Move(c, IF read[c].page < pages
                      THEN IF stage[c].kind = "list" THEN "count" ELSE "find"
                      ELSE "done")
  /\ UNCHANGED <<audits, cache, hour, asked, restarts, together, purged, rejects>>

(* GET /audit/resource/:type/:id: the documents whose details name it.     *)
GetResourceAudit(type, resource) ==
  {x \in audits : x.details = "resource" /\ (x.type = type \/ x.resource = resource)}
-----------------------------------------------------------------------------
(* A process dies, with its cache and the requests it was at.              *)
Restart(s) ==
  /\ \A t \in Servers : restarts[t] < MaxRestarts
  /\ restarts' = [restarts EXCEPT ![s] = @ + 1]
  /\ cache' = [cache EXCEPT ![s] = [u \in AuditUsers |-> 0]]
  /\ stage' = [c \in Calls |-> IF stage[c].on = s /\ stage[c].at \notin {"ready", "done"}
                               THEN [stage[c] EXCEPT !.at = "dead"] ELSE stage[c]]
  /\ UNCHANGED <<audits, hour, asked, read, together, purged, rejects>>

PassHour ==
  /\ hour < LastHour
  /\ hour' = hour + 1
  /\ UNCHANGED <<audits, cache, stage, asked, read, restarts, together, purged, rejects>>

AuditNext ==
  \/ \E c \in Calls : \/ Login(c) \/ Operate(c) \/ Answered(c) \/ LookFlag(c)
                      \/ TapInsert(c) \/ SetFlag(c) \/ RegisterEvent(c)
                      \/ EliminarRegistrosUsuario(c)
                      \/ StartList(c) \/ Count(c) \/ Find(c)
  \/ \E s \in Servers : Restart(s)
  \/ PassHour

AuditSpec == AuditInit /\ [][AuditNext]_auVars
-----------------------------------------------------------------------------
FirstAccesses(u) == {x \in audits : x.user = u /\ x.action = "first_access"}

(* "registrar primer acceso diario": two first accesses of a user are a    *)
(* day apart, unless two logins ran together, or on two processes, or the  *)
(* process was restarted between them.                                     *)
FirstAccessOnce ==
  \A u \in AuditUsers : \A x, y \in FirstAccesses(u) :
    x # y /\ x.on = y.on /\ x.life = y.life /\ {x.by, y.by} \cap together = {}
      => x.at >= y.at + FlagLife \/ y.at >= x.at + FlagLife

(* "Guardar en caché que ya se registró el evento": no day of a user is    *)
(* left out for a flag that no record of the same process stands for, as   *)
(* long as no create was rejected and nobody deleted records.              *)
FlagsHaveRecords ==
  rejects = 0 /\ ~purged =>
    \A s \in Servers, u \in AuditUsers : cache[s][u] > hour =>
      \E x \in FirstAccesses(u) : x.on = s /\ x.life = restarts[s]

(* A record of an operation is of an event of its own method: a deletion   *)
(* is never told as a change, nor a change as a deletion, although both    *)
(* have one URL, and what no list names leaves no record.                  *)
EventsFitMethods ==
  \A x \in audits : stage[x.by].kind = "operation" =>
    \E i \in DOMAIN Endpoints : /\ Endpoints[i].event = x.event
                                /\ FitsCall(Endpoints[i], asked[x.by])

(* Who reads page after page misses no record that was there when it began,*)
(* however many are added meanwhile, unless records were deleted, another  *)
(* has the same time, or one was added between the count of a page and its *)
(* search (which a search by text does not have).                          *)
PagesCover ==
  \A c \in Calls :
    stage[c].at = "done" /\ stage[c].kind \in {"list", "search"} /\ ~purged /\ ~read[c].torn =>
      \A x \in read[c].before : x \in read[c].seen \/ \E y \in audits \ {x} : y.at = x.at

(* "Obtener registros de auditoría por recurso": a record is found by the  *)
(* resource it is of.                                                      *)
FoundByResource == \A x \in audits : x \in GetResourceAudit(x.type, x.resource)
=============================================================================
