# Verification of api-sapira-ai

This directory holds TLA+ specifications of the API in `src/`, the TLC
configurations that check them on small instances, and TLAPS proofs of what they
promise for every instance. Paths below are relative to `src/src/` of the
repository; `odoo.service.ts` is `modules/odoo/odoo.service.ts`.

    JobLog              abstract specification of integration_logs, as a client polls it
    Staging             abstract specification of the staging tables, as who reads them
    OdooSync            the asynchronous synchronisation of Odoo, which implements both
    OdooDirect          the direct synchronisation, beside OdooSync on the same tables
    JsValues            what values of JavaScript are in the next two
    XmlRpc              the XML-RPC codec
    OdooReads           the requests that only read Odoo, through a codec
    PinStore            the security PINs of the settings
    AuditTrail          the audit interceptor, its records and their queries
    Membership          users, workspaces, members, and what a login provides
    IpLists             lists of addresses, the filter that asks them, violations
    Roles               permissions, roles and the workspaces that list them
    Rls, RlsTables      the script that applies row-level security; its configuration
    Records             PinStore, AuditTrail and OdooReads side by side
    Access              IpLists, Roles and Rls side by side

    MCOdooSync, MCOdooDirect, MCMembership
                        instances of these modules for TLC, with the *.cfg files
    MCRecords, MCAccess instances of Records, with XmlRpc under OdooReads, and Access

    JobLogProof         what JobLog implies
    OdooSyncProof       OdooSync: types, staged rows, references, versions, the
                        refinement of Staging
    OdooSyncJobsProof   OdooSync: job rows, the refinement of JobLog, scans
    OdooDirectProof     the same of the rows with requests among the jobs; complete answers
    MembershipProof     Membership
    RecordsProof        PinStore, AuditTrail, and all parts of Records side by side
    OdooReadsProof      OdooReads, with any codec that does what OdooReads relies on
    AccessProof         Roles, IpLists and Rls, and these side by side

Check with `tlc -config SyncOne.cfg MCOdooSync.tla` (and likewise the others), prove
with `tlapm OdooSyncProof.tla` (and likewise the others).

## Inventory

The program is a NestJS server. It keeps users, workspaces, devices, settings, IP lists
and audit events in MongoDB (through Mongoose), and what it copies from Odoo in
PostgreSQL (through TypeORM). It runs in one Node process or several; handlers
interleave at every `await`, and no operation uses a transaction or a lock.

| Component | State | Operations | What is hard | What makes it correct |
|---|---|---|---|---|
| Odoo, asynchronous jobs (`odoo.service.ts:1378-2058`) | three staging tables, `integration_logs`, locals of the background task | start, three jobs in sequence, save of a partner, invoice or line, status updates, status query | find-then-save races of overlapping sessions; paging by offset over data that changes; updates whose errors are swallowed; saves committed though they report an error; a crash loses the task | rows that clients were told of exist; counters never ahead of the work; lines refer to their own invoice; holdings isolated; no duplicates without overlap; complete scans; sessions end |
| Odoo, direct sync (`:490-878`) | the same staging tables | one page of lines, their invoices, their partners | runs concurrently with itself and with jobs on the same rows | the same of the staged rows; an answer without errors means a page staged in full |
| Odoo, queries (`:61-488`, `:1112-1376`) | none | companies, products, taxes, counts | several calls to an Odoo that changes in between; empty lists that do not decode to lists | counts lie between the truth at the beginning and at the end; lists miss nothing that stayed |
| XML-RPC codec (`modules/odoo/helpers`) | none | encode a request, decode an answer | an empty array does not decode to an array; values that look like numbers | what every value becomes is known, and the code relies on no more |
| Settings (`modules/settings`) | one document holding an array of PINs; configuration documents | create, validate and clean PINs | read-modify-write of the whole array; creation at start is not awaited | a PIN handed out stays valid until it expires; one said to be removed does not come back |
| Security (`security/`, `middlewares/security`, `core/decorators/retry`) | IP lists, security log | add, remove, look up, tell and count violations | a unique index against an upsert by two keys; a decorator that means to repeat operations and never does; a threshold that nothing counts towards; three looks at lists that change; expiry | an acknowledged change stands; the filter follows the lists |
| Login (`interceptors/token`, `modules/profiles`) | profiles | provision on first request | check-then-create across several awaits | one profile and at least one workspace per user |
| Workspaces (`modules/workspaces`) | workspaces with embedded members; `mainWorkspace` of a profile | create, invite, add, remove, delete, make default | two collections without transactions; decisions from stale reads | a user is a member once; the main workspace is one of theirs; owners stay |
| Permissions and roles (`modules/workspaces/permissions`, `roles`) | permissions, roles that refer to them, the roles a workspace lists | create, change, delete, add to a workspace, show | a removal in several calls; check-then-save; references that nobody checks, neither a service nor the database | a deletion leaves no reference behind; an acknowledged change is what is shown; codes are unique; roles acknowledged are listed |
| Row-level security (`databases/postgresql`) | policies of each table | apply | DROP then CREATE without a transaction, by several runs | a table once protected stays so |
| Audit (`audit/`, `interceptors/audit`) | append-only records; a cache per process | record, register, query by pages, delete | the first access of the day is looked up and stored with the write in between; pages are counted and then found | one first access per user and day; records tell the method that ran; pages cover |
| Devices (`modules/devices`, `guards/`) | one document per device | register an access, block, unblock | nothing calls the registration and no route has its guard | - |
| The rest: connections, database analyzer, authentication, Microsoft Graph, licenses, promotion, logging, telemetry, health | none of its own | I/O and wiring | - | - |

The components interact through the two databases and through direct calls: the
token interceptor calls profiles and workspaces on every request, workspaces call
profiles and Microsoft Graph, the middlewares call security, and a start of a
synchronisation hands a task to the event loop and returns. The audit interceptor
comes before the token interceptor; it acts once the handler has answered, in a tap
that nobody awaits. Guards are left out of the models: whatever a request does there
has passed them.

The hazards of this code, each at its line, are listed in `PROJECT.json`.

## Plan

The synchronisation came first: it is the program's own core logic and where
interleaving, failure and ordering meet. Then the modules of smaller scope:

1. `JobLog` and `OdooSync`, with their proofs - checked and proved.
2. `OdooDirect`, composed with `OdooSync` over the same staging tables, and `Staging`, the
   tables both promise to later readers - checked and proved.
3. `Membership`: workspaces, profiles and login provisioning as one module of two
   collections - checked and proved.
4. `PinStore`, `IpLists`, `Roles`, `Rls` - checked and proved.
5. `AuditTrail` and `OdooReads` - checked and proved; `XmlRpc` - checked.
6. `Records` and `Access`, which put parts side by side - checked and proved.

Of the plan one thing was left out: an abstract specification of `Membership`, in which
joining and leaving are atomic. Requests that overlap do not implement it, and what holds
of them regardless is stated by the properties of `Membership` themselves.

## Runs

| Run | Module | Instance | Shows |
|---|---|---|---|
| `SyncOne` | MCOdooSync | one session, under `FairSpec`; two partners, invoices, lines; two failing calls, two changes in Odoo, one crash | `AckedJobsExist`, `ScansCover`, `QuietSessionsHaveNoErrors`, `LogNeverAheadOfWork`; `SessionsEnd`, `QuietSessionsComplete`; and that OdooSync implements JobLog (`ImplementsJobLog`), and that the percentage never goes back (`ProgressNeverGoesBack`) |
| `SyncTwo` | MCOdooSync | two sessions, two holdings; one partner, invoice, line; one change in Odoo | `HoldingsIsolated`, `NoStaleOverwrite` |
| `SyncDirect` | MCOdooDirect | a request and a job of one holding; one record of each kind; pages of one line; one failing call, one change in Odoo, one crash | `BatchStaged`; `LineRefsInvoice`, `DuplicatesNeedOverlap` with requests and jobs mixed; and that these implement Staging (`ImplementsStaging`) |
| `Members` | MCMembership | two users, one a guest in the other's workspace; two requests of any operation, and one that removes; one failing call | `MemberOnce`, `ProfileOnce`, `LoginProvides`, `RemovedRehomed`, `DeletesAsChecked` |
| `Records` | MCRecords | PINs: two processes, two creations, two validations; audit: two processes, four requests; reads of Odoo: three products, one company, three taxes, three invoices, two changes in Odoo, one outage | `IssuedPinsKept`, `ExpiredPinsGo`; `FirstAccessOnce`, `FlagsHaveRecords`, `EventsFitMethods`, `PagesCover`; `CountsAgree`, `ListsComplete`, `AnswersDecoded` |
| `Access` | MCAccess | one address, three changes of the lists, a visitor and a reporter; three requests on roles; two runs of the script | `FilterFollowsLists`, `ChangesStand`; `RefsLive`, `CodesOnce`, `SpaceRolesListed`, `ShownAsGiven`; `PoliciesKept` |
| `FailedStatus` | MCOdooSync | one failing call | finding 1: a job that threw is never stored as `failed` |
| `MainDeleted` | MCMembership | a removal, a choice of default, a deletion | finding 2: the flag that protects a workspace is not the user's main workspace |
| `LoginRejected` | MCMembership | a deletion of a profile, a login | finding 3: co-members of a deleted profile cannot log in |
| `ByResource` | MCRecords | the audit part of `Records` | finding 4: the record of an audited operation is not found by its resource |
| `Additions` | MCAccess | one address, two changes of the lists, time up to 2 | finding 5: an address of one list cannot be added to the other |
| `Threshold` | MCAccess | the same; one violation worth the threshold | finding 6: an address that was told violations of the whole threshold passes the filter |

The last six are expected to end in a violation of the property named in their
configuration; it states what a line of the repository says, quoted with the finding in
`PROJECT.json`. The passing runs check each module's type invariant as
well, where a run names one; that of `OdooReads`, `ReadsType`, stands with its proof.

`Records` and `Access` put parts side by side that share no state: `part` chooses one, and a
behaviour is one of that part, in which the others do nothing. So a behaviour of the whole is a
behaviour of each of its parts, which `RecordsAreAll` and `AccessIsAllThree` prove. Deadlock is not checked in any run: requests are
finitely many and all of them end. How the bounds were chosen is told with each module.

Fairness is assumed by `FairSpec` of OdooSync alone, and described there. The other
properties are invariants and action properties.

## JobLog: what a client may rely on

`JobLog` has one variable, `rows`, the row of each of `JobIds`, with status, total and counters.
A row is created running and at zero, its total may be fixed before anything is counted,
its counters grow in agreement, it may be completed, and nothing changes afterwards.
`Percentage` is `calculateProgressPercentage` (`odoo.service.ts:2022`), with `Math.round`
on exact quotients. A row may also stay running for ever: this is what a client must
expect of the code as it is, after a crash or a failure of the job. The refinement reads rows and
not the percentage. `ProgressNeverGoesBack` is about that: however updates are lost or come late, no
poll shows less than an earlier one. JobLog implies it (`ProgressMonotone`), the run `SyncOne` checks it
of OdooSync, and `ProgressGrows` proves it.

## Staging: what a reader of the staging tables may rely on

`Staging` has the rows of the three tables, and the holdings that are `contended`. To copy a record is
one step: `Insert`, with a fresh id, if its holding has no row of the record, and else `Update` of
such a row, with data no older than it had. Rows keep id, record and holding, none is deleted, and a line
refers to the row of its invoice when it is written. A holding is contended once two of its sessions were active
together; for it only the condition on insertion and that on the age of data are given up.

`OdooSync` and `OdooDirect` implement it with the staging tables as rows and `Contended`, read off
`overlap`, as the contended holdings. A copy there takes a read of Odoo, up to two queries and a save, with steps of
other sessions, of Odoo and crashes in between; the refinement says that the save is the step, and that
what was read before it still holds. `ReadersRely` is what follows for a reader.

## OdooSync: the asynchronous synchronisation

A request (`startAsyncInvoiceSync`, `:1378`) saves three job rows together, answers with
their ids and schedules a task. The task (`processSequentialAsync`) runs the jobs for
partners, invoices and lines in this order, each through `processEntityAsync`. Each job
lists what is in range, then copies record by record (every page has one record).

State and code:

| Variable | Code |
|---|---|
| `log` | `integration_logs`, entity `IntegrationLog` |
| `stg` | `odoo_partners_stg`, `odoo_invoices_stg`, `odoo_invoice_lines_stg`; `ver` of a row stands for `raw_data`, `ref` for `invoice_staging_id` |
| `nextId` | the ids of new rows, which never repeat in a table: `@PrimaryGeneratedColumn('uuid')`, for partners a sequence |
| `posted`, `ver` | Odoo: invoices in range, version of each record |
| `pc`, `kind`, `w` | where the task of a session is suspended, its job, its local variables |
| `pending` | the saves of `Promise.all` in flight |
| `acked`, `overlap`, `events`, field `by` | history, read by properties and never by an action's guard |

Every `await` between two accesses to shared state ends an action:

| Action | Code |
|---|---|
| `StartAsyncInvoiceSync`, `SaveJobRow`, `Respond` | `startAsyncInvoiceSync`: the saves are issued, each ends, all have ended. The first failure rejects the request; the others are not recalled |
| `Begin`, `Finish`, `Fail` | `processEntityAsync`, with the next job of `processSequentialAsync` |
| `List`, `Nothing`, `SetTotal` | the first half of `processPartnersForJob`, `processInvoicesForJob`, `processInvoiceLinesForJob` |
| `NextPage`, `LookupInvoice`, `FindExisting`, `Save`, `Report` | the loops of these three, with `savePartnerToDatabase`, `saveInvoiceToDatabase`, `saveLineToDatabase` |
| `Crash` | the process dies; nothing resumes a task |
| `OdooPosts`, `OdooReverses`, `OdooEdits` | external: Odoo's users |

`UpdateJobStatus` is `updateJobStatus` (`:2040`): it writes the row, or loses the update
when the call fails, or when the update names a property the entity has not (`Columns`,
from the entity; the failure update names two such, finding 1). A call that fails is
`Fault`; a failing save may have been committed.

Merged steps, none of which an observer of shared state could tell apart: authentication
and the listing (all of Odoo's answers used by it come from one snapshot, also for more
than 1000 invoices, which the code lists in several calls; a search and a read that
straddle an edit read the newer version, as does an edit before both); the search and the
read of one page; the two-second wait between jobs. Loss of a partner between listing and
reading is a failing call. TypeORM's `save` of a row that was found reads it again and writes the columns in which the
copy differs; as no row is ever deleted, this comes to writing the copy over it.

Not modelled: constraints that only the database declares (the entities declare no unique
column and no foreign key, and say that keys are kept in the database only), the texts of
errors, timestamps and `execution_time_ms`, `getJobStatus` beyond the percentage and the
row it reads.

In the instance of JobLog that OdooSync implements, `JobIds` are its `Jobs` and `rows` is `log`.

Bounds. Two records of each kind are the fewest for which a scan can shift: one is posted
or reversed while the other is being copied. Two failing calls let a lost update be followed
by another failure; with a third nothing new can happen, since each action reacts to its own
call alone. Two sessions are enough for a race between a find and a save, as the properties
speak of pairs of rows. In `SyncTwo` the holding of each session is chosen by `Init`, so that
both cases, the same holding and different ones, are explored; its symmetry permutes sessions,
which no constant or property tells apart. Deadlock is not checked: sessions are finitely many
and all of them end.

Fairness. `FairSpec` assumes weak fairness of `Step(s)` for every session and nothing else:
the event loop runs each continuation whose call was answered, and each call is answered.
The former is how Node schedules. The latter is an assumption on the environment: `fetch` gives up after
a time-out, but the pool of PostgreSQL has a time-out for connecting only
(`databases/postgresql/database.module.ts:40`), so a query that is never answered suspends its session for ever.
Requests, crashes, and what happens in Odoo are not fair. `SessionsEnd` needs that fewer invoices are posted than
the task can copy, which the bound on changes stands for.

Two windows the code has are part of these properties and worth knowing. Two sessions of one
holding that are active together may stage a record twice (`DuplicatesNeedOverlap` says that
nothing else does), which the look before the save (`:1080`) is there to avoid. And the lines of one
invoice tie in the order by which they are paged, so that a line may be skipped or seen twice,
and not each line is processed; `ScansCover` claims lines only where no two tie.

## OdooDirect: the direct synchronisation

`syncInvoices` (`odoo.service.ts:490`) copies one page of invoice lines, their invoices and
the partners of these, and answers with counts. It calls the same three save functions as
the jobs, on the same tables, so a request is a session of `OdooSync` in the set `Direct`,
whose find and save are the actions of that module. `DirectNext` runs requests, jobs, crashes
and Odoo side by side. Its own variable `d` holds the locals of the request.

| Action | Code |
|---|---|
| `SyncInvoices`, `ReadBatch`, `Answer` | `syncInvoices`: the request arrives; it reads a page of lines and their invoices; it answers |
| `NextInvoice`, `ReadLines`, `NextLine`, `GoOn` | `processInvoicesAndLines` (`:713`), with the saves in between |
| `DirectFind`, `DirectSave` | the three save functions (`:982-1110`); `SavedId` is the id they return |
| `ReadPartners`, `NextPartner` | `syncPartnersFromCurrentBatch` (`:800`) |

Two things differ from a job. The lines get the id that the save of their invoice returned,
with no lookup; and records are read in batches, so that one may be stored long after it was
read, which `d.vers` keeps (`ReadNow` reads one batch, at the versions of that moment). Any of Odoo's answers while the page is read come from one
snapshot, as in `OdooSync`. The extra query for a partner before its save only decides which
of two counters it is added to, and fails like the find of the save, so it is merged with it.
`estimate_only` only counts and is left out. Failures to save a partner are no error of the
answer (`:873`), and neither is one to read them: `BatchStaged` therefore speaks of lines and
invoices, and claims no more than the code does.

One record of each kind is enough here: what a request and a job can do to each other happens
on the rows of one record. A line is staged under a row that the request's own save updated
while the job inserts its own, and the other way round. Larger pages are left to the model's
`Pages`, which allows any.

## XmlRpc and OdooReads: reading Odoo

`XmlRpc` has `valueToXml`, what the XML parser does to leaves, and `extractXmlValue`
(`modules/odoo/helpers/xml-rpc-client.helper.ts`) as recursive operators. `Seen` is the reference: a value
comes back as it is, but for texts that look like a number or a truth value, which change
type, and empty arrays and structs, which become objects. `AnswersDecoded` compares them over all
values of depth one and those of depth two over two atoms.

`OdooReads` is `getCompanies`, `getProducts` and `countRecords`, whose answers all go through the
codec. They change nothing, so one request at a time is enough, against an Odoo that changes.
The codec is its constant `Received`, so that it can be proved about; `Records.cfg` gives it `Decoded` of
`XmlRpc`. `CodecAssumption` is what the requests rely on, for every answer that Odoo may
give them (`Answers`): texts are typed, an empty list is an object, and any other list or object is read
part by part. It is not taken on trust: TLC evaluates it on the run `Records`, with the real codec.

| Variable | Code |
|---|---|
| `posted`, `shelf`, `taxes` | Odoo: posted invoices, state of each product, taxes that exist |
| `request` | the request and its local variables |
| `before`, `events`, `stayed` | history: what was posted at the beginning, what happened since, products active ever since |

| Actions | Code |
|---|---|
| `Authenticate`, `MethodCall` | `authenticate`; `methodCall` with any answer |
| `SearchCatalogue`, `ReadCatalogue`, `GetTaxDetails`, `GetSapiraCompanies`, `GetSapiraProducts` | `getCompanies` and `getProducts` |
| `CountLines`, `CountInvoices`, `FindInvoices`, `CountPartners`, `CountBare`, `FindBare`, `ReadNames` | `countRecords` |
| `CallFails` | a call that fails the request; those of taxes and of Sapira's tables do not |
| `PostOrReverse`, `ChangeProduct`, `DeleteTax` | external: Odoo's users |

Because an empty list decodes to no list, `getProducts` of an empty catalogue fails, and
elsewhere the code is saved by its `Array.isArray`. The partners counted are those of `partner_id`,
while jobs also copy `commercial_partner_id`: `CountsAgree` therefore bounds the count by both.
One deleted tax may take the details of all taxes out of an answer, as `ListsComplete` says. Fields that
are only copied are left out.

Bounds: three products, so that the limit of two is met; three invoices, two without lines and two of
one partner; two changes in Odoo, so that one can undo the other; one outage.

## PinStore: the security PINs

All PINs of all devices are one array in one document of collection `settings`.
`SettingsService` (`modules/settings/settings.service.ts`) reads it, changes it in memory and
writes back all of it, with an `await` in between and no version check.

| Variable | Code |
|---|---|
| `pins` | document `DEVICE_SECURITY_PINS`; a set, as the order of the array decides nothing but which of several creators of one PIN is named |
| `global` | document `CATALOG_SECURITY_PIN` |
| `now` | `Date.now()` |
| `buf` | the array a request is about to write |
| `made`, `told`, `exposed` | history: PINs shown to their creators, PINs said to be expired, requests that wrote while another held an older array |

| Action | Code |
|---|---|
| `BootLook`, `BootCreate`, `BootGlobal` | what the constructor starts and does not await (`:17-62`); the unique index refuses a second document |
| `UpdateSecurityPin` | `updateSecurityPin` |
| `CreateRead`, `CreateWrite` | `createSecurityPinWithDevice` up to and from its write |
| `ValidateRead`, `CleanRead`, `CleanWrite`, `OldRead`, `OldWrite` | `validateSecurityPinWithDevice` with the two clean-ups it awaits; `validateSecurityPin` is the same |

Any call may fail, a write after or before it took effect; the clean-ups swallow it. An
expiration is any of `Dates`, also a past one, or `Life` after now. A rejected creation in the
constructor is not caught; what that does to the process is not modelled. The font
configuration is not modelled.

Bounds: two processes, two creations, two validations, one new global PIN; expiration at 1 or
after two units, one unit for a day, time up to 2; one failing call. Two requests of each kind
are what a lost update takes; the times let a PIN expire before, in
between and after the reads of a validation, and by more than a day. In the second clean-up a
PIN is only found when the first failed or was undone, so the run needs the failing call.

`IssuedPinsKept`: a PIN shown to a client stays until it expires unless another request held
an older array when it was written, which is exactly the window of the code.
`ExpiredPinsGo`: the PINs a client is told will be removed are, for good, outside of that window.
The global PIN that is stored is never looked at by a validation (`:69-77`), so it takes no part
in either.

## AuditTrail: what was done, and who asks

`AuditInterceptor` (`interceptors/audit.interceptor.ts`) finds the endpoint of a request in two
lists of regular expressions (`audit/audit-config.service.ts`) and, once the handler has
answered, hands a record to `AuditService`, which never throws. A URL is the pattern it fits and
whether it has a query; `Endpoints` is the lists, in their order.

| Variable | Code |
|---|---|
| `audits` | the collection of records; `on` and `life` of a record are the process that wrote it, and its life |
| `cache` | the flags `first_access_<userId>`, of each process for itself |
| `hour` | the clock |
| `stage`, `asked`, `read` | where a request is, its URL or filter, the pages a client has read |
| `restarts`, `together`, `purged`, field `torn` | lives of a process; history: logins in their tap together, whether records were deleted, whether a record came between the count and the search of a page |

| Actions | Code |
|---|---|
| `Login`, `Answered`, `LookFlag`, `TapInsert`, `SetFlag` | the tap of a login: the flag is read, the record written, the flag set |
| `Operate`, `Answered`, `TapInsert` | the tap of any other request, by `TapRecord`; `AfterInsert` is where it goes on |
| `RegisterEvent`, `EliminarRegistrosUsuario` | the endpoints of `audit/audit.controller.ts` that write |
| `StartList`, `Count`, `Find` | `GET /audit` page after page: counted, then found; the search by text does both at once |
| `GetResourceAudit` | `GET /audit/resource` |
| `Restart`, `PassHour` | a process dies with its cache and its requests; time passes |

The code has some properties the model keeps and a reader should know. The details of a record are
extracted by the first pattern its path fits, whatever the method, so the record of a deletion
may carry the details meant for a change. Handlers answer errors through
the response instead of throwing, so a failed operation is audited as done. The flag is set although the write of the record failed, which is why
`FlagsHaveRecords` asks for no rejected call. `RegisterEvent` gives its record the caller and an event
that no property asks for, where the code takes both from the body: a client that registers a first
access itself, or for somebody else, is left out. Not modelled: the expiry that the schema declares, and the `max` of the cache, which
its library ignores in the version used.

Bounds: two processes, one restart, one rejected call, four requests in seven mixes (`MixesSeen`):
three logins of two users, also with a deletion; three registrations and a client that lists or
searches, also with a deletion; operations on every route with any method. Pages of one record,
a flag that lives two hours of three. Three records and pages of one are what a page can shift by.
The model assumes finitely many requests, at least one process, and mixes that name kinds of
requests. `PagesCover` leaves out what the code cannot give: records of one time, which have no order,
deletions, and a record added between the count of a page and its search.

## Membership: users, workspaces and logins

Profiles and workspaces are two collections, and the members of a workspace are embedded in
it. There are no transactions, and no index makes an email or a member unique. Paths are
`modules/workspaces/workspace.service.ts` (WS), `modules/profiles/profile.service.ts` (PR) and
`interceptors/token.interceptor.ts` (TI).

| Variable | Code |
|---|---|
| `users` | collection `users`: the email (`person`) and `mainWorkspace` of each profile |
| `ws` | collection `workspaces`: `isDefault`, and `teamMembers` with user, `ownerStatus` and `isActive`; the array is in the order of the ids, as it only grows at its end |
| `nextId` | ObjectIds, which never repeat |
| `pc`, `op`, `loc` | where a request is, what it is about, its local variables |
| `by` of profiles and members, `overlap` | history: the request that made them, the pairs of requests that were active together |

| Actions | Code |
|---|---|
| `Login`, `FindUser`, `ListWorkspaces`, `DefaultWorkspace`, `ListAgain` | `intercept` (TI:21-116), run at every authenticated request |
| `SaveNewUser`, `FirstWorkspace`, `SetFirst` | `createUserAfterLogin` (PR:19) |
| `SetWorkspace`, `NewHome`, `SetHome` | `setOidAfterLogin` and `setWorkspace` (PR:52, 86) |
| `InviteUser`, `FindInvited`, `CheckMember`, `Push` | `inviteUser` (WS:426) |
| `CreateWorkspaceUser`, `ReadWorkspace`, `FindProfile`, `SaveProfile`, `Push` | `createWorkspaceUser` (WS:710); it looks for the member in what it read first |
| `DeleteWorkspaceTeamMember`, `ReadMember`, `ReadOthers`, `Pull`, `ReadProfile`, `Rehome`, `SetMain` | `deleteWorkspaceTeamMember` (WS:323) |
| `DeleteWorkspace`, `CheckDelete`, `Delete` | `deleteWorkspace` (WS:684) |
| `SetAsDefaultWorkspace`, `ClearDefault`, `SetDefault`, `SetMain` | `setAsDefaultWorkspace` (WS:168) |
| `SetDefaultWorkspace`, `SetMain` | `setDefaultWorkspace` (PR:189) |
| `UpdateWorkspaceTeamMember`, `CreateWorkspace`, `CreateUser`, `DeleteUser` | one write each |
| `Fails`, the second case of `Then` | a call of MongoDB or Microsoft Graph that is rejected; a write may have been done |

`claim` says whether the token already names the profile, which decides if the login also runs
`setOidAfterLogin`; it is any of both, as the token is older than the request. `Trips` is the
lookup of the own member in a populated array (WS:122), which throws at a member whose profile
is gone. Profiles are taken to have an `oid`: writing it, and calling Microsoft Graph, changes
nothing else and belongs to the step next to it. A failing call of an operation of one write
is left out, as it is either the write or nothing. Not modelled: `updateWorkspace` and
`updateUser`, which write attributes (also the email of a profile), and roles.

The exceptions in these properties are windows the code has between its calls: each names the
operations that must have been active together with the request. The models read the latest data.
The schemas of users and workspaces declare `read: 'nearest'` (`profile.schema.ts:8`, `workspace.schema.ts:8`), so
on a replica set a read may be answered by a secondary that lags, which opens the same windows
also to requests that come one after the other. That is not modelled, and the properties hold of
a deployment whose reads see what was written before. Two requests are what each
window takes; the third creates the situations they meet, a user without profile or a member
who left. The start is a state that two first logins and an invitation lead to. The theorems
(`MembershipProof`) hold for any start in which everyone with a profile has logged in before, is
alone with that email, and is in each of their workspaces once.

## IpLists: addresses and violations

`SecurityService` keeps one document per address, as `ip` alone is unique, with a TTL index on its
expiration. `addToList` and `removeFromList` are under `@Retry`, which means to make three tries and
makes one: it reports the first failure with `logError` at level `warning` (`core/decorators/retry.decorator.ts:29`), the
logger calls the method of pino that has the name of the level (`app-logger.service.ts:121`), there
is none, and the `TypeError` leaves the loop. `Retry` has the loop as it is written, with `TriesLeft` and `Logs`;
`RetryNeverRetries` proves what comes of it. The filter
(`middlewares/security/ip-filter.middleware.ts`) asks for the white list, the black list and the points
of an address in three calls.

| Variable | Code |
|---|---|
| `ipList` | the collection of lists |
| `time` | `Date.now()` |
| `admin`, `visit`, `reports` | where requests to change a list, requests that pass the filter, and requests that tell or check violations are |
| `logged`, `general` | points told by log entries of type `security` and of type `general` |
| `alone`, `stood`, `was` | history: changes with no other of that address asked for during or since, visits whose address was on the black list throughout, or at some moment |

| Actions | Code |
|---|---|
| `Ask`, `AddToList`, `RemoveFromList` | the endpoints and the try that `@Retry` makes; it may fail after it took effect |
| `Expire`, `PassTime` | the TTL index, which deletes at any time after the expiration |
| `Arrive`, `LookWhite`, `LookBlack`, `LookPoints` | `IpFilterMiddleware`; a look that fails says no |
| `SimulateViolation`, `CheckIp` | `security/security.controller.ts`, with `logSecurityEvent` |

`FilterFollowsLists` says that three looks amount to one, `ChangesStand` that an acknowledged
change is the last word until another. Adding an address again without an expiration keeps the
old one, so `ChangesStand` exempts the passing of any expiration ever asked for the address. It also
exempts `Null`: an `expiresAt: null` is stored, and the queries ask for no expiration or a later one
(`security/services/security.service.ts:182`), which null is neither, so such an entry is acknowledged and never listed.
Violations never block an address: they are logged as `general`, and points are counted over
`security`. The run `Threshold` shows it against what `security.constants.ts:2-5` says of the threshold, and
`NothingEverScores` proves it of every behaviour. Not modelled: the queries that only list entries, and the
rate limiter that no module registers.

Bounds: one address, since documents of different addresses do not meet; three changes (alike, so
permuted), because a third can undo what the second left of the first; three tries configured, as in
the code; no expiration, null, or one at 1, and time up to 1; one failing call. `Additions` and `Threshold`
have two changes and time up to 2.

## Roles: permissions and roles

Three collections without transaction and without a unique index. Paths are under
`modules/workspaces`: `permissions/permission.service.ts`, `roles/role.service.ts` and the part
of `workspace.service.ts` about roles.

| Variable | Code |
|---|---|
| `perms`, `roles`, `listed` | the code of each permission, the permissions of each role, the roles of each workspace |
| `task` | a request: what it is about, where it is, its local variables; `todo` and `bad` are the updates of a `Promise.all` under way and whether one failed |
| `beside`, `after`, fields `asked`, `live`, `seen` | history: requests active together; requests that had ended when another arrived; the roles a reader asked for, the permissions there were then, and the references it was shown |

| Actions | Code |
|---|---|
| `AskCreatePermission`, `LookCode`, `CreatePermission` | `createPermission` |
| `AskUpdatePermission`, `FindPermission`, `LookCode`, `UpdatePermission` | `updatePermission` |
| `AskUpdatePermissions`, `FindPermissions`, `WriteOnePermission`, `MassiveUpdatePermissions` | `massiveUpdatePermissions`, which looks at no code |
| `AskDeletePermission`, `FindPermission`, `ListHolders`, `PullOne`, `PullsEnd`, `DeletePermission` | `deletePermission`: the roles that hold it are listed, it is pulled from each, and it is deleted |
| `AskCreateRole`, `CreateRole`; `AskUpdateRole`, `FindRole`, `UpdateRoleDetail` | `createRole`, `updateRoleDetail` |
| `AskCreateWorkspaceRole`, `CheckOwner`, `CreateWorkspaceRole`, `AddToWorkspace` | `createWorkspaceRole` |
| `AskEditRoleWorkspace`, `CheckRole`, `FindRole`, `UpdateRoleDetail` | the change of a role through a workspace |
| `DeleteWorkspaceRole`, `DropWorkspace` | one write each |
| `GetMyWorkspacePermissions`, `GetWorkspaceRoles`, `GetWorkspaceRoleDetail`, `GetWorkspace`, `GetWorkspaceTeam`, `GetRoles`, `PopulateRoles`, `PopulatePermissions` | the queries that populate roles, each population a query of its own |
| `GetRole` | `getRole`, which populates nothing and answers with the ids in the role, deleted ones included |
| `RefuseCall`, the second case of `Written`, `SaveRole` and `Settle` | a call that is rejected; a write may have been done |

The permission ids in the body of a role are checked by nobody: a body (`Bodies`) may name
permissions that are deleted, also long ago, or that never were. So a role can be given a reference
that leads nowhere, with no overlap. What a deletion promises is that it leaves none behind: `RefsLive` says that a
role which refers to a deleted permission was given it by a request that did not end before the
deletion arrived, one that overlapped with it or came later. `ShownAsGiven` is about who asks for a
role after a change of it was acknowledged: they are shown what the change gave, of the
permissions there are, and nothing else, although the change, the deletions that pull and the queries take several
calls. If a pull fails, others have been done: the permission stays, and some of its roles have lost it.
`updateRoleDetail` and `deleteWorkspaceRole` turn an error into an answer 200 without data
(`Lost`). One role document may be listed by several workspaces, as the default role is. Not
modelled: `orderPermissions` and the sort of lists, and the schemas' `read: 'nearest'`, by which a
secondary may answer with old data.

Bounds: three requests in eight mixes (`TasksSeen`), each of which puts together requests that write
what another reads; two bodies, one of a permission that is there and one that also names an id not
used at the start; three permissions, of which one is not yet there, two codes, three roles, of
which one is not yet there, two workspaces that share one; one refusal.

## Rls and RlsTables: the script for row-level security

`RlsTables` computes, by the rules of `GenericRLSService` and `RLSConfigurations`
(`databases/postgresql`), which tables are configured, in which order, with which policies. A table
that is registered replaces the built-in configuration: so `integration_logs` loses the indexes of
the latter. `Rls` runs the script over it.

| Variable | Code |
|---|---|
| `enabled`, `policies` | PostgreSQL: row-level security of each table and its policies |
| `script` | per run, its target, the tables left and the statement it is at |
| `applied`, `broken` | history: tables that once had all their policies; policies a run failed at |

`StartScript`, `EnableRls`, `DropPolicy` and `CreatePolicy` are the statements, one transaction
each; `Kill` ends a run between two. An error gives up the table, and also the script if it was
told that table. When it was run for all, it logs success although a table failed.
`PoliciesKept`: whatever runs overlap, a table once protected lacks only policies that a run has
just dropped or failed at. `removeTablePolicies` has no caller, and the check of the policies only
prints.

Bounds: two runs for all tables, for one the database has, or for one it lacks; one statement or run
that fails. The configuration is the real one, nothing is cut.

## Proofs

All are proved for any values of the constants that meet the named assumptions of their modules.

### OdooSync

For all sets of sessions, holdings and records, all bounds, and any assignment of
partners and lines to invoices, from `DataAssumption` (Odoo's records are finitely many and
invoices are numbers), `NoRowAssumption` (null is no number and no row) and `BoundAssumption`:

| Theorem | Says |
|---|---|
| `TypeCorrect` | `TypeOK` is an invariant |
| `JobsExist`, `LogBehindWork` | `AckedJobsExist` and `LogNeverAheadOfWork` are invariants |
| `JobLogImplemented` | `Spec => JL!Spec`: the refinement |
| `ProgressGrows` | `ProgressNeverGoesBack`: the percentage never decreases, from the refinement and `ProgressMonotone` of JobLogProof |
| `NoOtherDuplicates`, `LinesReferToTheirInvoice` | `DuplicatesNeedOverlap` and `LineRefsInvoice` are invariants |
| `SavesStayInHolding` | `HoldingsIsolated`: every step that writes a staging table stays in its session's holding |
| `StagedDataNeverGoesBack` | `NoStaleOverwrite`: no step replaces what is staged by something older, but next to an overlapping session of the holding |
| `StagingImplemented` | `Spec => ST!Spec`: the refinement of Staging |
| `ReadersMayRely` | `ReadersRely` is an invariant of Staging, so of all that implements it |
| `ScansAreComplete` | `ScansCover` is an invariant |
| `QuietSessionsSucceed` | `QuietSessionsHaveNoErrors` is an invariant |
| `CountersAgree`, `ProgressMonotone` | of JobLog on its own |

The inductive invariant comes in six layers, each proved assuming those before it that it needs:

- `TypeInv` is `TypeOK` together with `HoldsRecords`: what a job lists, and has in hand, are
  records of its own kind. The type alone does not say so, and without it a job could be
  thought to look up the invoice of a partner.
- `LogInv` says that rows are there whenever they can be written (`RowsCreated`: a session
  past `Respond` has all three; the row of a job not begun is as it was created), and that the
  row of the job in hand is not ahead of the local counters (`RowBehindWork`). The counters
  are local variables of the task, so the claim about the row needs both; and the row of a
  later job must be known untouched for `JobLog`'s total to be fixed before anything counts.
- `RowsInv` says that ids identify rows and lie below `nextId` (`IdsUnique`), that two active
  sessions are in `overlap` (`ActiveOverlap`), that duplicates stem from overlapping sessions,
  and that a session about to save (`SaveReady`) either holds a row whose successor is still in the
  table, or found none, in which case any row there now was inserted by a session that
  overlaps with it. This is the fact a find establishes and the save relies on.
- `RefsInv` says that staged lines refer to their invoice and that the reference a session
  carries to its save (`RefReady`) still does. It holds across other sessions' steps as no row
  is ever deleted and updates keep id, key and holding.

- `VersInv` says that nothing staged is newer than Odoo, and that what a session has in hand is
  as new as what is staged of this record, unless a session of the same holding overlaps with it
  (`HandFresh`). Odoo's versions only grow, so this holds when the record is read; later only
  another session could stage something newer, and it then overlaps. With `ByHolding`, that the rows
  a session inserted are of its holding, these layers give the refinement of Staging: `InsertStages` shows
  that a save that found no row inserts, `UpdateStages` that one that found a row updates
  the row as it is now, and `StartContends` that nothing but the start of a session makes a holding contended.
- `ScanInv` is about a scan of a set that changes under it. `Covers`: each record listed is
  staged, in hand, or still to come. For a scan by offset, still to come means that its rank,
  the number of records the query sorts before it, is no less than the offset. What is posted
  meanwhile only raises ranks, and a page at an offset is the record of this rank (`PageIsRank`),
  and not empty while any record is still to come (`PageFound`). `AtStart` gives the offset at
  the beginning, and `InPeace` what a session that nothing befell can rely on: the invoices its
  lines refer to have been staged by the job before.

TLC confirmed each layer as an invariant before it was proved.

### OdooDirect

From `DirectAssumption` (requests are sessions; offsets and limits are numbers) and those of `OdooSync`:

| Theorem | Says |
|---|---|
| `DirectTypeCorrect` | `DirectTypeOK` is an invariant |
| `DirectDuplicates`, `DirectLinesReferToTheirInvoice` | `DuplicatesNeedOverlap` and `LineRefsInvoice` are invariants with requests among the jobs |
| `DirectDataNeverGoesBack` | so is the action property `NoStaleOverwrite` |
| `DirectStagingImplemented` | jobs and requests together implement Staging |
| `RequestsAreComplete` | `BatchStaged` is an invariant: an answer without errors means a page staged in full |

Every step is one of `OdooSync` or one of a request's own, and the latter write no staging
table; so the step lemmas of OdooSyncProof are cited for the former, and only the
latter are looked at. `DirectTypeInv` says where a request can be, and what it has to do there.
`Ready` follows the id that the save of an invoice returned until lines get it, `Recent` extends
`HandFresh` to the records a request has read and not saved yet, and `DirectStaged` follows each
record of the page: it is staged, or to do, or in hand, unless an error was counted.

### PinStore

From `CodeAssumption`, `ActorAssumption` (processes and requests of different kinds differ),
`TimeAssumption` and `NoDocAssumption` (a missing document is no array and no code):

| Theorem | Says |
|---|---|
| `PinTypesCorrect` | `PinSpec => []PinTypeOK` |
| `IssuedPinsStay` | `IssuedPinsKept` is an invariant |
| `ExpiredPinsLeave` | `ExpiredPinsGo` is an invariant |

`IssuedInv` adds to the property that whoever is about to write back an array has in it every PIN
that must be kept. `MakerInv` says whose PINs can be in an array at all: those of creators that are
done, and of the one who holds it. `GoneInv` follows a validation past its first clean-up: what it
called expired is neither in the document nor in an array that is still to be written.

### Membership

For any people, requests and operations, any number of failing calls, and any database at the
start that meets `StartAssumption`: ids that are distinct and in use, one profile per email,
nobody in a workspace twice, and everyone with a main workspace they belong to.

| Theorem | Says |
|---|---|
| `MemTypesCorrect` | `MemTypeOK` is an invariant |
| `MembersOnce`, `ProfilesOnce` | `MemberOnce` and `ProfileOnce` are invariants |
| `DeletionsChecked` | `DeletesAsChecked`: a deletion or removal takes only what it checked |
| `RemovalsRehome` | `RemovedRehomed`: who was removed, with no other request active, has a home elsewhere |
| `LoginsProvide` | `LoginProvides`: after a login the user has a workspace |

The lemmas say of each action where it leads (`LoginEdges`, `OtherEdges`, `ArrivalEdges`), and of
any step what it may do to the requests (`Turn`), to their locals (`LocalFits`), to workspaces
(`MembersFrom`: every member after it was there, is alone in a new workspace, or was pushed;
`MembersStay`: only a pull and a deletion take any away) and to profiles (`UsersFrom`); the rest is
argued with these and not with the actions. The inductive invariant has a part for each theorem:

- `MemTypeInv` adds to the types that ids in use, by a request or a member, lie below the next one
  and name one entry (`IdsInUse`, `KnownIds`), and that a request is at a place of its own operation
  (`Places`), so that "set main", which four operations end with, is known to belong to one of them.
- `ActiveTogether`: two requests that are active at a time are in the history together. This is
  what excuses a step that is taken between another one's look and its write.
- `MemberInv`: whoever is about to push a user has met the request that added each entry of this
  user there (`PushReady`), or, before the profile is known, of all whom it did not see when it
  read the workspace (`SeenReady`). `ProfileInv` is the same of profiles about to be saved, and that
  whoever made one has arrived, so that what it was about does not change.
- `CheckInv`: between its check and its write, a deletion's workspace has only members who are
  inactive or owners, and a removal's entry is no owner, or a request that could change this was
  met; `MetArrived` keeps the operation of whoever was met.
- `RehomeInv`: what a removal that is alone read as the user's other workspaces are those; another
  request's step would end its being alone (`AloneMoves`).
- `ProvidedInv`: at a login that is to set a main workspace the user is in some workspace, or it
  has met a request that takes members or workspaces away.

### AuditTrail

From `AuditAssumption` and `MixAssumption`:

| Theorem | Says |
|---|---|
| `AuditTypesCorrect` | `AuditTypeOK` is an invariant |
| `EventsAreOfTheirMethod` | `EventsFitMethods` is an invariant |
| `OneFirstAccessADay` | `FirstAccessOnce` is an invariant |
| `FlagsStandForRecords` | `FlagsHaveRecords` is an invariant |
| `PagesMissNothing` | `PagesCover` is an invariant |

`Recorded` says that a request leaves at most one record, when it passes its insert; this bounds
the records, and so the pages of a list. `LoginInv` is the argument about first accesses: as long as the process
that wrote one lives, its user has a flag there from the record's time on, or the login is
about to set it (`FlagFollows`); two logins in their tap at once know of each other
(`TogetherSeen`); and one that was alone and goes to its insert met no flag (`NoFlagMet`), so
any record of its user from this process is a flag's life older. `FlagComing` is the other
direction, from the flag to the record. `Listing` is the argument about pages: a record that was
there when the list began, is the only one of its time, and was not seen yet, has at least as
many newer ones as the pages read so far hold. Records that are added are newer and only push
it back. The first pages of a list sorted by time take all that have fewer newer ones
(`PageLeaves`), and the last page takes all that is left (`LastPage`).

### Records

`RecordsAreAll`: a behaviour of `Records` is one of `PinSpec`, one of `AuditSpec` and one of
`ReadsSpec`, whatever `Parts` are. So all theorems of the three hold side by side, as `RecordsTypesCorrect` concludes for
`RecordsTypeOK`.

### IpLists

From `IpAssumption`, in particular that `NoIp` is neither an address nor a document:

| Theorem | Says |
|---|---|
| `IpTypesCorrect` | the types |
| `FilterIsRight` | `FilterFollowsLists` is an invariant |
| `ChangesLast` | `ChangesStand` is an invariant |
| `RetryNeverRetries` | no change is tried a second time, however many tries are configured and whatever fails |
| `NothingEverScores` | no check counts a point and nobody is refused for points, so what the run `Threshold` finds is so in every behaviour |

`FilterInv` says where a visit is whose address was black throughout; `ChangesInv` that no other
change of an address is under way while one is alone, that every expiration stored, null included,
was asked for, and that what an acknowledged change left is still so, or lapsed; `ScoreInv` that no
counted entry and no document has points.

### Roles

From `RoleAssumption`: `NoRole` and `NoSpace` are no arrays, unused ids have no code, and the
database at the start has neither references that lead nowhere nor a code twice:

| Theorem | Says |
|---|---|
| `RoleTypesCorrect` | the types |
| `RefsStayLive`, `CodesStayUnique`, `SpaceRolesStayListed`, `ChangesAreShown` | `RefsLive`, `CodesOnce`, `SpaceRolesListed`, `ShownAsGiven` are invariants, for any bodies |

Every step of a request is one of three shapes, it arrives, it moves on, or it leaps to its end, and
lemmas say for each action which, so that the invariants are proved against shapes. `RoleTypeInv` fits
the local variables of a request to its kind and place. `BesideInv`: two requests in flight are
beside each other, and no request that has not arrived is beside any. `EndedInv`: who had ended
when another arrived has ended, so that who is under way ended before nobody (`UnderWay`) and the order of two requests
is settled once both have arrived (`NotBeforeStays`). `RefsInv`: a reference to a deleted permission is excused by a
request that gave it and had not ended before the deletion, and, while a deletion pulls, so is every
reference in a role it no longer intends to visit. `CodesInv` excuses two
permissions of one code by requests beside each other or an update of many, and knows what a request found when it looked. `ListedInv` extends
the property to requests that have not answered yet. `LookInv` follows what a change gave to a role from
the write on: the role, the references a reader has taken from it, and what the reader is shown
each have it, or a change or a deletion that did not end before it took it away.

### Rls

From `RlsAssumption` (tables are configured once, each with at least one policy):

| Theorem | Says |
|---|---|
| `RlsTypesCorrect` | the types |
| `TablesStayProtected` | `PoliciesKept` is an invariant |

`RlsInv` adds `Behind`: the policies a run has passed in its table are there, or just being
created by a run, or one failed at them.

### OdooReads

From `ReadsAssumption` (finite sets, ids that are positive numbers, at most one tax of each sort for a
company) and `CodecAssumption`:

| Theorem | Says |
|---|---|
| `ReadsTypesCorrect` | `ReadsType`, the types, with what history keeps: what is said to have stayed active is active |
| `CountsBounded` | `CountsAgree` is an invariant |
| `CataloguesComplete` | `ListsComplete` is an invariant |

The lemmas on the codec come first: what reading a list of ids, a table, or a field of a row
gives back, whatever order Odoo lists it in. `CountInv` says what each number of a count is worth
while the request is still under way: as invoices are only posted, each was right at some moment
since it began, and stays at most what would be right now (`StillCounted`). It also says of
the ids found what the next call needs: that they are posted, or posted without lines. `CatalogueInv`
is the same of lists: the ids found have all that stayed active, or are as many as the limit; the
rows read have what was found and stayed, with all of their taxes that exist; and no tax is
missing unless one was deleted.

### Access

`AccessIsAllThree`: a behaviour of `Access` is one of `IpSpec`, one of `RoleSpec` and one of
`RlsSpec`. `AccessTypesCorrect` concludes `AccessTypeOK`; the theorems of the three parts
hold side by side likewise.

### Only model-checked

The liveness properties of `OdooSync`, `SessionsEnd` and `QuietSessionsComplete`, which the prover
cannot treat under fairness. What the runs `MainDeleted` and `LoginRejected` check of `Membership` is
false, so there is nothing to prove; likewise `AdditionsAccepted` and `ThresholdBlocks` of `IpLists`,
though `NothingEverScores` says why the latter is. `AnswersDecoded`, that
the codec does to any value what `Seen` says: both are recursive over data, and neither recursive
operators nor induction over values are in the prover's reach. Of the codec the proofs of `OdooReads`
use only `CodecAssumption`.

## Not modelled

- Devices: no route has the guard and nothing calls the registration, so none of their interleavings
  can happen in the program as it is. Likewise without a caller are `EventHandlerService.handleEvent`, `logBusinessEvent`,
  `logDocumentEvent`, `logAuthEvent`, `SecurityMiddleware`, `getSecurityViolations` and the rate
  limiter of `security/`; `SettingsModule` is not imported by `AppModule`, and `PinStore` models
  its service as what it is written for.
- `updateWorkspace` and `updateUser`, which write attributes that no model holds (`updateUser` may
  change an email); the font configuration of categories and the list of active PINs; the order of permissions.
- Licenses, teams and invitations, promotion, cities: single reads and writes of one document.
- Guards, authentication strategies, Microsoft Graph: delegated to libraries and services; what
  passes a guard is what the models start from.
- Connections, the database analyzer, logging, telemetry, health, bootstrap: input, output and wiring.
