------------------------------ MODULE OdooSync ------------------------------
(***************************************************************************)
(* The asynchronous synchronisation of Odoo into the staging tables:       *)
(* OdooService.startAsyncInvoiceSync and everything it sets in motion.     *)
(*                                                                         *)
(* A request creates three rows of integration_logs (one job per kind of   *)
(* record) and schedules a background task that runs the three jobs one    *)
(* after the other: partners, invoices, invoice lines.  A job scans Odoo   *)
(* page by page (pages of one record) and copies each record into its      *)
(* staging table with a find followed by a save.  Nothing is transactional *)
(* and nothing stops two tasks from running at the same time, so every     *)
(* await of the code is an action of its own here.                         *)
(*                                                                         *)
(* Odoo is external: records come and go while a scan is under way, and    *)
(* any call to Odoo or to PostgreSQL may fail.  The process may crash;     *)
(* nothing resumes a task after a restart.                                 *)
(***************************************************************************)
EXTENDS Naturals, FiniteSets

CONSTANTS
  Sessions,    \* requests to start a synchronisation
  Holdings,    \* companies on whose behalf they are made
  Partners,    \* res.partner records of Odoo
  Invoices,    \* account.move records of Odoo: numbers, for scans sort by id
  Lines,       \* account.move.line records of Odoo
  PartnersOf,  \* the partners an invoice names
  MoveOf,      \* the invoice a line belongs to
  Posted,      \* invoices in the range of dates when the system starts
  NoRow,       \* null
  MaxFaults,   \* bound on failing calls, for model checking
  MaxChanges,  \* bound on changes made in Odoo, for model checking
  MaxCrashes   \* bound on crashes of the process, for model checking

Keys == Partners \cup Invoices \cup Lines

Kinds == {"partners", "invoices", "lines"}

Jobs == Sessions \X Kinds

(* A row of a staging table.  The field by is history: the session that    *)
(* inserted the row.  ref is invoice_staging_id and ver stands for         *)
(* raw_data: which version of the Odoo record was copied.                  *)
StgRow == [id : Nat, key : Keys, holding : Holdings, ref : Nat \cup {NoRow},
           ver : Nat, by : Sessions]

ASSUME DataAssumption ==
  /\ IsFiniteSet(Partners) /\ IsFiniteSet(Invoices) /\ IsFiniteSet(Lines)
  /\ Invoices \subseteq Nat /\ Posted \subseteq Invoices
  /\ PartnersOf \in [Invoices -> SUBSET Partners]
  /\ MoveOf \in [Lines -> Invoices]

ASSUME NoRowAssumption == NoRow \notin Nat /\ NoRow \notin StgRow

ASSUME BoundAssumption == MaxFaults \in Nat /\ MaxChanges \in Nat /\ MaxCrashes \in Nat

VARIABLES
  log,       \* table integration_logs: the row of each job
  stg,       \* the three staging tables
  nextId,    \* source of fresh row ids
  posted,    \* Odoo: invoices now posted, not reversed and in the range of dates
  ver,       \* Odoo: current version of each record
  pc,        \* where each session is
  kind,      \* the job a session is running
  w,         \* local variables of that job
  pending,   \* saves of job rows in flight (Promise.all)
  acked,     \* history: sessions whose client was given the job ids
  overlap,   \* history: pairs of sessions that were active together
  events,    \* history: what befell a session while it was active
  faults, changes, crashes   \* how much of each bound is used

dbVars    == <<log, stg, nextId>>
odooVars  == <<posted, ver, changes>>
taskVars  == <<pc, kind, w, pending>>
vars == <<log, stg, nextId, posted, ver, pc, kind, w, pending, acked, overlap,
          events, faults, changes, crashes>>

(* What the jobs' rows implement; its job ids are pairs of session and kind. *)
JL == INSTANCE JobLog WITH JobIds <- Jobs, rows <- log

(* What the staging tables implement: contended is each holding for which   *)
(* sessions were active together.                                          *)
Contended ==
  {h \in Holdings : \E s, t \in Sessions :
     <<s, t>> \in overlap /\ w[s].holding = h /\ w[t].holding = h}

ST == INSTANCE Staging WITH rows <- stg, contended <- Contended

Control == {"idle", "creating", "rejected", "begin", "list", "nothing", "total",
            "page", "lookup", "find", "save", "report", "finish", "fail", "done", "dead"}

Active(s) == pc[s] \notin {"idle", "rejected", "done", "dead"}

Event == {"fault", "posted", "reversed", "edited"}

(* Local variables: holding is data.holding_id; ids the records the job    *)
(* listed (for invoices the code keeps only their number); todo the        *)
(* partners not read yet; item the record in hand, ver the version read;   *)
(* ref and row what the two queries before a save returned.                *)
Local == [holding : Holdings, ids : SUBSET Keys, todo : SUBSET Keys, offset : Nat,
          item : Keys \cup {NoRow}, ver : Nat, ref : Nat \cup {NoRow},
          row : StgRow \cup {NoRow}, saved : Nat, errs : Nat]

Fresh(h) == [holding |-> h, ids |-> {}, todo |-> {}, offset |-> 0, item |-> NoRow,
             ver |-> 0, ref |-> NoRow, row |-> NoRow, saved |-> 0, errs |-> 0]

TypeOK ==
  /\ log \in [Jobs -> JL!Row]
  /\ stg \in [Kinds -> SUBSET StgRow]
  /\ nextId \in Nat
  /\ posted \in SUBSET Invoices
  /\ ver \in [Keys -> Nat]
  /\ pc \in [Sessions -> Control]
  /\ kind \in [Sessions -> Kinds]
  /\ w \in [Sessions -> Local]
  /\ pending \in [Sessions -> SUBSET Kinds]
  /\ acked \in SUBSET Sessions
  /\ overlap \in SUBSET (Sessions \X Sessions)
  /\ events \in [Sessions -> SUBSET Event]
  /\ faults \in 0 .. MaxFaults /\ changes \in 0 .. MaxChanges /\ crashes \in 0 .. MaxCrashes
-----------------------------------------------------------------------------
(* Scans of Odoo.                                                          *)

(* The records a query for one record at an offset may return, sorted by   *)
(* descending key: those with the same key come in no particular order.    *)
PageAt(S, key, offset) ==
  {x \in S : /\ Cardinality({y \in S : key[y] > key[x]}) <= offset
             /\ offset < Cardinality({y \in S : key[y] >= key[x]})}

InvoiceId == [i \in Invoices |-> i]

(* What a job lists before it starts copying: the partners of the invoices *)
(* in range, those invoices (only their number is kept), or their lines.   *)
Listed(k) ==
  CASE k = "partners" -> UNION {PartnersOf[i] : i \in posted}
    [] k = "invoices" -> posted
    [] k = "lines"    -> {l \in Lines : MoveOf[l] \in posted}

(* The record the next page may hold.  Invoices are searched anew at each  *)
(* page; lines too, but among those of the invoices listed at the start.   *)
NextItems(s) ==
  CASE kind[s] = "partners" -> w[s].todo
    [] kind[s] = "invoices" -> PageAt(posted, InvoiceId, w[s].offset)
    [] kind[s] = "lines"    -> PageAt(w[s].ids, MoveOf, w[s].offset)

MutAdvanceTwice(o) == o + 2
NextOffset(o) == o + 1
-----------------------------------------------------------------------------
(* Staging tables.                                                         *)

MutMatchesAnyHolding(k, key, h) == {r \in stg[k] : r.key = key}
MutMatchesNone(k, key, h) == {}
(* The rows findOne({odoo_id, holding_id}) may return: any one of them.     *)
Matches(k, key, h) == {r \in stg[k] : r.key = key /\ r.holding = h}

(* What a findOne answers. *)
Found(rows) == IF rows = {} THEN {NoRow} ELSE rows

(* The row a save writes over an existing one, from the copy read before.  *)
Updated(l) == [l.row EXCEPT !.ver = l.ver, !.ref = IF l.ref # NoRow THEN l.ref ELSE @]

Inserted(s) ==
  [id |-> nextId, key |-> w[s].item, holding |-> w[s].holding, ref |-> w[s].ref,
   ver |-> w[s].ver, by |-> s]
-----------------------------------------------------------------------------
(* Failures. *)

NoFault == UNCHANGED <<events, faults>>

(* A call made by session s is rejected. *)
Fault(s) ==
  /\ faults < MaxFaults
  /\ faults' = faults + 1
  /\ events' = [events EXCEPT ![s] = @ \cup {"fault"}]

(* The properties of entity IntegrationLog that the updates below name.    *)
Columns == {"status", "records_processed", "records_success", "records_failed",
            "progress_total", "completed_at", "execution_time_ms"}

MutCompletionColumns == {"status", "completed_at", "finished_at"}
CompletionColumns == {"status", "completed_at", "execution_time_ms"}
FailureColumns == {"status", "completed_at", "error", "failed_at"}

(* updateJobStatus: an update that names a property the entity has not is  *)
(* refused by TypeORM, a failing one is lost; either way the error is      *)
(* swallowed and the job goes on.                                          *)
UpdateJobStatus(s, columns, row) ==
  \/ /\ log' = IF columns \subseteq Columns
               THEN [log EXCEPT ![<<s, kind[s]>>] = row] ELSE log
     /\ NoFault
  \/ Fault(s) /\ UNCHANGED log

JobRow(s) == log[<<s, kind[s]>>]

MutSuccessLessErrors(row, l) ==
  [row EXCEPT !.processed = l.saved + l.errs, !.success = l.saved - l.errs, !.failed = l.errs]
MutReportedRow(row, l) ==
  [row EXCEPT !.processed = l.saved + l.errs, !.success = l.saved + l.errs,
              !.failed = l.errs]
ReportedRow(row, l) ==
  [row EXCEPT !.processed = l.saved + l.errs, !.success = l.saved, !.failed = l.errs]

MutCompletedRow(row) == [row EXCEPT !.status = "completed", !.processed = 0,
                                    !.success = 0, !.failed = 0]
CompletedRow(row) == [row EXCEPT !.status = "completed"]
-----------------------------------------------------------------------------
Init ==
  /\ log = [j \in Jobs |-> JL!NoLog]
  /\ stg = [k \in Kinds |-> {}]
  /\ nextId = 0
  /\ posted = Posted
  /\ ver = [x \in Keys |-> 0]
  /\ pc = [s \in Sessions |-> "idle"]
  /\ kind = [s \in Sessions |-> "partners"]
  /\ w \in [Sessions -> {Fresh(h) : h \in Holdings}]
  /\ pending = [s \in Sessions |-> {}]
  /\ acked = {} /\ overlap = {}
  /\ events = [s \in Sessions |-> {}]
  /\ faults = 0 /\ changes = 0 /\ crashes = 0

Goto(s, label) == pc' = [pc EXCEPT ![s] = label]

(* A request arrives for the holding w[s].holding: the three saves of the  *)
(* job rows are issued together.                                           *)
StartAsyncInvoiceSync(s) ==
  /\ pc[s] = "idle"
  /\ Goto(s, "creating")
  /\ pending' = [pending EXCEPT ![s] = Kinds]
  /\ overlap' = overlap \cup {<<s, t>> : t \in {u \in Sessions : Active(u)}}
                        \cup {<<t, s>> : t \in {u \in Sessions : Active(u)}}
  /\ UNCHANGED <<dbVars, odooVars, kind, w, acked, events, faults, crashes>>

(* One of them ends.  The first that fails rejects the request; the others *)
(* are not recalled and may still commit.                                  *)
SaveJobRow(s, k) ==
  /\ k \in pending[s]
  /\ pending' = [pending EXCEPT ![s] = @ \ {k}]
  /\ \/ /\ log' = [log EXCEPT ![<<s, k>>] = JL!NewLog]
        /\ NoFault /\ UNCHANGED pc
     \/ /\ Fault(s) /\ Goto(s, "rejected")
        /\ UNCHANGED log
  /\ UNCHANGED <<stg, nextId, odooVars, kind, w, acked, overlap, crashes>>

MutAllSaved(s) == pending[s] # Kinds
AllSaved(s) == pending[s] = {}

(* All are saved: the client gets the job ids and the task is scheduled.   *)
Respond(s) ==
  /\ pc[s] = "creating" /\ AllSaved(s)
  /\ acked' = acked \cup {s}
  /\ kind' = [kind EXCEPT ![s] = "partners"]
  /\ Goto(s, "begin")
  /\ UNCHANGED <<dbVars, odooVars, w, pending, overlap, events, faults, crashes>>

Begin(s) ==
  /\ pc[s] = "begin"
  /\ UpdateJobStatus(s, {"status"}, [JobRow(s) EXCEPT !.status = "running"])
  /\ Goto(s, "list")
  /\ UNCHANGED <<stg, nextId, odooVars, kind, w, pending, acked, overlap, crashes>>

WithList(l, k) ==
  [l EXCEPT !.ids = Listed(k), !.todo = IF k = "partners" THEN Listed(k) ELSE {}]

(* Authenticate, list the invoices in range and what they lead to.         *)
List(s) ==
  /\ pc[s] = "list"
  /\ \/ /\ Fault(s) /\ Goto(s, "fail") /\ UNCHANGED w
     \/ /\ NoFault
        /\ w' = [w EXCEPT ![s] = WithList(@, kind[s])]
        /\ Goto(s, CASE posted = {} /\ kind[s] # "invoices"           -> "finish"
                     [] posted # {} /\ kind[s] = "partners"
                          /\ Listed(kind[s]) = {}                     -> "nothing"
                     [] OTHER                                         -> "total")
  /\ UNCHANGED <<dbVars, odooVars, kind, pending, acked, overlap, crashes>>

(* Invoices but no partner in any: completed at once (and once more below). *)
Nothing(s) ==
  /\ pc[s] = "nothing"
  /\ UpdateJobStatus(s, {"status", "completed_at", "progress_total"},
                     [CompletedRow(JobRow(s)) EXCEPT !.total = 0])
  /\ Goto(s, "finish")
  /\ UNCHANGED <<stg, nextId, odooVars, kind, w, pending, acked, overlap, crashes>>

SetTotal(s) ==
  /\ pc[s] = "total"
  /\ UpdateJobStatus(s, {"status", "progress_total"},
                     [JobRow(s) EXCEPT !.status = "running",
                                       !.total = Cardinality(w[s].ids)])
  /\ Goto(s, "page")
  /\ UNCHANGED <<stg, nextId, odooVars, kind, w, pending, acked, overlap, crashes>>

(* Odoo's answer to a read carries the record as it is now. *)
ReadVersion(x) == ver[x]

WithItem(l, x) == [l EXCEPT !.item = x, !.ver = ReadVersion(x), !.todo = @ \ {x}]

(* Search and read the next record; an error of either ends the job.       *)
NextPage(s) ==
  /\ pc[s] = "page"
  /\ \/ /\ NextItems(s) = {}
        /\ NoFault /\ Goto(s, "finish") /\ UNCHANGED w
     \/ \E x \in NextItems(s) :
        /\ NoFault
        /\ w' = [w EXCEPT ![s] = WithItem(@, x)]
        /\ Goto(s, IF kind[s] = "lines" THEN "lookup" ELSE "find")
     \/ /\ kind[s] = "partners" => w[s].todo # {}
        /\ Fault(s) /\ Goto(s, "fail") /\ UNCHANGED w
  /\ UNCHANGED <<dbVars, odooVars, kind, pending, acked, overlap, crashes>>

(* An error while one record is saved is counted, and the job goes on.     *)
CountError(s) ==
  /\ w' = [w EXCEPT ![s].errs = @ + 1]
  /\ Goto(s, "report")

StagingId(r) == IF r = NoRow THEN NoRow ELSE r.id

(* Lines only: the staged invoice the line will refer to, if there is one. *)
LookupInvoice(s) ==
  /\ pc[s] = "lookup"
  /\ \/ /\ NoFault
        /\ \E r \in Found(Matches("invoices", MoveOf[w[s].item], w[s].holding)) :
             w' = [w EXCEPT ![s].ref = StagingId(r)]
        /\ Goto(s, "find")
     \/ Fault(s) /\ CountError(s)
  /\ UNCHANGED <<dbVars, odooVars, kind, pending, acked, overlap, crashes>>

(* The find of saveInvoiceToDatabase, saveLineToDatabase and               *)
(* savePartnerToDatabase; a new line without an invoice is refused.        *)
FindExisting(s) ==
  /\ pc[s] = "find"
  /\ \/ /\ NoFault
        /\ \E r \in Found(Matches(kind[s], w[s].item, w[s].holding)) :
             IF r = NoRow /\ kind[s] = "lines" /\ w[s].ref = NoRow
             THEN CountError(s)
             ELSE /\ w' = [w EXCEPT ![s].row = r]
                  /\ Goto(s, "save")
     \/ Fault(s) /\ CountError(s)
  /\ UNCHANGED <<dbVars, odooVars, kind, pending, acked, overlap, crashes>>

Write(s) ==
  \/ /\ w[s].row = NoRow
     /\ stg' = [stg EXCEPT ![kind[s]] = @ \cup {Inserted(s)}]
     /\ nextId' = nextId + 1
  \/ /\ w[s].row # NoRow
     /\ stg' = [stg EXCEPT ![kind[s]] = {r \in @ : r.id # w[s].row.id} \cup {Updated(w[s])}]
     /\ UNCHANGED nextId

(* The save of the same functions.  A save that reports an error may have  *)
(* been committed all the same.                                            *)
Save(s) ==
  /\ pc[s] = "save"
  /\ \/ /\ NoFault /\ Write(s)
        /\ w' = [w EXCEPT ![s].saved = @ + 1]
        /\ Goto(s, "report")
     \/ /\ Fault(s) /\ CountError(s)
        /\ \/ Write(s)
           \/ UNCHANGED <<stg, nextId>>
  /\ UNCHANGED <<log, odooVars, kind, pending, acked, overlap, crashes>>

(* On to the next record. *)
WithoutItem(l) ==
  [l EXCEPT !.offset = NextOffset(@), !.item = NoRow, !.ver = 0, !.ref = NoRow, !.row = NoRow]

Report(s) ==
  /\ pc[s] = "report"
  /\ UpdateJobStatus(s, {"status", "records_processed", "records_success", "records_failed"},
                     [ReportedRow(JobRow(s), w[s]) EXCEPT !.status = "running"])
  /\ w' = [w EXCEPT ![s] = WithoutItem(@)]
  /\ Goto(s, "page")
  /\ UNCHANGED <<stg, nextId, odooVars, kind, pending, acked, overlap, crashes>>

MutNextKind(k) == CASE k = "partners" -> "lines" [] k = "lines" -> "invoices"
                    [] k = "invoices" -> "partners"
MutNextKindLoops(k) == IF k = "invoices" THEN "lines" ELSE "invoices"
(* The order of the jobs of a session. *)
NextKind(k) == CASE k = "partners" -> "invoices" [] k = "invoices" -> "lines"
                 [] k = "lines" -> "partners"

(* processEntityAsync has returned, as it does whatever happened in it.    *)
NextJob(s) ==
  /\ kind' = [kind EXCEPT ![s] = NextKind(@)]
  /\ w' = [w EXCEPT ![s] = Fresh(@.holding)]
  /\ Goto(s, IF NextKind(kind[s]) = "partners" THEN "done" ELSE "begin")

Finish(s) ==
  /\ pc[s] = "finish"
  /\ UpdateJobStatus(s, CompletionColumns, CompletedRow(JobRow(s)))
  /\ NextJob(s)
  /\ UNCHANGED <<stg, nextId, odooVars, pending, acked, overlap, crashes>>

Fail(s) ==
  /\ pc[s] = "fail"
  /\ UpdateJobStatus(s, FailureColumns, [JobRow(s) EXCEPT !.status = "failed"])
  /\ NextJob(s)
  /\ UNCHANGED <<stg, nextId, odooVars, pending, acked, overlap, crashes>>

(* One step of the background work done for a session.                     *)
Step(s) ==
  \/ \E k \in Kinds : SaveJobRow(s, k)
  \/ Respond(s) \/ Begin(s) \/ List(s) \/ Nothing(s) \/ SetTotal(s) \/ NextPage(s)
  \/ LookupInvoice(s) \/ FindExisting(s) \/ Save(s) \/ Report(s)
  \/ Finish(s) \/ Fail(s)

(* The process dies: every session dies with it, wherever it was.          *)
Crash ==
  /\ crashes < MaxCrashes
  /\ \E s \in Sessions : Active(s) \/ pending[s] # {}
  /\ crashes' = crashes + 1
  /\ pc' = [s \in Sessions |-> IF Active(s) THEN "dead" ELSE pc[s]]
  /\ w' = [s \in Sessions |-> IF Active(s) THEN Fresh(w[s].holding) ELSE w[s]]
  /\ pending' = [s \in Sessions |-> {}]
  /\ UNCHANGED <<dbVars, odooVars, kind, acked, overlap, events, faults>>

(* Changes made in Odoo by its users; active sessions are told apart from  *)
(* those that saw none.                                                    *)
Befalls(e) ==
  /\ changes < MaxChanges
  /\ changes' = changes + 1
  /\ events' = [s \in Sessions |-> IF Active(s) THEN events[s] \cup {e} ELSE events[s]]

OdooPosts(i) ==
  /\ i \notin posted
  /\ posted' = posted \cup {i}
  /\ Befalls("posted")
  /\ UNCHANGED <<dbVars, ver, taskVars, acked, overlap, faults, crashes>>

OdooReverses(i) ==
  /\ i \in posted
  /\ posted' = posted \ {i}
  /\ Befalls("reversed")
  /\ UNCHANGED <<dbVars, ver, taskVars, acked, overlap, faults, crashes>>

OdooEdits(x) ==
  /\ ver' = [ver EXCEPT ![x] = @ + 1]
  /\ Befalls("edited")
  /\ UNCHANGED <<dbVars, posted, taskVars, acked, overlap, faults, crashes>>

Next ==
  \/ \E s \in Sessions : StartAsyncInvoiceSync(s) \/ Step(s)
  \/ Crash
  \/ \E i \in Invoices : OdooPosts(i) \/ OdooReverses(i)
  \/ \E x \in Keys : OdooEdits(x)

(* The event loop runs every continuation whose call has been answered.     *)
(* That every call is answered is assumed of the environment: fetch times   *)
(* out, but a query to PostgreSQL has no limit.                             *)
Fairness == \A s \in Sessions : WF_vars(Step(s))

Spec == Init /\ [][Next]_vars

FairSpec == Spec /\ Fairness
-----------------------------------------------------------------------------
(* Properties.                                                             *)

(* A client that was given job ids can poll all three: none of them is     *)
(* answered with "Job no encontrado", whatever fails later.                *)
AckedJobsExist ==
  \A s \in acked : \A k \in Kinds : log[<<s, k>>].status # "absent"

(* A staged line refers to a staged row of the very invoice it belongs to, *)
(* in its own holding: the dependency the three jobs are sequenced for.    *)
LineRefsInvoice ==
  \A l \in stg["lines"] : \E i \in stg["invoices"] :
     i.id = l.ref /\ i.key = MoveOf[l.key] /\ i.holding = l.holding

(* The find that precedes a save keeps a record from being staged twice,   *)
(* except by two sessions that were active at the same time.               *)
DuplicatesNeedOverlap ==
  \A k \in Kinds : \A q, r \in stg[k] :
     q # r /\ q.key = r.key /\ q.holding = r.holding => <<q.by, r.by>> \in overlap

(* A session only ever writes rows of the holding it was asked to sync:    *)
(* a row keeps its holding, and other holdings' rows are left as they are. *)
HoldingsIsolated ==
  [][\A s \in Sessions : Save(s) =>
       \A k \in Kinds : {r \in stg'[k] : r.holding # w[s].holding}
                      = {r \in stg[k] : r.holding # w[s].holding}]_vars

(* Data staged for a record never goes back to an older version of it      *)
(* unless two sessions of its holding overlapped.                          *)
NoStaleOverwrite ==
  [][\A k \in Kinds : \A q \in stg[k], r \in stg'[k] :
       q.id = r.id /\ r.ver < q.ver =>
         \E s, t \in Sessions :
           <<s, t>> \in overlap /\ w[s].holding = r.holding /\ w[t].holding = r.holding]_stg

StagedKeys(k, h) == {r.key : r \in {q \in stg[k] : q.holding = h}}

ScanComplete(s) ==
  pc[s] = "finish" /\ w[s].errs = 0 => w[s].ids \subseteq StagedKeys(kind[s], w[s].holding)

(* No two lines of the set belong to the same invoice. *)
Untied(ids) == \A l, m \in ids \cap Lines : MoveOf[l] = MoveOf[m] => l = m

(* A job about to report success without errors has staged every record    *)
(* that was in range when it counted them, even if more were posted while  *)
(* the scan was shifting under it; unless one left the range meanwhile, or *)
(* several lines share the key they are sorted by.                         *)
ScansCover ==
  \A s \in Sessions :
     (kind[s] = "invoices" => "reversed" \notin events[s]) /\ (kind[s] = "lines" => Untied(w[s].ids))
        => ScanComplete(s)

(* A session that met no failing call and no change in range counts no     *)
(* error: its partners, invoices and lines come in an order in which each  *)
(* finds what it depends on, also when other sessions write the same rows. *)
QuietSessionsHaveNoErrors ==
  \A s \in Sessions : events[s] \subseteq {"edited"} => w[s].errs = 0

(* What a poller reads agrees with itself, and never claims work the job   *)
(* has not done yet, however many progress updates were lost.              *)
LogNeverAheadOfWork ==
  \A s \in Sessions : pc[s] \in {"page", "lookup", "find", "save", "report", "finish", "fail"} =>
     /\ JL!Counted(JobRow(s))
     /\ JobRow(s).success <= w[s].saved /\ JobRow(s).failed <= w[s].errs

(* The percentage shown for a job never decreases, not even when more is   *)
(* processed than was counted: the scan re-reads the search at each page.  *)
ProgressNeverGoesBack ==
  [][\A j \in Jobs : JL!JobStatus(log'[j]).percentage >= JL!JobStatus(log[j]).percentage]_log

(* The rows of integration_logs evolve as module JobLog promises. *)
ImplementsJobLog == JL!Spec

(* The staging tables change as module Staging promises: find and save,    *)
(* with all that may come between, amount to one step as long as no other  *)
(* session of the holding is active; and if one is, no row or reference is *)
(* lost.                                                                   *)
ImplementsStaging == ST!Spec

(* A job that threw has the status "failed" once its error was handled.    *)
FailureRecorded ==
  [][\A s \in Sessions : pc[s] = "fail" /\ pc'[s] \in {"begin", "done"} =>
        log'[<<s, kind[s]>>].status = "failed"]_vars

(* A started session runs its three jobs to the end whatever fails in them, *)
(* unless the process dies.                                                *)
SessionsEnd == \A s \in Sessions : s \in acked ~> pc[s] \in {"done", "dead"}

(* The jobs of a session in which no call failed all end up completed.     *)
QuietSessionsComplete ==
  \A s \in Sessions :
     s \in acked ~> \/ \A k \in Kinds : log[<<s, k>>].status = "completed"
                    \/ "fault" \in events[s]
                    \/ pc[s] = "dead"
=============================================================================
