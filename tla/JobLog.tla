------------------------------- MODULE JobLog -------------------------------
(***************************************************************************)
(* The table integration_logs as a client that polls it may see it: one    *)
(* row per synchronisation job, read through POST                          *)
(* /odoo/invoices/job-status.  This is the abstract specification that the *)
(* asynchronous synchronisation (module OdooSync) implements.  It says     *)
(* nothing of how a job works, only how its row may evolve:                *)
(*   - the row is created once, running and with all its counters at zero; *)
(*   - its total is fixed at most once, before anything was counted;       *)
(*   - its counters then only grow, and stay consistent with each other;   *)
(*   - it may be completed, and nothing changes after that.                *)
(***************************************************************************)
EXTENDS Naturals

CONSTANT JobIds      \* identifiers of the rows (uuid in the code)

VARIABLE rows       \* rows[j] is the row of job j

Status == {"absent", "running", "completed", "failed"}

Row == [status : Status, total : Nat, processed : Nat, success : Nat, failed : Nat]

NoLog  == [status |-> "absent",  total |-> 0, processed |-> 0, success |-> 0, failed |-> 0]
NewLog == [status |-> "running", total |-> 0, processed |-> 0, success |-> 0, failed |-> 0]

(* The counters of a row agree with one another. *)
Counted(row) == row.processed = row.success + row.failed

JobLogTypeOK == rows \in [JobIds -> Row]
-----------------------------------------------------------------------------
Init == rows = [j \in JobIds |-> NoLog]

Create(j) ==
  /\ rows[j].status = "absent"
  /\ rows' = [rows EXCEPT ![j] = NewLog]

FixTotal(j, n) ==
  /\ n \in Nat
  /\ rows[j].status = "running" /\ rows[j].total = 0 /\ rows[j].processed = 0
  /\ rows' = [rows EXCEPT ![j].total = n]

Advance(j, ok, ko) ==
  /\ ok \in Nat /\ ko \in Nat
  /\ rows[j].status = "running"
  /\ ok >= rows[j].success /\ ko >= rows[j].failed
  /\ rows' = [rows EXCEPT ![j].processed = ok + ko, ![j].success = ok, ![j].failed = ko]

Complete(j) ==
  /\ rows[j].status = "running"
  /\ rows' = [rows EXCEPT ![j].status = "completed"]

(* The existentials range over Nat; TLC only ever checks this relation on  *)
(* steps of the implementation, so the witnesses are read off the new row. *)
Next ==
  \E j \in JobIds :
    \/ Create(j)
    \/ Complete(j)
    \/ FixTotal(j, rows'[j].total)
    \/ Advance(j, rows'[j].success, rows'[j].failed)

Spec == Init /\ [][Next]_rows
-----------------------------------------------------------------------------
(* Math.round of a quotient x/y is floor(x/y + 1/2); quotients here are     *)
(* exact.                                                                   *)
Rounded(x, y) == (2 * x + y) \div (2 * y)

MutPercentage(row) ==
  IF row.status = "completed" THEN 100
  ELSE IF row.total = 0 THEN 0
  ELSE Rounded(100 * row.processed, row.total)
(* calculateProgressPercentage. *)
Percentage(row) ==
  IF row.status = "completed" THEN 100
  ELSE IF row.total = 0 THEN 0
  ELSE LET p == Rounded(100 * row.processed, row.total)
       IN  IF p > 100 THEN 100 ELSE p

(* getJobStatus: what the client is told of a row.                          *)
JobStatus(row) ==
  [status |-> row.status, processed |-> row.processed, success |-> row.success,
   failed |-> row.failed, percentage |-> Percentage(row)]
=============================================================================
