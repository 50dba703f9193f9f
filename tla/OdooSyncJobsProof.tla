------------------------- MODULE OdooSyncJobsProof -------------------------
(***************************************************************************)
(* Proofs about the jobs.  The rows of integration_logs: a job that was    *)
(* acknowledged has its row, a row never runs ahead of the work done, and  *)
(* the rows evolve as module JobLog says.  The scans: a job that ends      *)
(* without errors has staged what it listed, and one that is left in peace *)
(* has none.                                                               *)
(***************************************************************************)
EXTENDS OdooSyncProof

(* How far the rows of integration_logs may be from the work done. *)
Later(k) ==
  CASE k = "partners" -> {"invoices", "lines"} [] k = "invoices" -> {"lines"} [] k = "lines" -> {}

Working == {"begin", "list", "nothing", "total", "page", "lookup", "find", "save",
            "report", "finish", "fail"}

RowsCreated(s) ==
  /\ \A k \in pending[s] : log[<<s, k>>] = JL!NoLog
  /\ pc[s] = "idle" => pending[s] = {} /\ \A k \in Kinds : log[<<s, k>>] = JL!NoLog
  /\ pc[s] = "creating" => s \notin acked /\ \A k \in Kinds \ pending[s] : log[<<s, k>>] = JL!NewLog
  /\ s \in acked => pending[s] = {} /\ \A k \in Kinds : log[<<s, k>>].status # "absent"
  /\ pc[s] \in Working => s \in acked /\ \A k \in Later(kind[s]) : log[<<s, k>>] = JL!NewLog

RowBehindWork(s) ==
  /\ pc[s] \in {"begin", "list", "nothing", "total"} => JobRow(s) = JL!NewLog
  /\ pc[s] \in {"page", "lookup", "find", "save", "report", "fail"} => JobRow(s).status = "running"
  /\ pc[s] = "finish" => JobRow(s).status \in {"running", "completed"}
  /\ pc[s] \in Working =>
       /\ JL!Counted(JobRow(s))
       /\ JobRow(s).success <= w[s].saved /\ JobRow(s).failed <= w[s].errs

LogInv == \A s \in Sessions : RowsCreated(s) /\ RowBehindWork(s)

-----------------------------------------------------------------------------
(* What a call of updateJobStatus leaves behind. *)
LEMMA OneRowWritten ==
  ASSUME NEW s \in Sessions, NEW columns, NEW row, UpdateJobStatus(s, columns, row)
  PROVE  log' = log \/ log' = [log EXCEPT ![<<s, kind[s]>>] = row]
  BY DEF UpdateJobStatus

(* updateJobStatus writes no row but the one of the job in hand. *)
LEMMA OtherRowsKept ==
  ASSUME TypeOK, NEW s \in Sessions, NEW row,
         log' = log \/ log' = [log EXCEPT ![<<s, kind[s]>>] = row]
  PROVE  /\ \A t \in Sessions, k \in Kinds : t # s \/ k # kind[s] => log'[<<t, k>>] = log[<<t, k>>]
         /\ log'[<<s, kind[s]>>] \in {log[<<s, kind[s]>>], row}
  BY DEF TypeOK, Jobs

(* A session that no step touches keeps its part of the invariant. *)
LEMMA LogFrame ==
  ASSUME TypeOK, NEW t \in Sessions, RowsCreated(t), RowBehindWork(t),
         pc'[t] = pc[t], kind'[t] = kind[t], w'[t] = w[t], pending'[t] = pending[t],
         t \in acked' <=> t \in acked,
         \A k \in Kinds : log'[<<t, k>>] = log[<<t, k>>]
  PROVE  RowsCreated(t)' /\ RowBehindWork(t)'
  <1>1. kind[t] \in Kinds /\ pending[t] \subseteq Kinds
    BY DEF TypeOK
  <1>2. Later(kind[t]) \subseteq Kinds
    BY <1>1 DEF Later, Kinds
  <1> QED BY <1>1, <1>2 DEF RowsCreated, RowBehindWork, JobRow, JL!Counted

(* A step of a working session that stays in its job. *)
LEMMA WorkingStep ==
  ASSUME TypeOK, LogInv, NEW s \in Sessions, pc[s] \in Working,
         NEW row, row.status # "absent",
         log' = log \/ log' = [log EXCEPT ![<<s, kind[s]>>] = row],
         NEW label \in Working, pc' = [pc EXCEPT ![s] = label],
         NEW l, w' = [w EXCEPT ![s] = l],
         UNCHANGED <<kind, pending, acked>>,
         RowBehindWork(s)'
  PROVE  LogInv'
  <1>1. ASSUME NEW t \in Sessions, t # s PROVE RowsCreated(t)' /\ RowBehindWork(t)'
    <2>1. \A k \in Kinds : log'[<<t, k>>] = log[<<t, k>>]
      BY <1>1, OtherRowsKept
    <2>2. pc'[t] = pc[t] /\ w'[t] = w[t]
      BY <1>1 DEF TypeOK
    <2> QED BY <2>1, <2>2, LogFrame DEF LogInv
  <1>2. RowsCreated(s)'
    <2>1. kind[s] \in Kinds /\ pc'[s] = label /\ label \notin {"idle", "creating"}
      BY DEF TypeOK, Working
    <2>2. s \in acked /\ pending[s] = {} /\ \A k \in Later(kind[s]) : log[<<s, k>>] = JL!NewLog
      BY DEF LogInv, RowsCreated
    <2>3. Later(kind[s]) \subseteq Kinds \ {kind[s]}
      BY <2>1 DEF Later, Kinds
    <2>4. \A k \in Kinds : k # kind[s] => log'[<<s, k>>] = log[<<s, k>>]
      BY OtherRowsKept
    <2>5. log'[<<s, kind[s]>>] \in {log[<<s, kind[s]>>], row}
      BY OtherRowsKept
    <2>6. \A k \in Kinds : log[<<s, k>>].status # "absent"
      BY <2>2 DEF LogInv, RowsCreated
    <2> QED BY <2>1, <2>2, <2>3, <2>4, <2>5, <2>6 DEF RowsCreated
  <1> QED BY <1>1, <1>2 DEF LogInv

(* The row of the job a session is in, after a call of updateJobStatus. *)
LEMMA JobRowAfter ==
  ASSUME TypeOK, NEW s \in Sessions, NEW columns, NEW row, UpdateJobStatus(s, columns, row),
         kind' = kind
  PROVE  JobRow(s)' \in {JobRow(s), row}
  BY OneRowWritten, OtherRowsKept DEF JobRow

(* A row just created counts nothing, and its counters agree. *)
LEMMA NewRow ==
  /\ JL!Counted(JL!NewLog) /\ JL!NewLog.status = "running"
  /\ JL!NewLog.success = 0 /\ JL!NewLog.failed = 0
  /\ [JL!NewLog EXCEPT !.status = "running"] = JL!NewLog
  BY DEF JL!NewLog, JL!Counted

(* A step that only moves a session on and touches no row. *)
LEMMA SilentStep ==
  ASSUME TypeInv, LogInv, NEW s \in Sessions, pc[s] \in Working,
         NEW label \in Working, pc' = [pc EXCEPT ![s] = label],
         NEW l \in Local, w' = [w EXCEPT ![s] = l],
         l.saved >= w[s].saved, l.errs >= w[s].errs,
         UNCHANGED <<log, kind, pending, acked>>,
         label \in {"nothing", "total"} => pc[s] = "list",
         label \notin {"begin", "list"},
         label \in {"page", "lookup", "find", "save", "report", "fail"} =>
           pc[s] \in {"list", "page", "lookup", "find", "save", "report", "fail"},
         label = "finish" => pc[s] \in {"list", "page"}
  PROVE  LogInv'
  <1>1. JobRow(s)' = JobRow(s) /\ JobRow(s).status # "absent" /\ pc'[s] = label /\ w'[s] = l
    BY NewRow DEF TypeInv, TypeOK, JobRow, LogInv, RowsCreated
  <1>2. w[s].saved \in Nat /\ w[s].errs \in Nat /\ l.saved \in Nat /\ l.errs \in Nat
        /\ JobRow(s) \in JL!Row
    BY RowTypes DEF TypeInv, TypeOK, Local
  <1>3. RowBehindWork(s)
    BY DEF LogInv
  <1>4. RowBehindWork(s)'
    BY <1>1, <1>2, <1>3, NewRow DEF RowBehindWork, Working, JL!Counted, JL!Row
  <1> QED BY <1>1, <1>4, WorkingStep DEF TypeInv

(* Every step keeps the invariant of the log, action by action. *)
LEMMA LogStep == TypeInv /\ LogInv /\ [Next]_vars => LogInv'
  <1> SUFFICES ASSUME TypeInv, LogInv, [Next]_vars PROVE LogInv'
    OBVIOUS
  <1> USE DEF TypeInv
  <1>1. ASSUME NEW s \in Sessions, StartAsyncInvoiceSync(s) PROVE LogInv'
    <2>1. ASSUME NEW t \in Sessions, t # s PROVE RowsCreated(t)' /\ RowBehindWork(t)'
      BY <1>1, <2>1, LogFrame DEF StartAsyncInvoiceSync, TypeOK, Goto, LogInv, dbVars
    <2>2. RowsCreated(s)' /\ RowBehindWork(s)'
      BY <1>1 DEF StartAsyncInvoiceSync, TypeOK, Goto, LogInv, RowsCreated, RowBehindWork,
                  Working, Kinds, JL!NoLog, dbVars
    <2> QED BY <2>1, <2>2 DEF LogInv
  <1>2. ASSUME NEW s \in Sessions, NEW k \in Kinds, SaveJobRow(s, k) PROVE LogInv'
    <2>1. ASSUME NEW t \in Sessions, t # s PROVE RowsCreated(t)' /\ RowBehindWork(t)'
      <3>1. pc'[t] = pc[t] /\ pending'[t] = pending[t] /\ \A m \in Kinds : log'[<<t, m>>] = log[<<t, m>>]
        BY <1>2, <2>1 DEF SaveJobRow, TypeOK, Goto, Jobs
      <3> QED BY <1>2, <3>1, LogFrame DEF SaveJobRow, LogInv
    <2>2. pc[s] \notin Working /\ s \notin acked
      BY <1>2 DEF SaveJobRow, LogInv, RowsCreated
    <2>3. /\ pending'[s] = pending[s] \ {k} /\ k \in pending[s]
          /\ acked' = acked
          /\ \A m \in Kinds \ {k} : log'[<<s, m>>] = log[<<s, m>>]
          /\ \/ pc'[s] = pc[s] /\ log'[<<s, k>>] = JL!NewLog
             \/ pc'[s] = "rejected"
      BY <1>2 DEF SaveJobRow, TypeOK, Goto, Jobs
    <2>4. pc[s] # "idle"
      BY <2>3 DEF LogInv, RowsCreated
    <2>5. RowsCreated(s)' /\ RowBehindWork(s)'
      BY <2>2, <2>3, <2>4 DEF LogInv, RowsCreated, RowBehindWork, Working, TypeOK
    <2> QED BY <2>1, <2>5 DEF LogInv
  <1>3. ASSUME NEW s \in Sessions, Respond(s) PROVE LogInv'
    <2>1. ASSUME NEW t \in Sessions, t # s PROVE RowsCreated(t)' /\ RowBehindWork(t)'
      BY <1>3, <2>1, LogFrame DEF Respond, TypeOK, Goto, LogInv, dbVars
    <2>2. \A k \in Kinds : log[<<s, k>>] = JL!NewLog
      BY <1>3 DEF Respond, AllSaved, LogInv, RowsCreated
    <2>3. pc'[s] = "begin" /\ kind'[s] = "partners" /\ pending'[s] = {} /\ s \in acked'
          /\ log' = log /\ w' = w
      BY <1>3 DEF Respond, AllSaved, TypeOK, Goto, dbVars
    <2>4. w[s].saved \in Nat /\ w[s].errs \in Nat
      BY DEF TypeOK, Local
    <2>5. RowsCreated(s)'
      BY <2>2, <2>3, NewRow DEF RowsCreated, Later, Kinds
    <2>6. RowBehindWork(s)'
      BY <2>2, <2>3, <2>4, NewRow DEF RowBehindWork, JobRow, Kinds
    <2> QED BY <2>1, <2>5, <2>6 DEF LogInv
  <1> DEFINE Numbers(s) == w[s].saved \in Nat /\ w[s].errs \in Nat /\ JobRow(s) \in JL!Row
  <1>num. ASSUME NEW s \in Sessions PROVE Numbers(s) /\ w[s] \in Local
    BY RowTypes DEF TypeOK, Local
  <1>4. ASSUME NEW s \in Sessions, Begin(s) PROVE LogInv'
    <2> DEFINE row == [JobRow(s) EXCEPT !.status = "running"]
    <2>1. JobRow(s) = JL!NewLog /\ row = JL!NewLog
      BY <1>4, NewRow DEF Begin, LogInv, RowBehindWork
    <2>2. JobRow(s)' = JL!NewLog
      BY <1>4, <2>1, JobRowAfter DEF Begin
    <2>3. RowBehindWork(s)'
      BY <1>4, <2>2, <1>num, NewRow DEF Begin, TypeOK, Goto, RowBehindWork
    <2>4. log' = log \/ log' = [log EXCEPT ![<<s, kind[s]>>] = row]
      BY <1>4, OneRowWritten DEF Begin
    <2>5. w' = [w EXCEPT ![s] = w[s]] /\ pc' = [pc EXCEPT ![s] = "list"]
      BY <1>4 DEF Begin, TypeOK, Goto
    <2>6. UNCHANGED <<kind, pending, acked>> /\ pc[s] \in Working /\ row.status # "absent"
      BY <1>4, <2>1, NewRow DEF Begin, Working
    <2> QED BY <2>3, <2>4, <2>5, <2>6, WorkingStep DEF Working
  <1>5. ASSUME NEW s \in Sessions, List(s) PROVE LogInv'
    <2>1. WithList(w[s], kind[s]) \in Local /\ WithList(w[s], kind[s]).saved = w[s].saved
          /\ WithList(w[s], kind[s]).errs = w[s].errs
      BY <1>num, WithListType DEF TypeOK
    <2>2. PICK label \in {"fail", "finish", "nothing", "total"} : pc' = [pc EXCEPT ![s] = label]
      BY <1>5 DEF List, Goto
    <2>3. PICK l \in {w[s], WithList(w[s], kind[s])} : w' = [w EXCEPT ![s] = l]
      BY <1>5 DEF List, TypeOK
    <2>4. l \in Local /\ l.saved >= w[s].saved /\ l.errs >= w[s].errs
      BY <2>1, <1>num
    <2>5. UNCHANGED <<log, kind, pending, acked>> /\ pc[s] = "list" /\ pc[s] \in Working
      BY <1>5 DEF List, dbVars, Working
    <2>6. label \in Working /\ label \notin {"begin", "list", "page", "lookup", "find", "save", "report"}
      BY DEF Working
    <2> QED BY <2>2, <2>3, <2>4, <2>5, <2>6, SilentStep
  <1>6. ASSUME NEW s \in Sessions, Nothing(s) PROVE LogInv'
    <2> DEFINE row == [CompletedRow(JobRow(s)) EXCEPT !.total = 0]
    <2>1. JobRow(s) = JL!NewLog
      BY <1>6 DEF Nothing, LogInv, RowBehindWork
    <2>2. row.status = "completed" /\ row.success = 0 /\ row.failed = 0 /\ row.processed = 0
      BY <2>1 DEF CompletedRow, JL!NewLog
    <2>3. JobRow(s)' \in {JL!NewLog, row}
      BY <1>6, <2>1, JobRowAfter DEF Nothing
    <2>4. RowBehindWork(s)'
      <3>1. w'[s] = w[s] /\ pc'[s] = "finish"
        BY <1>6 DEF Nothing, TypeOK, Goto
      <3>2. JL!Counted(row)
        BY <2>2 DEF JL!Counted
      <3>3. 0 <= w[s].saved /\ 0 <= w[s].errs
        BY <1>num
      <3> HIDE DEF row
      <3>4. CASE JobRow(s)' = JL!NewLog
        BY <3>1, <3>3, <3>4, NewRow DEF RowBehindWork
      <3>5. CASE JobRow(s)' = row
        BY <2>2, <3>1, <3>2, <3>3, <3>5 DEF RowBehindWork
      <3> QED BY <2>3, <3>4, <3>5
    <2>5. log' = log \/ log' = [log EXCEPT ![<<s, kind[s]>>] = row]
      BY <1>6, OneRowWritten DEF Nothing
    <2>6. w' = [w EXCEPT ![s] = w[s]] /\ pc' = [pc EXCEPT ![s] = "finish"]
      BY <1>6 DEF Nothing, TypeOK, Goto
    <2> QED BY <1>6, <2>2, <2>4, <2>5, <2>6, WorkingStep DEF Nothing, Working
  <1>7. ASSUME NEW s \in Sessions, SetTotal(s) PROVE LogInv'
    <2> DEFINE row == [JobRow(s) EXCEPT !.status = "running", !.total = Cardinality(w[s].ids)]
    <2>1. JobRow(s) = JL!NewLog
      BY <1>7 DEF SetTotal, LogInv, RowBehindWork
    <2>2. row.status = "running" /\ row.success = 0 /\ row.failed = 0 /\ row.processed = 0
      BY <2>1 DEF JL!NewLog
    <2>3. JobRow(s)' \in {JL!NewLog, row}
      BY <1>7, <2>1, JobRowAfter DEF SetTotal
    <2>4. RowBehindWork(s)'
      <3>1. w'[s] = w[s] /\ pc'[s] = "page"
        BY <1>7 DEF SetTotal, TypeOK, Goto
      <3>2. JL!Counted(row)
        BY <2>2 DEF JL!Counted
      <3>3. 0 <= w[s].saved /\ 0 <= w[s].errs
        BY <1>num
      <3> HIDE DEF row
      <3>4. CASE JobRow(s)' = JL!NewLog
        BY <3>1, <3>3, <3>4, NewRow DEF RowBehindWork
      <3>5. CASE JobRow(s)' = row
        BY <2>2, <3>1, <3>2, <3>3, <3>5 DEF RowBehindWork
      <3> QED BY <2>3, <3>4, <3>5
    <2>5. log' = log \/ log' = [log EXCEPT ![<<s, kind[s]>>] = row]
      BY <1>7, OneRowWritten DEF SetTotal
    <2>6. w' = [w EXCEPT ![s] = w[s]] /\ pc' = [pc EXCEPT ![s] = "page"]
      BY <1>7 DEF SetTotal, TypeOK, Goto
    <2> QED BY <1>7, <2>2, <2>4, <2>5, <2>6, WorkingStep DEF SetTotal, Working
  <1>8. ASSUME NEW s \in Sessions, NextPage(s) PROVE LogInv'
    <2>1. PICK label \in {"finish", "fail", "lookup", "find"} : pc' = [pc EXCEPT ![s] = label]
      BY <1>8 DEF NextPage, Goto
    <2>2. PICK l : w' = [w EXCEPT ![s] = l] /\ (l = w[s] \/ \E x \in NextItems(s) : l = WithItem(w[s], x))
      BY <1>8 DEF NextPage, TypeOK
    <2>3. \A x \in NextItems(s) : x \in Keys
      BY NextItemsRecords, RecordsAreKeys DEF TypeOK
    <2>4. l \in Local /\ l.saved >= w[s].saved /\ l.errs >= w[s].errs
      BY <2>2, <2>3, <1>num, WithItemType
    <2>5. UNCHANGED <<log, kind, pending, acked>> /\ pc[s] = "page" /\ pc[s] \in Working
      BY <1>8 DEF NextPage, dbVars, Working
    <2>6. label \in Working /\ label \notin {"begin", "list", "nothing", "total"}
      BY DEF Working
    <2> QED BY <2>1, <2>2, <2>4, <2>5, <2>6, SilentStep
  (* One more record saved or in error, or neither. *)
  <1>9. ASSUME NEW s \in Sessions
        PROVE  \A l \in {w[s], [w[s] EXCEPT !.saved = @ + 1], [w[s] EXCEPT !.errs = @ + 1]} :
                 l \in Local /\ l.saved >= w[s].saved /\ l.errs >= w[s].errs
    <2>1. /\ [w[s] EXCEPT !.saved = @ + 1] \in Local /\ [w[s] EXCEPT !.errs = @ + 1] \in Local
          /\ w[s].saved + 1 >= w[s].saved /\ w[s].errs + 1 >= w[s].errs
      BY <1>num, LocalUpdate
    <2> QED BY <2>1, <1>num DEF Local
  <1>10. ASSUME NEW s \in Sessions, LookupInvoice(s) PROVE LogInv'
    <2>1. PICK label \in {"find", "report"} : pc' = [pc EXCEPT ![s] = label]
      BY <1>10 DEF LookupInvoice, CountError, Goto
    <2> DEFINE Kept(l) == l \in Local /\ l.saved >= w[s].saved /\ l.errs >= w[s].errs
    <2>2. \E l : w' = [w EXCEPT ![s] = l] /\ Kept(l)
      <3>1. CASE CountError(s)
        BY <3>1, <1>9 DEF CountError
      <3>2. ASSUME NEW r, r \in Found(Matches("invoices", MoveOf[w[s].item], w[s].holding)),
                   w' = [w EXCEPT ![s].ref = StagingId(r)]
            PROVE  \E l : w' = [w EXCEPT ![s] = l] /\ Kept(l)
        <4>1. StagingId(r) \in Nat \cup {NoRow}
          BY <3>2, FoundType DEF StagingId, StgRow, Kinds
        <4>2. [w[s] EXCEPT !.ref = StagingId(r)] \in Local
          BY <4>1, <1>num, LocalUpdate
        <4> DEFINE l == [w[s] EXCEPT !.ref = StagingId(r)]
        <4>3. l.saved = w[s].saved /\ l.errs = w[s].errs
          BY <1>num DEF Local
        <4>4. w' = [w EXCEPT ![s] = l]
          BY <3>2
        <4>5. Kept(l)
          BY <4>2, <4>3, <1>num
        <4> QED BY <4>4, <4>5
      <3> QED BY <1>10, <3>1, <3>2 DEF LookupInvoice
    <2> PICK l : w' = [w EXCEPT ![s] = l] /\ Kept(l)
      BY <2>2
    <2>3. UNCHANGED <<log, kind, pending, acked>> /\ pc[s] = "lookup" /\ pc[s] \in Working
      BY <1>10 DEF LookupInvoice, dbVars, Working
    <2>4. label \in Working
      BY DEF Working
    <2> QED BY <2>1, <2>2, <2>3, <2>4, SilentStep
  <1>11. ASSUME NEW s \in Sessions, FindExisting(s) PROVE LogInv'
    <2>1. PICK label \in {"save", "report"} : pc' = [pc EXCEPT ![s] = label]
      BY <1>11 DEF FindExisting, CountError, Goto
    <2> DEFINE Kept(l) == l \in Local /\ l.saved >= w[s].saved /\ l.errs >= w[s].errs
    <2>2. \E l : w' = [w EXCEPT ![s] = l] /\ Kept(l)
      <3>1. CASE CountError(s)
        BY <3>1, <1>9 DEF CountError
      <3>2. ASSUME NEW r, r \in Found(Matches(kind[s], w[s].item, w[s].holding)),
                   w' = [w EXCEPT ![s].row = r]
            PROVE  \E l : w' = [w EXCEPT ![s] = l] /\ Kept(l)
        <4>1. [w[s] EXCEPT !.row = r] \in Local
          BY <3>2, FoundType, <1>num, LocalUpdate DEF TypeOK
        <4> DEFINE l == [w[s] EXCEPT !.row = r]
        <4>2. l.saved = w[s].saved /\ l.errs = w[s].errs
          BY <1>num DEF Local
        <4>3. w' = [w EXCEPT ![s] = l]
          BY <3>2
        <4>4. Kept(l)
          BY <4>1, <4>2, <1>num
        <4> QED BY <4>3, <4>4
      <3> QED BY <1>11, <3>1, <3>2 DEF FindExisting
    <2> PICK l : w' = [w EXCEPT ![s] = l] /\ Kept(l)
      BY <2>2
    <2>3. UNCHANGED <<log, kind, pending, acked>> /\ pc[s] = "find" /\ pc[s] \in Working
      BY <1>11 DEF FindExisting, dbVars, Working
    <2>4. label \in Working
      BY DEF Working
    <2> QED BY <2>1, <2>2, <2>3, <2>4, SilentStep
  <1>12. ASSUME NEW s \in Sessions, Save(s) PROVE LogInv'
    <2>1. pc' = [pc EXCEPT ![s] = "report"]
      BY <1>12 DEF Save, CountError, Goto
    <2>2. PICK l \in {[w[s] EXCEPT !.saved = @ + 1], [w[s] EXCEPT !.errs = @ + 1]} :
                w' = [w EXCEPT ![s] = l]
      BY <1>12 DEF Save, CountError
    <2>3. UNCHANGED <<log, kind, pending, acked>> /\ pc[s] = "save" /\ pc[s] \in Working
      BY <1>12 DEF Save, Working
    <2> QED BY <2>1, <2>2, <2>3, <1>9, SilentStep DEF Working
  <1>13. ASSUME NEW s \in Sessions, Report(s) PROVE LogInv'
    <2> DEFINE row == [ReportedRow(JobRow(s), w[s]) EXCEPT !.status = "running"]
               l == WithoutItem(w[s])
    <2>1. l.saved = w[s].saved /\ l.errs = w[s].errs
      BY <1>num, WithoutItemType
    <2>2. /\ row.status = "running" /\ row.success = w[s].saved /\ row.failed = w[s].errs
          /\ JL!Counted(row)
      BY <1>num DEF ReportedRow, JL!Row, JL!Counted
    <2>3. w' = [w EXCEPT ![s] = l] /\ pc' = [pc EXCEPT ![s] = "page"]
      BY <1>13 DEF Report, Goto
    <2>4. JobRow(s)' \in {JobRow(s), row}
      BY <1>13, JobRowAfter DEF Report
    <2>5. JobRow(s).status = "running" /\ JL!Counted(JobRow(s))
          /\ JobRow(s).success <= w[s].saved /\ JobRow(s).failed <= w[s].errs
      BY <1>13 DEF Report, LogInv, RowBehindWork, Working
    <2> HIDE DEF row, l
    <2>6. RowBehindWork(s)'
      <3>1. w'[s] = l /\ pc'[s] = "page"
        BY <2>3 DEF TypeOK
      <3>2. CASE JobRow(s)' = JobRow(s)
        BY <2>1, <2>5, <3>1, <3>2 DEF RowBehindWork
      <3>3. CASE JobRow(s)' = row
        BY <2>1, <2>2, <3>1, <3>3, <1>num DEF RowBehindWork
      <3> QED BY <2>4, <3>2, <3>3
    <2>7. log' = log \/ log' = [log EXCEPT ![<<s, kind[s]>>] = row]
      BY <1>13, OneRowWritten DEF Report, row
    <2> QED BY <1>13, <2>2, <2>3, <2>6, <2>7, WorkingStep DEF Report, Working
  (* The end of a job: the next one has a new row. *)
  <1>14. ASSUME NEW s \in Sessions, pc[s] \in {"finish", "fail"}, NextJob(s), NEW row,
                row.status # "absent",
                log' = log \/ log' = [log EXCEPT ![<<s, kind[s]>>] = row],
                UNCHANGED <<pending, acked>>
         PROVE  LogInv'
    <2>1. ASSUME NEW t \in Sessions, t # s PROVE RowsCreated(t)' /\ RowBehindWork(t)'
      <3>1. \A k \in Kinds : log'[<<t, k>>] = log[<<t, k>>]
        BY <1>14, <2>1, OtherRowsKept
      <3>2. kind'[t] = kind[t] /\ w'[t] = w[t] /\ pc'[t] = pc[t]
        BY <1>14, <2>1 DEF NextJob, TypeOK, Goto
      <3> QED BY <1>14, <3>1, <3>2, LogFrame DEF LogInv
    <2>2. kind[s] \in Kinds /\ pc[s] \in Working
      BY <1>14 DEF TypeOK, Working
    <2>3. /\ s \in acked /\ pending[s] = {} /\ \A k \in Kinds : log[<<s, k>>].status # "absent"
          /\ \A k \in Later(kind[s]) : log[<<s, k>>] = JL!NewLog
      BY <2>2 DEF LogInv, RowsCreated
    <2>4. \A k \in Kinds : log'[<<s, k>>].status # "absent"
      <3>1. log'[<<s, kind[s]>>].status # "absent"
        BY <1>14, <2>2, <2>3, OtherRowsKept
      <3>2. \A k \in Kinds : k # kind[s] => log'[<<s, k>>] = log[<<s, k>>]
        BY <1>14, OtherRowsKept
      <3> QED BY <2>3, <3>1, <3>2
    <2>5. \A k \in Later(kind[s]) : log'[<<s, k>>] = JL!NewLog
      BY <1>14, <2>2, <2>3, OtherRowsKept DEF Later, Kinds
    <2>6. /\ kind'[s] = NextKind(kind[s]) /\ w'[s] = Fresh(w[s].holding)
          /\ pc'[s] = IF kind'[s] = "partners" THEN "done" ELSE "begin"
      BY <1>14 DEF NextJob, TypeOK, Goto
    <2>7. kind'[s] # "partners" => kind'[s] \in Later(kind[s]) /\ Later(kind'[s]) \subseteq Later(kind[s])
      BY <2>2, <2>6 DEF NextKind, Later, Kinds
    <2>8. RowsCreated(s)'
      BY <1>14, <2>3, <2>4, <2>5, <2>6, <2>7 DEF RowsCreated, Working
    <2>9. RowBehindWork(s)'
      <3>1. CASE kind'[s] = "partners"
        BY <2>6, <3>1 DEF RowBehindWork, Working
      <3>2. CASE kind'[s] # "partners"
        <4>1. JobRow(s)' = JL!NewLog /\ pc'[s] = "begin" /\ w'[s].saved = 0 /\ w'[s].errs = 0
          BY <2>5, <2>6, <2>7, <3>2 DEF JobRow, Fresh
        <4> QED BY <4>1, NewRow DEF RowBehindWork
      <3> QED BY <3>1, <3>2
    <2> QED BY <2>1, <2>8, <2>9 DEF LogInv
  <1>15. ASSUME NEW s \in Sessions, Finish(s) PROVE LogInv'
    <2>1. CompletedRow(JobRow(s)).status # "absent"
      BY <1>num DEF CompletedRow, JL!Row
    <2> QED BY <1>14, <1>15, <2>1, OneRowWritten DEF Finish
  <1>16. ASSUME NEW s \in Sessions, Fail(s) PROVE LogInv'
    <2>1. [JobRow(s) EXCEPT !.status = "failed"].status # "absent"
      BY <1>num DEF JL!Row
    <2>2. log' = log \/ log' = [log EXCEPT ![<<s, kind[s]>>] = [JobRow(s) EXCEPT !.status = "failed"]]
      BY <1>16, OneRowWritten DEF Fail
    <2> QED BY <1>14, <1>16, <2>1, <2>2 DEF Fail
  <1>17. CASE Crash
    <2>1. ASSUME NEW t \in Sessions, ~ Active(t) PROVE RowsCreated(t)' /\ RowBehindWork(t)'
      BY <1>17, <2>1 DEF Crash, Active, TypeOK, LogInv, RowsCreated, RowBehindWork, Working, dbVars
    <2>2. ASSUME NEW t \in Sessions, Active(t) PROVE RowsCreated(t)' /\ RowBehindWork(t)'
      BY <1>17, <2>2 DEF Crash, Active, TypeOK, LogInv, RowsCreated, RowBehindWork, Working, dbVars
    <2> QED BY <2>1, <2>2 DEF LogInv
  <1>18. CASE UNCHANGED <<log, pc, kind, w, pending, acked>>
    BY <1>18, LogFrame DEF LogInv
  <1> QED
    BY <1>1, <1>2, <1>3, <1>4, <1>5, <1>6, <1>7, <1>8, <1>10, <1>11, <1>12, <1>13, <1>15, <1>16,
       <1>17, <1>18
    DEF Next, Step, OdooPosts, OdooReverses, OdooEdits, dbVars, taskVars, vars
-----------------------------------------------------------------------------
(* Types and the invariant of the log hold throughout. *)
LEMMA LogInvariant == Spec => [](TypeInv /\ LogInv)
  <1>1. Init => TypeInv
    BY TypeInit
  <1>2. Init => LogInv
    <2>1. ASSUME Init, NEW s \in Sessions, NEW k \in Kinds PROVE log[<<s, k>>] = JL!NoLog
      BY <2>1 DEF Init, Jobs
    <2> QED BY <2>1 DEF Init, LogInv, RowsCreated, RowBehindWork, Working, Kinds
  <1> QED BY <1>1, <1>2, TypeStep, LogStep, PTL DEF Spec

(* A client that was given job ids can poll all three of them.             *)
THEOREM JobsExist == Spec => []AckedJobsExist
  <1>1. TypeInv /\ LogInv => AckedJobsExist
    BY DEF TypeInv, TypeOK, LogInv, RowsCreated, AckedJobsExist
  <1> QED BY <1>1, LogInvariant, PTL

(* The counters of a row agree and never claim work that was not done.     *)
THEOREM LogBehindWork == Spec => []LogNeverAheadOfWork
  <1>1. LogInv => LogNeverAheadOfWork
    BY DEF LogInv, RowBehindWork, LogNeverAheadOfWork, Working
  <1> QED BY <1>1, LogInvariant, PTL

(* Every step of a session writes its row as module JobLog allows. *)
LEMMA LogRefines == TypeInv /\ LogInv /\ [Next]_vars => [JL!Next]_log
  <1> SUFFICES ASSUME TypeInv, LogInv, [Next]_vars PROVE [JL!Next]_log
    OBVIOUS
  <1>1. log \in [Jobs -> JL!Row]
    BY DEF TypeInv, TypeOK
  <1>2. ASSUME NEW s \in Sessions PROVE <<s, kind[s]>> \in Jobs /\ JobRow(s) = log[<<s, kind[s]>>]
    BY DEF TypeInv, TypeOK, Jobs, JobRow
  <1>3. ASSUME NEW s \in Sessions, NEW k \in Kinds, SaveJobRow(s, k) PROVE [JL!Next]_log
    <2>1. <<s, k>> \in Jobs /\ log[<<s, k>>] = JL!NoLog
      BY <1>3 DEF SaveJobRow, Jobs, LogInv, RowsCreated
    <2>2. CASE log' = [log EXCEPT ![<<s, k>>] = JL!NewLog]
      <3>1. JL!Create(<<s, k>>)
        <4>1. log[<<s, k>>].status = "absent"
          BY <2>1 DEF JL!NoLog
        <4> QED BY <2>2, <4>1 DEF JL!Create
      <3> QED BY <2>1, <3>1 DEF JL!Next
    <2> QED BY <1>3, <2>2 DEF SaveJobRow
  <1>4. ASSUME NEW s \in Sessions, Begin(s) PROVE UNCHANGED log
    <2>1. JobRow(s) = JL!NewLog
      BY <1>4 DEF Begin, LogInv, RowBehindWork
    <2>2. log' = log \/ log' = [log EXCEPT ![<<s, kind[s]>>] = [JobRow(s) EXCEPT !.status = "running"]]
      BY <1>4, OneRowWritten DEF Begin
    <2> QED BY <1>1, <1>2, <2>1, <2>2, NewRow
  <1>5. ASSUME NEW s \in Sessions, Nothing(s) PROVE [JL!Next]_log
    <2> DEFINE j == <<s, kind[s]>>
               row == [CompletedRow(JobRow(s)) EXCEPT !.total = 0]
    <2>1. log[j] = JL!NewLog
      BY <1>2, <1>5 DEF Nothing, LogInv, RowBehindWork
    <2>2. row = [log[j] EXCEPT !.status = "completed"]
      <3>1. CompletedRow(JL!NewLog).total = 0 /\ CompletedRow(JL!NewLog) \in JL!Row
        BY DEF CompletedRow, JL!NewLog, JL!Row, JL!Status
      <3>2. [CompletedRow(JL!NewLog) EXCEPT !.total = 0] = CompletedRow(JL!NewLog)
        BY <3>1 DEF JL!Row
      <3> QED BY <1>2, <2>1, <3>2 DEF CompletedRow
    <2>3. log' = log \/ log' = [log EXCEPT ![j] = row]
      BY <1>5, OneRowWritten DEF Nothing
    <2>4. log' = [log EXCEPT ![j] = row] => JL!Complete(j)
      BY <2>1, <2>2, NewRow DEF JL!Complete
    <2> QED BY <1>2, <2>3, <2>4 DEF JL!Next
  <1>6. ASSUME NEW s \in Sessions, SetTotal(s) PROVE [JL!Next]_log
    <2> DEFINE j == <<s, kind[s]>>
               n == Cardinality(w[s].ids)
               row == [JobRow(s) EXCEPT !.status = "running", !.total = n]
    <2>1. log[j] = JL!NewLog
      BY <1>2, <1>6 DEF SetTotal, LogInv, RowBehindWork
    <2>2. row = [log[j] EXCEPT !.total = n] /\ row.total = n
      <3>1. [JL!NewLog EXCEPT !.status = "running", !.total = n] = [JL!NewLog EXCEPT !.total = n]
        BY NewRow
      <3>2. [JL!NewLog EXCEPT !.total = n].total = n
        BY DEF JL!NewLog
      <3> QED BY <1>2, <2>1, <3>1, <3>2
    <2>3. log' = log \/ log' = [log EXCEPT ![j] = row]
      BY <1>6, OneRowWritten DEF SetTotal
    <2>4. n \in Nat
      BY CountType DEF TypeInv, TypeOK, Local
    <2> HIDE DEF n
    <2>5. ASSUME log' = [log EXCEPT ![j] = row] PROVE JL!FixTotal(j, log'[j].total)
      <3>1. log'[j].total = n
        BY <1>1, <1>2, <2>2, <2>5
      <3>2. log[j].status = "running" /\ log[j].total = 0 /\ log[j].processed = 0
        BY <2>1 DEF JL!NewLog
      <3>3. log' = [log EXCEPT ![j].total = n]
        BY <2>2, <2>5
      <3> QED BY <2>4, <3>1, <3>2, <3>3 DEF JL!FixTotal
    <2> QED BY <1>2, <2>3, <2>5 DEF JL!Next
  <1>7. ASSUME NEW s \in Sessions, Report(s) PROVE [JL!Next]_log
    <2> DEFINE j == <<s, kind[s]>>
               row == [ReportedRow(JobRow(s), w[s]) EXCEPT !.status = "running"]
    <2>1. /\ log[j].status = "running" /\ log[j] \in JL!Row
          /\ log[j].success <= w[s].saved /\ log[j].failed <= w[s].errs
      BY <1>1, <1>2, <1>7 DEF Report, LogInv, RowBehindWork, Working
    <2>2. w[s].saved \in Nat /\ w[s].errs \in Nat
      BY DEF TypeInv, TypeOK, Local
    <2>3. row = [log[j] EXCEPT !.processed = w[s].saved + w[s].errs, !.success = w[s].saved,
                               !.failed = w[s].errs]
      BY <1>2, <2>1 DEF ReportedRow, JL!Row
    <2>4. row.success = w[s].saved /\ row.failed = w[s].errs
      BY <2>1, <2>3 DEF JL!Row
    <2>5. log' = log \/ log' = [log EXCEPT ![j] = row]
      BY <1>7, OneRowWritten DEF Report
    <2> HIDE DEF row
    <2>6. ASSUME log' = [log EXCEPT ![j] = row]
          PROVE  JL!Advance(j, log'[j].success, log'[j].failed)
      <3>1. log'[j] = row
        BY <1>1, <1>2, <2>6
      <3> QED BY <2>1, <2>2, <2>3, <2>4, <2>6, <3>1, ZenonT(40) DEF JL!Advance, JL!Row
    <2> QED BY <1>2, <2>5, <2>6 DEF JL!Next
  <1>8. ASSUME NEW s \in Sessions, Finish(s) PROVE [JL!Next]_log
    <2> DEFINE j == <<s, kind[s]>>
    <2>1. log[j].status \in {"running", "completed"} /\ log[j] \in JL!Row
      BY <1>1, <1>2, <1>8 DEF Finish, LogInv, RowBehindWork
    <2>2. log' = log \/ log' = [log EXCEPT ![j] = [log[j] EXCEPT !.status = "completed"]]
      BY <1>2, <1>8, OneRowWritten DEF Finish, CompletedRow
    <2>3. CASE log[j].status = "completed"
      <3>1. [log[j] EXCEPT !.status = "completed"] = log[j]
        BY <2>1, <2>3 DEF JL!Row
      <3> QED BY <1>1, <1>2, <2>2, <3>1
    <2>4. CASE log[j].status = "running"
      BY <1>2, <2>2, <2>4 DEF JL!Next, JL!Complete
    <2> QED BY <2>1, <2>3, <2>4
  (* The update of a failed job names columns the table has not. *)
  <1>9. ASSUME NEW s \in Sessions, Fail(s) PROVE UNCHANGED log
    BY <1>9 DEF Fail, UpdateJobStatus, FailureColumns, Columns
  <1>10. ASSUME NEW s \in Sessions,
                StartAsyncInvoiceSync(s) \/ Respond(s) \/ List(s) \/ NextPage(s) \/ LookupInvoice(s)
                \/ FindExisting(s) \/ Save(s)
         PROVE  UNCHANGED log
    BY <1>10 DEF StartAsyncInvoiceSync, Respond, List, NextPage, LookupInvoice, FindExisting, Save, dbVars
  <1>11. ASSUME Crash \/ (\E i \in Invoices : OdooPosts(i) \/ OdooReverses(i))
                \/ (\E x \in Keys : OdooEdits(x)) \/ UNCHANGED vars
         PROVE  UNCHANGED log
    BY <1>11 DEF Crash, OdooPosts, OdooReverses, OdooEdits, dbVars, vars
  <1> QED BY <1>3, <1>4, <1>5, <1>6, <1>7, <1>8, <1>9, <1>10, <1>11 DEF Next, Step

(* The rows of integration_logs evolve as module JobLog promises.          *)
THEOREM JobLogImplemented == Spec => ImplementsJobLog
  <1>1. Init => JL!Init
    BY DEF Init, JL!Init
  <1> QED BY <1>1, LogInvariant, LogRefines, PTL DEF Spec, ImplementsJobLog, JL!Spec

JLP == INSTANCE JobLogProof WITH JobIds <- Jobs, rows <- log

(* So the percentage shown for a job never decreases.                      *)
THEOREM ProgressGrows == Spec => ProgressNeverGoesBack
  <1>1. JL!Spec => JLP!Spec
    <2>1. JL!Init => JLP!Init
      BY DEF JL!Init, JLP!Init, JL!NoLog, JLP!NoLog
    <2>2. [JL!Next]_log => [JLP!Next]_log
      BY DEF JL!Next, JLP!Next, JL!Create, JLP!Create, JL!NewLog, JLP!NewLog, JL!Complete,
             JLP!Complete, JL!FixTotal, JLP!FixTotal, JL!Advance, JLP!Advance
    <2> QED BY <2>1, <2>2, PTL DEF JL!Spec, JLP!Spec
  <1>2. (\A j \in Jobs : JLP!Percentage(log'[j]) >= JLP!Percentage(log[j]))
          => \A j \in Jobs : JL!JobStatus(log'[j]).percentage >= JL!JobStatus(log[j]).percentage
    BY DEF JL!JobStatus, JL!Percentage, JLP!Percentage, JL!Rounded, JLP!Rounded
  <1>3. JLP!Spec => [][\A j \in Jobs : JLP!Percentage(log'[j]) >= JLP!Percentage(log[j])]_log
    BY JLP!ProgressMonotone
  <1> QED BY <1>1, <1>2, <1>3, JobLogImplemented, PTL DEF ImplementsJobLog, ProgressNeverGoesBack
-----------------------------------------------------------------------------
(* Scans of Odoo: what a page of one record finds, and what a job that     *)
(* went through its pages has staged.                                      *)

(* The records that a scan comes to before x. *)
Before(S, key, x) == {y \in S : key[y] > key[x]}

Rank(S, key, x) == Cardinality(Before(S, key, x))

(* Each record has a key of its own. *)
Sorted(S, key) ==
  IsFiniteSet(S) /\ (\A x \in S : key[x] \in Nat) /\ \A x, y \in S : key[x] = key[y] => x = y

(* A set of numbers that is not empty has a least one. *)
LEMMA LeastNumber ==
  ASSUME NEW S \in SUBSET Nat, S # {}
  PROVE  \E m \in S : \A n \in S : m <= n
  <1>1. \E m \in S : \A n \in S : ~ (<<n, m>> \in OpToRel(<, Nat))
    BY NatLessThanWellFounded, WFMin
  <1>2. \A m \in Nat, n \in Nat : n < m => <<n, m>> \in OpToRel(<, Nat)
    <2> SUFFICES ASSUME NEW m \in Nat, NEW n \in Nat, n < m PROVE <<n, m>> \in OpToRel(<, Nat)
      OBVIOUS
    <2> DEFINE p == <<n, m>>
    <2>1. p \in Nat \X Nat /\ p[1] < p[2]
      OBVIOUS
    <2> HIDE DEF p
    <2>2. p \in OpToRel(<, Nat)
      BY <2>1, Zenon DEF OpToRel
    <2> QED BY <2>2 DEF p
  <1>3. \E m \in S : \A n \in S : ~ (n < m)
    BY <1>1, <1>2, Zenon
  <1> QED BY <1>3

(* Records that are added never bring a record nearer. *)
LEMMA RankGrows ==
  ASSUME NEW T, IsFiniteSet(T), NEW S \in SUBSET T, NEW key, NEW x
  PROVE  Rank(S, key, x) \in Nat /\ Rank(T, key, x) \in Nat /\ Rank(S, key, x) <= Rank(T, key, x)
  <1>1. Before(S, key, x) \subseteq Before(T, key, x) /\ Before(T, key, x) \subseteq T
    BY DEF Before
  <1>2. IsFiniteSet(Before(T, key, x)) /\ IsFiniteSet(Before(S, key, x))
    BY <1>1, FS_Subset
  <1> QED BY <1>1, <1>2, FS_Subset, FS_CardinalityType DEF Rank

(* What precedes a record, and the record. *)
LEMMA RankNext ==
  ASSUME NEW S, NEW key, Sorted(S, key), NEW x \in S
  PROVE  Cardinality({y \in S : key[y] >= key[x]}) = Rank(S, key, x) + 1
  <1>1. {y \in S : key[y] >= key[x]} = Before(S, key, x) \cup {x}
    BY DEF Sorted, Before
  <1>2. IsFiniteSet(Before(S, key, x))
    BY FS_Subset DEF Sorted, Before
  <1>3. x \notin Before(S, key, x)
    BY DEF Sorted, Before
  <1> QED BY <1>1, <1>2, <1>3, FS_AddElement DEF Rank

(* A record is further off than those before it. *)
LEMMA RankOrder ==
  ASSUME NEW S, NEW key, Sorted(S, key), NEW x \in S, NEW y \in Before(S, key, x)
  PROVE  Rank(S, key, y) < Rank(S, key, x)
  <1>1. y \in S /\ key[y] > key[x]
    BY DEF Before
  <1>2. {z \in S : key[z] >= key[y]} \subseteq Before(S, key, x)
    BY <1>1 DEF Sorted, Before
  <1>3. IsFiniteSet(Before(S, key, x))
    BY FS_Subset DEF Sorted, Before
  <1>4. Rank(S, key, y) + 1 <= Rank(S, key, x)
    <2>1. Cardinality({z \in S : key[z] >= key[y]}) = Rank(S, key, y) + 1
      BY <1>1, RankNext
    <2>2. Cardinality({z \in S : key[z] >= key[y]}) <= Cardinality(Before(S, key, x))
      BY <1>2, <1>3, FS_Subset
    <2> QED BY <2>1, <2>2 DEF Rank
  <1>5. Rank(S, key, y) \in Nat /\ Rank(S, key, x) \in Nat
    BY RankGrows DEF Sorted
  <1> QED BY <1>4, <1>5

(* No two records are equally far. *)
LEMMA RankOnce ==
  ASSUME NEW S, NEW key, Sorted(S, key), NEW x \in S, NEW y \in S, x # y
  PROVE  Rank(S, key, x) # Rank(S, key, y)
  <1>1. x \in Before(S, key, y) \/ y \in Before(S, key, x)
    BY DEF Sorted, Before
  <1>2. Rank(S, key, y) \in Nat /\ Rank(S, key, x) \in Nat
    BY RankGrows DEF Sorted
  <1> QED BY <1>1, <1>2, RankOrder

(* The page at an offset is the record that is as far as that. *)
LEMMA PageIsRank ==
  ASSUME NEW S, NEW key, Sorted(S, key), NEW o \in Nat, NEW x \in S
  PROVE  x \in PageAt(S, key, o) <=> Rank(S, key, x) = o
  <1>1. Rank(S, key, x) \in Nat
    BY RankGrows DEF Sorted
  <1>2. x \in PageAt(S, key, o) <=> Rank(S, key, x) <= o /\ o < Rank(S, key, x) + 1
    BY RankNext DEF PageAt, Rank, Before
  <1> QED BY <1>1, <1>2

(* As long as a record is still to come the page is not empty. *)
LEMMA PageFound ==
  ASSUME NEW S, NEW key, Sorted(S, key), NEW o \in Nat, NEW x \in S, Rank(S, key, x) >= o
  PROVE  PageAt(S, key, o) # {}
  <1> DEFINE Rest == {y \in S : Rank(S, key, y) >= o}
             Ranks == {Rank(S, key, y) : y \in Rest}
  <1>1. \A y \in S : Rank(S, key, y) \in Nat
    BY RankGrows DEF Sorted
  <1>2. Ranks \in SUBSET Nat /\ Ranks # {}
    BY <1>1
  <1>3. PICK m \in Ranks : \A n \in Ranks : m <= n
    <2> HIDE DEF Ranks
    <2> QED BY <1>2, LeastNumber
  <1>4. PICK z \in Rest : m = Rank(S, key, z)
    BY <1>3
  <1>5. z \in S /\ Rank(S, key, z) >= o /\ \A y \in Rest : Rank(S, key, z) <= Rank(S, key, y)
    BY <1>3, <1>4
  <1> HIDE DEF Rest, Ranks
  <1>6. Rank(S, key, z) = o
    <2> SUFFICES ASSUME Rank(S, key, z) # o PROVE FALSE
      OBVIOUS
    <2>1. Before(S, key, z) # {}
      BY <1>1, <1>5, FS_EmptySet DEF Rank
    <2> DEFINE Above == {key[y] : y \in Before(S, key, z)}
    <2>2. Above \in SUBSET Nat /\ Above # {}
      BY <2>1 DEF Before, Sorted
    <2>3. PICK m0 \in Above : \A n \in Above : m0 <= n
      <3> HIDE DEF Above
      <3> QED BY <2>2, LeastNumber
    <2>4. PICK y \in Before(S, key, z) : m0 = key[y]
      BY <2>3
    <2>5. \A v \in Before(S, key, z) : key[y] <= key[v]
      BY <2>3, <2>4
    <2>6. y \in S /\ key[y] > key[z]
      BY DEF Before
    <2>7. {v \in S : key[v] >= key[y]} = Before(S, key, z)
      BY <1>5, <2>5, <2>6 DEF Before, Sorted
    <2>8. Rank(S, key, z) = Rank(S, key, y) + 1
      BY <2>6, <2>7, RankNext DEF Rank
    <2>9. y \in Rest /\ Rank(S, key, y) < Rank(S, key, z)
      BY <1>1, <1>5, <2>6, <2>8 DEF Rest
    <2> QED BY <1>1, <1>5, <2>6, <2>9
  <1> QED BY <1>5, <1>6, PageIsRank
-----------------------------------------------------------------------------
(* What a scan has still to come to, while the set that it is a scan of    *)
(* only grows.                                                             *)
Scanning == {"nothing", "total", "page", "lookup", "find", "save", "report", "finish"}

Ahead(s) == w[s].offset + IF pc[s] \in HandStates \cup {"report"} THEN 1 ELSE 0

ToCome(s, x) ==
  CASE kind[s] = "partners" -> x \in w[s].todo
    [] kind[s] = "invoices" -> Rank(posted, InvoiceId, x) >= Ahead(s)
    [] kind[s] = "lines"    -> Rank(w[s].ids, MoveOf, x) >= Ahead(s)

(* The hypothesis of ScansCover. *)
Steady(s) ==
  (kind[s] = "invoices" => "reversed" \notin events[s]) /\ (kind[s] = "lines" => Untied(w[s].ids))

Covers(s) ==
  Steady(s) /\ pc[s] \in Scanning /\ w[s].errs = 0 =>
    /\ kind[s] = "invoices" => w[s].ids \subseteq posted
    /\ \A x \in w[s].ids :
         \/ x \in KeysIn(stg[kind[s]], w[s].holding)
         \/ pc[s] # "finish" /\ ToCome(s, x)
         \/ pc[s] \in HandStates /\ x = w[s].item

AtStart(s) ==
  /\ pc[s] \in {"idle", "creating", "begin", "list", "nothing", "total"} => w[s].offset = 0
  /\ pc[s] = "nothing" => w[s].ids = {}

(* What a session relies on that is left in peace. *)
InPeace(s) ==
  events[s] \subseteq {"edited"} =>
    /\ w[s].errs = 0 /\ pc[s] # "fail"
    /\ kind[s] = "invoices" /\ pc[s] \in Scanning => w[s].ids = posted
    /\ kind[s] = "lines" /\ pc[s] \in Working =>
         /\ posted \subseteq KeysIn(stg["invoices"], w[s].holding)
         /\ \A l \in w[s].ids : MoveOf[l] \in posted
         /\ pc[s] \in HandStates => w[s].item \in w[s].ids
         /\ pc[s] \in {"find", "save"} => w[s].ref # NoRow

Scans(s) == Covers(s) /\ AtStart(s) /\ InPeace(s)

ScanInv == \A s \in Sessions : Scans(s)
-----------------------------------------------------------------------------
(* What befell a session is not forgotten, and a failing call befalls it. *)
LEMMA EventsGrow ==
  ASSUME TypeInv, [Next]_vars
  PROVE  \A t \in Sessions : events[t] \subseteq events'[t]
  <1>1. events \in [Sessions -> SUBSET Event]
    BY DEF TypeInv, TypeOK
  <1> DEFINE Told == UNCHANGED events \/ (\E s \in Sessions : Fault(s)) \/ \E e : Befalls(e)
  <1>a. ASSUME NEW s \in Sessions, StartAsyncInvoiceSync(s) \/ Step(s) PROVE Told
    BY <1>a DEF Step, StartAsyncInvoiceSync, SaveJobRow, Respond, Begin, List, Nothing, SetTotal,
                NextPage, LookupInvoice, FindExisting, Save, Report, Finish, Fail, UpdateJobStatus, NoFault
  <1>2. Told
    BY <1>a DEF Next, Crash, OdooPosts, OdooReverses, OdooEdits, vars
  <1> QED BY <1>1, <1>2 DEF Fault, Befalls

(* A session that a step leaves alone. *)
LEMMA ScanFrame ==
  ASSUME TypeInv, RowsInv, [Next]_vars, NEW t \in Sessions, Scans(t),
         pc'[t] = pc[t], kind'[t] = kind[t], w'[t] = w[t], posted' = posted
  PROVE  Scans(t)'
  <1>1. events[t] \subseteq events'[t]
    BY EventsGrow
  <1>2. kind[t] \in Kinds /\ "invoices" \in Kinds
    BY DEF TypeInv, TypeOK, Kinds
  <1>3. \A k \in Kinds : \A h : KeysIn(stg[k], h) \subseteq KeysIn(stg'[k], h)
    BY StagedGrows
  <1>4. Covers(t)'
    <2>1. Steady(t)' => Steady(t)
      BY <1>1 DEF Steady
    <2>2. \A x : ToCome(t, x)' <=> ToCome(t, x)
      BY DEF ToCome, Ahead
    <2> QED BY <1>2, <1>3, <2>1, <2>2 DEF Scans, Covers
  <1>5. AtStart(t)'
    BY DEF Scans, AtStart
  <1>6. InPeace(t)'
    BY <1>1, <1>2, <1>3 DEF Scans, InPeace
  <1> QED BY <1>4, <1>5, <1>6 DEF Scans

(* A step of one session leaves the others alone. *)
LEMMA OthersScan ==
  ASSUME TypeInv, RowsInv, ScanInv, NEW s \in Sessions, StartAsyncInvoiceSync(s) \/ Step(s)
  PROVE  \A t \in Sessions : t # s => Scans(t)'
  <1>1. [Next]_vars
    BY DEF Next
  <1>2. /\ posted' = posted
        /\ \A t \in Sessions : t # s => pc'[t] = pc[t] /\ kind'[t] = kind[t] /\ w'[t] = w[t]
    BY DEF TypeInv, TypeOK, Step, StartAsyncInvoiceSync, SaveJobRow, Respond, Begin, List, Nothing,
           SetTotal, NextPage, LookupInvoice, FindExisting, Save, CountError, Report, Finish, Fail,
           NextJob, Goto, dbVars, odooVars
  <1> QED BY <1>1, <1>2, ScanFrame DEF ScanInv

(* After a failing call nothing is asked of a job that counts an error, or *)
(* is over.                                                                *)
LEMMA FaultScan ==
  ASSUME TypeInv, NEW s \in Sessions, Fault(s), AtStart(s)', pc'[s] \notin Scanning \/ w'[s].errs # 0
  PROVE  Scans(s)'
  <1>1. "fault" \in events'[s]
    BY DEF Fault, TypeInv, TypeOK
  <1> QED BY <1>1 DEF Scans, Covers, InPeace

(* What the branches that end a job, or count an error, lead to. *)
LEMMA FaultCounted ==
  ASSUME TypeInv, NEW s \in Sessions, Fault(s), CountError(s)
  PROVE  Scans(s)'
  <1>1. w[s] \in Local /\ w \in [Sessions -> Local] /\ pc \in [Sessions -> Control]
    BY DEF TypeInv, TypeOK
  <1>2. w'[s] = [w[s] EXCEPT !.errs = @ + 1] /\ pc'[s] = "report"
    BY <1>1 DEF CountError, Goto
  <1>3. w'[s].errs # 0
    BY <1>1, <1>2 DEF Local
  <1>4. AtStart(s)'
    BY <1>2 DEF AtStart
  <1> QED BY <1>3, <1>4, FaultScan

(* The scans of invoices and of lines have an order. *)
LEMMA ScanOrder ==
  ASSUME TypeInv, NEW s \in Sessions
  PROVE  /\ Sorted(posted, InvoiceId)
         /\ kind[s] = "lines" /\ Untied(w[s].ids) => Sorted(w[s].ids, MoveOf)
  <1>1. posted \subseteq Invoices /\ \A i \in Invoices : InvoiceId[i] = i /\ i \in Nat
    BY DataAssumption DEF TypeInv, TypeOK, InvoiceId
  <1>2. Sorted(posted, InvoiceId)
    BY <1>1, DataAssumption, FS_Subset DEF Sorted
  <1>3. ASSUME kind[s] = "lines", Untied(w[s].ids) PROVE Sorted(w[s].ids, MoveOf)
    <2>1. w[s].ids \subseteq Lines
      BY <1>3 DEF TypeInv, HoldsRecords, Records
    <2>2. \A x \in w[s].ids : MoveOf[x] \in Nat
      BY <2>1, DataAssumption
    <2> QED BY <1>3, <2>1, <2>2, DataAssumption, FS_Subset DEF Sorted, Untied
  <1> QED BY <1>2, <1>3

(* A step within a job that keeps what is listed, and takes the scan no    *)
(* further.                                                                *)
LEMMA SameScan ==
  ASSUME TypeInv, RowsInv, [Next]_vars, NEW s \in Sessions, Scans(s),
         posted' = posted, kind' = kind,
         w'[s].ids = w[s].ids, w'[s].todo = w[s].todo, w'[s].errs = w[s].errs,
         w'[s].holding = w[s].holding,
         pc[s] \in Scanning, pc'[s] \in Scanning, pc[s] # "finish", pc'[s] \notin {"finish", "nothing"},
         w'[s].offset + (IF pc'[s] \in HandStates \cup {"report"} THEN 1 ELSE 0) = Ahead(s),
         pc'[s] = "total" => w'[s].offset = 0,
         pc[s] \in HandStates /\ w[s].item \in w[s].ids =>
           \/ pc'[s] \in HandStates /\ w'[s].item = w[s].item
           \/ w[s].item \in KeysIn(stg'[kind[s]], w[s].holding)
           \/ w[s].errs # 0,
         events[s] \subseteq {"edited"} /\ kind[s] = "lines" =>
           /\ pc'[s] \in HandStates => w'[s].item \in w[s].ids
           /\ pc'[s] \in {"find", "save"} => w'[s].ref # NoRow
  PROVE  Scans(s)'
  <1>1. events[s] \subseteq events'[s] /\ kind[s] \in Kinds /\ "invoices" \in Kinds
    BY EventsGrow DEF TypeInv, TypeOK, Kinds
  <1>2. \A k \in Kinds : \A h : KeysIn(stg[k], h) \subseteq KeysIn(stg'[k], h)
    BY StagedGrows
  <1>3. \A x : ToCome(s, x)' <=> ToCome(s, x)
    BY DEF ToCome, Ahead
  <1>4. Steady(s)' => Steady(s)
    BY <1>1 DEF Steady
  <1>5. Covers(s)'
    BY <1>1, <1>2, <1>3, <1>4 DEF Scans, Covers
  <1>6. AtStart(s)'
    BY DEF AtStart, Scanning
  <1>7. InPeace(s)'
    BY <1>1, <1>2 DEF Scans, InPeace, Scanning, Working
  <1> QED BY <1>5, <1>6, <1>7 DEF Scans

(* The steps of a session, each for the session itself. *)

(* Before a job lists anything, and once it is over. *)
LEMMA EdgeScan ==
  ASSUME TypeInv, RowsInv, ScanInv, NEW s \in Sessions,
         \/ StartAsyncInvoiceSync(s) \/ (\E k \in Kinds : SaveJobRow(s, k)) \/ Respond(s) \/ Begin(s)
         \/ Fail(s)
  PROVE  Scans(s)'
  <1>1. /\ w \in [Sessions -> Local] /\ pc \in [Sessions -> Control] /\ kind \in [Sessions -> Kinds]
        /\ Scans(s) /\ [Next]_vars
    BY DEF TypeInv, TypeOK, ScanInv, Next, Step
  <1>2. CASE StartAsyncInvoiceSync(s)
    BY <1>1, <1>2 DEF StartAsyncInvoiceSync, Goto, Scans, Covers, AtStart, InPeace, Scanning, Working
  <1>3. ASSUME NEW k \in Kinds, SaveJobRow(s, k) PROVE Scans(s)'
    <2>1. CASE UNCHANGED pc
      BY <1>1, <1>3, <2>1, ScanFrame DEF SaveJobRow, odooVars
    <2>2. CASE Fault(s) /\ Goto(s, "rejected")
      <3>1. pc'[s] = "rejected"
        BY <1>1, <2>2 DEF Goto
      <3> QED BY <2>2, <3>1, FaultScan DEF AtStart, Scanning
    <2> QED BY <1>3, <2>1, <2>2 DEF SaveJobRow
  <1>4. CASE Respond(s)
    BY <1>1, <1>4 DEF Respond, Goto, Scans, Covers, AtStart, InPeace, Scanning, Working
  <1>5. CASE Begin(s)
    <2>1. /\ pc[s] = "begin" /\ pc'[s] = "list" /\ UNCHANGED <<stg, posted, kind, w>>
          /\ events[s] \subseteq events'[s]
      BY <1>1, <1>5, EventsGrow DEF Begin, Goto, odooVars
    <2> QED BY <1>1, <2>1 DEF Scans, Covers, AtStart, InPeace, Scanning, Working, HandStates
  <1>6. CASE Fail(s)
    <2>1. /\ pc[s] = "fail" /\ pc'[s] \in {"done", "begin"} /\ w'[s] = Fresh(w[s].holding)
          /\ events[s] \subseteq events'[s]
      BY <1>1, <1>6, EventsGrow DEF Fail, NextJob, Goto
    <2> QED BY <1>1, <2>1 DEF Scans, Covers, AtStart, InPeace, Scanning, Fresh
  <1> QED BY <1>2, <1>3, <1>4, <1>5, <1>6

(* Listing: everything listed is still to come. *)
LEMMA ListScan ==
  ASSUME TypeInv, RowsInv, ScanInv, NEW s \in Sessions, List(s)
  PROVE  Scans(s)'
  <1>1. /\ w \in [Sessions -> Local] /\ w[s] \in Local /\ pc \in [Sessions -> Control] /\ kind[s] \in Kinds
        /\ Scans(s) /\ pc[s] = "list" /\ UNCHANGED <<stg, posted, kind>>
    BY DEF TypeInv, TypeOK, ScanInv, List, dbVars, odooVars
  <1>2. CASE Fault(s) /\ Goto(s, "fail")
    <2>1. pc'[s] = "fail"
      BY <1>1, <1>2 DEF Goto
    <2> QED BY <1>2, <2>1, FaultScan DEF AtStart, Scanning
  <1>3. CASE ~ (Fault(s) /\ Goto(s, "fail"))
    <2>1. /\ w'[s] = WithList(w[s], kind[s]) /\ events' = events
          /\ w'[s].ids = Listed(kind[s]) /\ w'[s].errs = w[s].errs /\ w'[s].holding = w[s].holding
      BY <1>1, <1>3, WithListType DEF List, NoFault, TypeInv
    <2>2. /\ w'[s].offset = w[s].offset /\ w[s].offset = 0
          /\ w'[s].todo = IF kind[s] = "partners" THEN Listed(kind[s]) ELSE {}
      BY <1>1, <2>1 DEF WithList, Local, Scans, AtStart
    <2>3. /\ pc'[s] \in {"finish", "nothing", "total"}
          /\ pc'[s] = "finish" => posted = {} /\ kind[s] # "invoices"
          /\ pc'[s] = "nothing" => kind[s] = "partners" /\ Listed(kind[s]) = {}
      BY <1>1, <1>3 DEF List, Goto
    <2>4. pc'[s] \in {"finish", "nothing"} => w'[s].ids = {}
      BY <1>1, <2>1, <2>3 DEF Listed, Kinds
    <2>5. Ahead(s)' = 0
      BY <2>2, <2>3 DEF Ahead, HandStates
    <2>6. ASSUME NEW x \in w'[s].ids PROVE ToCome(s, x)'
      <3>1. CASE kind[s] = "partners"
        BY <1>1, <2>1, <2>2, <2>6, <3>1 DEF ToCome
      <3>2. CASE kind[s] = "invoices"
        <4>1. Rank(posted, InvoiceId, x) \in Nat
          BY ScanOrder, RankGrows DEF Sorted
        <4> QED BY <1>1, <2>5, <3>2, <4>1 DEF ToCome
      <3>3. CASE kind[s] = "lines"
        <4>1. w'[s].ids \subseteq Lines
          BY <2>1, <3>3 DEF Listed
        <4>2. IsFiniteSet(w'[s].ids)
          BY <4>1, DataAssumption, FS_Subset
        <4>3. Rank(w'[s].ids, MoveOf, x) \in Nat
          BY <4>2, RankGrows
        <4> QED BY <1>1, <2>5, <3>3, <4>3 DEF ToCome
      <3> QED BY <1>1, <3>1, <3>2, <3>3 DEF Kinds
    <2>7. kind[s] = "invoices" => w'[s].ids = posted
      BY <2>1 DEF Listed
    <2>8. Covers(s)'
      BY <1>1, <2>4, <2>6, <2>7 DEF Covers
    <2>9. AtStart(s)'
      BY <2>2, <2>3, <2>4 DEF AtStart
    <2>10. InPeace(s)'
      <3>1. kind[s] = "lines" => \A l \in w'[s].ids : MoveOf[l] \in posted
        BY <2>1 DEF Listed
      <3> QED BY <1>1, <2>1, <2>3, <2>7, <3>1 DEF Scans, InPeace, Working, HandStates
    <2> QED BY <2>8, <2>9, <2>10 DEF Scans
  <1> QED BY <1>2, <1>3

(* The total that is reported takes the scan no further. *)
LEMMA TotalScan ==
  ASSUME TypeInv, RowsInv, ScanInv, NEW s \in Sessions, Nothing(s) \/ SetTotal(s)
  PROVE  Scans(s)'
  <1>1. /\ pc \in [Sessions -> Control] /\ Scans(s) /\ UNCHANGED <<stg, posted, kind, w>>
        /\ events[s] \subseteq events'[s] /\ [Next]_vars
    BY EventsGrow DEF TypeInv, TypeOK, ScanInv, Nothing, SetTotal, odooVars, Next, Step
  <1>2. CASE Nothing(s)
    <2>1. pc[s] = "nothing" /\ pc'[s] = "finish" /\ w[s].ids = {}
      BY <1>1, <1>2 DEF Nothing, Goto, Scans, AtStart
    <2> QED BY <1>1, <2>1 DEF Scans, Covers, AtStart, InPeace, Steady, Scanning, Working, HandStates
  <1>3. CASE SetTotal(s)
    <2>1. pc[s] = "total" /\ pc'[s] = "page"
      BY <1>1, <1>3 DEF SetTotal, Goto
    <2>2. w'[s].offset + 0 = Ahead(s) /\ pc[s] \notin HandStates /\ pc'[s] \notin HandStates \cup {"report"}
      BY <1>1, <2>1 DEF Ahead, HandStates
    <2> QED BY <1>1, <2>1, <2>2, SameScan DEF Scanning
  <1> QED BY <1>2, <1>3

(* Records that are still to come are on the next page, or on a later one. *)
LEMMA PageScan ==
  ASSUME TypeInv, RowsInv, ScanInv, NEW s \in Sessions, NextPage(s)
  PROVE  Scans(s)'
  <1>1. /\ w \in [Sessions -> Local] /\ w[s] \in Local /\ pc \in [Sessions -> Control] /\ kind[s] \in Kinds
        /\ Scans(s) /\ pc[s] = "page" /\ UNCHANGED <<stg, posted, kind>>
        /\ events[s] \subseteq events'[s]
    BY EventsGrow DEF TypeInv, TypeOK, ScanInv, NextPage, dbVars, odooVars, Next, Step
  <1>2. CASE Fault(s) /\ Goto(s, "fail")
    <2>1. pc'[s] = "fail"
      BY <1>1, <1>2 DEF Goto
    <2> QED BY <1>2, <2>1, FaultScan DEF AtStart, Scanning
  <1>3. w[s].offset \in Nat /\ Ahead(s) = w[s].offset
    BY <1>1 DEF Ahead, HandStates, Local
  <1>4. /\ Sorted(posted, InvoiceId)
        /\ kind[s] = "lines" /\ Steady(s) => Sorted(w[s].ids, MoveOf)
    BY ScanOrder DEF Steady
  <1>5. Steady(s)' /\ w'[s].ids = w[s].ids => Steady(s)
    BY <1>1 DEF Steady
  <1>6. CASE NextItems(s) = {} /\ UNCHANGED w /\ Goto(s, "finish")
    <2>1. pc'[s] = "finish" /\ w' = w
      BY <1>1, <1>6 DEF Goto
    <2>2. ASSUME Covers(s), Steady(s), w[s].errs = 0, NEW x \in w[s].ids
          PROVE  x \in KeysIn(stg[kind[s]], w[s].holding)
      <3> SUFFICES ASSUME ToCome(s, x) PROVE FALSE
        BY <1>1, <2>2 DEF Covers, Scanning, HandStates
      <3>1. CASE kind[s] = "partners"
        BY <1>6, <3>1 DEF ToCome, NextItems
      <3>2. CASE kind[s] = "invoices"
        <4>1. x \in posted /\ Rank(posted, InvoiceId, x) >= w[s].offset
          BY <1>1, <1>3, <2>2, <3>2 DEF ToCome, Covers, Scanning
        <4>2. PageAt(posted, InvoiceId, w[s].offset) = {}
          BY <1>6, <3>2 DEF NextItems
        <4> QED BY <1>3, <1>4, <4>1, <4>2, PageFound
      <3>3. CASE kind[s] = "lines"
        <4>1. Rank(w[s].ids, MoveOf, x) >= w[s].offset
          BY <1>3, <3>3 DEF ToCome
        <4>2. PageAt(w[s].ids, MoveOf, w[s].offset) = {}
          BY <1>6, <3>3 DEF NextItems
        <4> QED BY <1>3, <1>4, <2>2, <3>3, <4>1, <4>2, PageFound
      <3> QED BY <1>1, <3>1, <3>2, <3>3 DEF Kinds
    <2>3. Covers(s)'
      BY <1>1, <1>5, <2>1, <2>2 DEF Scans, Covers, Scanning
    <2>4. AtStart(s)' /\ InPeace(s)'
      BY <1>1, <2>1 DEF Scans, AtStart, InPeace, Scanning, Working, HandStates
    <2> QED BY <2>3, <2>4 DEF Scans
  <1>7. ASSUME NEW x \in NextItems(s), w' = [w EXCEPT ![s] = WithItem(w[s], x)],
               Goto(s, IF kind[s] = "lines" THEN "lookup" ELSE "find")
        PROVE  Scans(s)'
    <2>1. pc'[s] = IF kind[s] = "lines" THEN "lookup" ELSE "find"
      BY <1>1, <1>7 DEF Goto
    <2>2. x \in Keys /\ w'[s] = WithItem(w[s], x)
      BY <1>1, <1>7, NextItemsType DEF TypeInv
    <2>3. /\ w'[s].ids = w[s].ids /\ w'[s].item = x /\ w'[s].holding = w[s].holding
          /\ w'[s].errs = w[s].errs /\ w'[s].offset = w[s].offset /\ w'[s].todo = w[s].todo \ {x}
      BY <1>1, <2>2 DEF WithItem, Local
    <2>4. Ahead(s)' = w[s].offset + 1
      BY <2>1, <2>3 DEF Ahead, HandStates
    <2>5. ASSUME Covers(s), Steady(s), w[s].errs = 0, NEW y \in w[s].ids, ToCome(s, y)
          PROVE  ToCome(s, y)' \/ y = x
      <3>1. CASE kind[s] = "partners"
        BY <1>1, <2>3, <2>5, <3>1 DEF ToCome
      <3>2. CASE kind[s] = "invoices"
        <4>1. y \in posted /\ Rank(posted, InvoiceId, y) >= w[s].offset
          BY <1>1, <1>3, <2>5, <3>2 DEF ToCome, Covers, Scanning
        <4>2. x \in posted /\ x \in PageAt(posted, InvoiceId, w[s].offset)
          BY <1>7, <3>2 DEF NextItems, PageAt
        <4>3. Rank(posted, InvoiceId, x) = w[s].offset
          BY <1>3, <1>4, <4>2, PageIsRank
        <4>4. Rank(posted, InvoiceId, y) \in Nat
          BY <1>4, RankGrows DEF Sorted
        <4>5. y = x \/ Rank(posted, InvoiceId, y) >= w[s].offset + 1
          BY <1>3, <1>4, <4>1, <4>2, <4>3, <4>4, RankOnce
        <4> QED BY <1>1, <2>4, <3>2, <4>5 DEF ToCome
      <3>3. CASE kind[s] = "lines"
        <4>1. Rank(w[s].ids, MoveOf, y) >= w[s].offset /\ Sorted(w[s].ids, MoveOf)
          BY <1>3, <1>4, <2>5, <3>3 DEF ToCome
        <4>2. x \in w[s].ids /\ x \in PageAt(w[s].ids, MoveOf, w[s].offset)
          BY <1>7, <3>3 DEF NextItems, PageAt
        <4>3. Rank(w[s].ids, MoveOf, x) = w[s].offset
          BY <1>3, <4>1, <4>2, PageIsRank
        <4>4. Rank(w[s].ids, MoveOf, y) \in Nat
          BY <4>1, RankGrows DEF Sorted
        <4>5. y = x \/ Rank(w[s].ids, MoveOf, y) >= w[s].offset + 1
          BY <1>3, <4>1, <4>2, <4>3, <4>4, RankOnce
        <4> QED BY <1>1, <2>3, <2>4, <3>3, <4>5 DEF ToCome
      <3> QED BY <1>1, <3>1, <3>2, <3>3 DEF Kinds
    <2>6. Covers(s)'
      BY <1>1, <1>5, <2>1, <2>3, <2>5 DEF Scans, Covers, Scanning, HandStates
    <2>7. kind[s] = "lines" => x \in w[s].ids
      BY <1>7 DEF NextItems, PageAt
    <2>8. AtStart(s)' /\ InPeace(s)'
      BY <1>1, <2>1, <2>3, <2>7 DEF Scans, AtStart, InPeace, Scanning, Working, HandStates
    <2> QED BY <2>6, <2>8 DEF Scans
  <1> QED BY <1>2, <1>6, <1>7 DEF NextPage

(* The two queries before a save.  Left in peace, a line finds its invoice. *)
LEMMA QueryScan ==
  ASSUME TypeInv, RowsInv, ScanInv, NEW s \in Sessions, LookupInvoice(s) \/ FindExisting(s)
  PROVE  Scans(s)'
  <1>1. /\ w \in [Sessions -> Local] /\ w[s] \in Local /\ pc \in [Sessions -> Control] /\ kind[s] \in Kinds
        /\ Scans(s) /\ UNCHANGED <<stg, posted, kind>> /\ [Next]_vars /\ HoldsRecords(s)
        /\ stg \in [Kinds -> SUBSET StgRow] /\ "invoices" \in Kinds
    BY DEF TypeInv, TypeOK, ScanInv, LookupInvoice, FindExisting, dbVars, odooVars, Next, Step, Kinds
  <1>2. CASE Fault(s) /\ CountError(s)
    BY <1>2, FaultCounted
  (* What a step within the three keeps. *)
  <1>3. ASSUME NEW l, w' = [w EXCEPT ![s] = l], pc[s] \in HandStates, pc'[s] \in {"find", "save"},
               l.ids = w[s].ids, l.todo = w[s].todo, l.errs = w[s].errs, l.holding = w[s].holding,
               l.offset = w[s].offset, l.item = w[s].item,
               events[s] \subseteq {"edited"} /\ kind[s] = "lines" => l.ref # NoRow
        PROVE  Scans(s)'
    <2>1. w'[s] = l
      BY <1>1, <1>3
    <2>2. w'[s].offset + (IF pc'[s] \in HandStates \cup {"report"} THEN 1 ELSE 0) = Ahead(s)
      BY <1>1, <1>3, <2>1 DEF Ahead, HandStates
    <2>3. events[s] \subseteq {"edited"} /\ kind[s] = "lines" => w[s].item \in w[s].ids
      BY <1>1, <1>3 DEF Scans, InPeace, HandStates, Working
    <2> QED BY <1>1, <1>3, <2>1, <2>2, <2>3, SameScan DEF Scanning, HandStates
  <1>4. ASSUME LookupInvoice(s), NoFault,
               NEW r \in Found(Matches("invoices", MoveOf[w[s].item], w[s].holding)),
               w' = [w EXCEPT ![s].ref = StagingId(r)], Goto(s, "find")
        PROVE  Scans(s)'
    <2> DEFINE l == [w[s] EXCEPT !.ref = StagingId(r)]
    <2>1. /\ w' = [w EXCEPT ![s] = l] /\ pc[s] = "lookup" /\ pc'[s] = "find" /\ l.ref = StagingId(r)
          /\ l.ids = w[s].ids /\ l.todo = w[s].todo /\ l.errs = w[s].errs /\ l.holding = w[s].holding
          /\ l.offset = w[s].offset /\ l.item = w[s].item
      BY <1>1, <1>4 DEF LookupInvoice, Goto, Local
    <2>2. ASSUME events[s] \subseteq {"edited"}, kind[s] = "lines" PROVE StagingId(r) # NoRow
      <3>1. /\ posted \subseteq KeysIn(stg["invoices"], w[s].holding)
            /\ w[s].item \in w[s].ids /\ MoveOf[w[s].item] \in posted
        BY <1>1, <2>1, <2>2 DEF Scans, InPeace, HandStates, Working
      <3>2. Matches("invoices", MoveOf[w[s].item], w[s].holding) # {}
        BY <3>1 DEF KeysIn, Matches
      <3>3. r \in StgRow
        BY <1>1, <1>4, <3>2 DEF Found, Matches
      <3> QED BY <3>3, NoRowAssumption DEF StagingId, StgRow
    <2> HIDE DEF l
    <2> QED BY <1>3, <2>1, <2>2 DEF HandStates
  <1>5. ASSUME FindExisting(s), NoFault,
               NEW r \in Found(Matches(kind[s], w[s].item, w[s].holding)),
               IF r = NoRow /\ kind[s] = "lines" /\ w[s].ref = NoRow
               THEN CountError(s)
               ELSE w' = [w EXCEPT ![s].row = r] /\ Goto(s, "save")
        PROVE  Scans(s)'
    <2>1. CASE r = NoRow /\ kind[s] = "lines" /\ w[s].ref = NoRow
      <3>1. /\ pc[s] = "find" /\ pc'[s] = "report" /\ w'[s] = [w[s] EXCEPT !.errs = @ + 1]
            /\ events' = events
        BY <1>1, <1>5, <2>1 DEF FindExisting, CountError, Goto, NoFault
      <3>2. ~ (events[s] \subseteq {"edited"})
        BY <1>1, <2>1, <3>1 DEF Scans, InPeace, Working
      <3>3. w'[s].errs # 0
        BY <1>1, <3>1 DEF Local
      <3> QED BY <3>1, <3>2, <3>3 DEF Scans, Covers, AtStart, InPeace
    <2>2. CASE ~ (r = NoRow /\ kind[s] = "lines" /\ w[s].ref = NoRow)
      <3> DEFINE l == [w[s] EXCEPT !.row = r]
      <3>1. /\ w' = [w EXCEPT ![s] = l] /\ pc[s] = "find" /\ pc'[s] = "save" /\ l.ref = w[s].ref
            /\ l.ids = w[s].ids /\ l.todo = w[s].todo /\ l.errs = w[s].errs /\ l.holding = w[s].holding
            /\ l.offset = w[s].offset /\ l.item = w[s].item
        BY <1>1, <1>5, <2>2 DEF FindExisting, Goto, Local
      <3>2. events[s] \subseteq {"edited"} /\ kind[s] = "lines" => l.ref # NoRow
        BY <1>1, <3>1 DEF Scans, InPeace, Working
      <3> HIDE DEF l
      <3> QED BY <1>3, <3>1, <3>2 DEF HandStates
    <2> QED BY <2>1, <2>2
  <1> QED BY <1>2, <1>4, <1>5 DEF LookupInvoice, FindExisting

(* A record that was saved is staged. *)
LEMMA SaveScan ==
  ASSUME TypeInv, RowsInv, ScanInv, NEW s \in Sessions, Save(s)
  PROVE  Scans(s)'
  <1>1. /\ w \in [Sessions -> Local] /\ w[s] \in Local /\ pc \in [Sessions -> Control]
        /\ Scans(s) /\ pc[s] = "save" /\ UNCHANGED <<posted, kind>> /\ [Next]_vars /\ SaveReady(s)
    BY DEF TypeInv, TypeOK, ScanInv, Save, odooVars, Next, Step, RowsInv
  <1>2. CASE Fault(s) /\ CountError(s)
    BY <1>2, FaultCounted
  <1>3. CASE NoFault /\ Write(s) /\ w' = [w EXCEPT ![s].saved = @ + 1] /\ Goto(s, "report")
    <2>1. /\ pc'[s] = "report" /\ w'[s] = [w[s] EXCEPT !.saved = @ + 1]
      BY <1>1, <1>3 DEF Goto
    <2>2. /\ w'[s].ids = w[s].ids /\ w'[s].todo = w[s].todo /\ w'[s].errs = w[s].errs
          /\ w'[s].holding = w[s].holding /\ w'[s].offset = w[s].offset
      BY <1>1, <2>1 DEF Local
    <2>3. w[s].item \in KeysIn(stg'[kind[s]], w[s].holding)
      BY <1>1, <1>3, WriteStages
    <2>4. w'[s].offset + (IF pc'[s] \in HandStates \cup {"report"} THEN 1 ELSE 0) = Ahead(s)
      BY <1>1, <2>1, <2>2 DEF Ahead, HandStates
    <2> QED BY <1>1, <2>1, <2>2, <2>3, <2>4, SameScan DEF Scanning, HandStates
  <1> QED BY <1>2, <1>3 DEF Save

(* On to the next record. *)
LEMMA ReportScan ==
  ASSUME TypeInv, RowsInv, ScanInv, NEW s \in Sessions, Report(s)
  PROVE  Scans(s)'
  <1>1. /\ w \in [Sessions -> Local] /\ w[s] \in Local /\ pc \in [Sessions -> Control]
        /\ Scans(s) /\ pc[s] = "report" /\ UNCHANGED <<posted, kind>> /\ [Next]_vars
    BY DEF TypeInv, TypeOK, ScanInv, Report, odooVars, Next, Step
  <1>2. pc'[s] = "page" /\ w'[s] = WithoutItem(w[s])
    BY <1>1 DEF Report, Goto
  <1>3. /\ w'[s].ids = w[s].ids /\ w'[s].todo = w[s].todo /\ w'[s].errs = w[s].errs
        /\ w'[s].holding = w[s].holding
    BY <1>1, <1>2, WithoutItemType
  <1>4. w'[s].offset = w[s].offset + 1 /\ w[s].offset \in Nat
    BY <1>1, <1>2 DEF WithoutItem, NextOffset, Local
  <1>5. w'[s].offset + (IF pc'[s] \in HandStates \cup {"report"} THEN 1 ELSE 0) = Ahead(s)
    BY <1>1, <1>2, <1>4 DEF Ahead, HandStates
  <1> QED BY <1>1, <1>2, <1>3, <1>5, SameScan DEF Scanning, HandStates

(* The job of the lines starts when the invoices are staged. *)
LEMMA FinishScan ==
  ASSUME TypeInv, RowsInv, ScanInv, NEW s \in Sessions, Finish(s)
  PROVE  Scans(s)'
  <1>1. /\ w \in [Sessions -> Local] /\ pc \in [Sessions -> Control] /\ kind \in [Sessions -> Kinds]
        /\ Scans(s) /\ pc[s] = "finish" /\ UNCHANGED <<stg, posted>> /\ events[s] \subseteq events'[s]
    BY EventsGrow DEF TypeInv, TypeOK, ScanInv, Finish, odooVars, Next, Step
  <1>2. /\ pc'[s] \in {"begin", "done"} /\ kind'[s] = NextKind(kind[s])
        /\ pc'[s] = "begin" /\ kind'[s] = "lines" => kind[s] = "invoices"
    BY <1>1 DEF Finish, NextJob, Goto, NextKind, Kinds
  <1>3. /\ w'[s].ids = {} /\ w'[s].errs = 0 /\ w'[s].offset = 0 /\ w'[s].holding = w[s].holding
    BY <1>1 DEF Finish, NextJob, Fresh
  <1>4. ASSUME events[s] \subseteq {"edited"}, kind[s] = "invoices"
        PROVE  posted \subseteq KeysIn(stg["invoices"], w[s].holding)
    <2>1. w[s].ids = posted /\ w[s].errs = 0 /\ "reversed" \notin events[s]
      BY <1>1, <1>4 DEF Scans, InPeace, Scanning
    <2> QED BY <1>1, <1>4, <2>1 DEF Scans, Covers, Steady, Scanning, HandStates
  <1>5. InPeace(s)'
    BY <1>1, <1>2, <1>3, <1>4 DEF InPeace, Scanning, Working, HandStates
  <1> QED BY <1>2, <1>3, <1>5 DEF Scans, Covers, AtStart, Scanning

(* What the users of Odoo change befalls the active sessions; invoices     *)
(* that are posted push the others further off, never nearer.              *)
LEMMA OdooScan ==
  ASSUME TypeInv, RowsInv, ScanInv, NEW t \in Sessions,
         NEW i \in Invoices, OdooPosts(i) \/ OdooReverses(i)
  PROVE  Scans(t)'
  <1>1. /\ UNCHANGED <<stg, pc, kind, w>> /\ events[t] \subseteq events'[t] /\ Scans(t)
        /\ kind[t] \in Kinds
    <2>1. events[t] \subseteq events'[t]
      BY EventsGrow DEF Next
    <2>2. UNCHANGED <<stg, pc, kind, w>>
      BY DEF OdooPosts, OdooReverses, dbVars, taskVars
    <2> QED BY <2>1, <2>2 DEF TypeInv, TypeOK, ScanInv
  <1>2. AtStart(t)' /\ Ahead(t)' = Ahead(t)
    BY <1>1 DEF Scans, AtStart, Ahead
  <1>3. CASE ~ Active(t)
    <2>1. pc[t] \notin Scanning /\ pc[t] \notin Working
      BY <1>3 DEF Active, Scanning, Working
    <2> QED BY <1>1, <1>2, <2>1 DEF Scans, Covers, InPeace
  <1>4. CASE Active(t) /\ OdooPosts(i)
    <2>1. "posted" \in events'[t] /\ posted \subseteq posted'
      <3>1. events'[t] = events[t] \cup {"posted"}
        BY <1>4 DEF OdooPosts, Befalls
      <3> QED BY <1>4, <3>1 DEF OdooPosts
    <2>2. IsFiniteSet(posted')
      <3>1. posted' \subseteq Invoices
        BY <1>4 DEF OdooPosts, TypeInv, TypeOK
      <3> QED BY <3>1, DataAssumption, FS_Subset
    <2>3. ASSUME NEW x, ToCome(t, x) PROVE ToCome(t, x)'
      <3>1. CASE kind[t] = "invoices"
        <4>1. /\ Rank(posted, InvoiceId, x) \in Nat /\ Rank(posted', InvoiceId, x) \in Nat
              /\ Rank(posted, InvoiceId, x) <= Rank(posted', InvoiceId, x)
          BY <2>1, <2>2, RankGrows
        <4>2. Ahead(t) \in Nat
          BY DEF Ahead, TypeInv, TypeOK, Local
        <4> QED BY <1>1, <1>2, <2>3, <3>1, <4>1, <4>2 DEF ToCome
      <3>2. CASE kind[t] # "invoices"
        BY <1>1, <1>2, <2>3, <3>2 DEF ToCome, Kinds
      <3> QED BY <3>1, <3>2
    <2>4. Covers(t)'
      BY <1>1, <2>1, <2>3 DEF Scans, Covers, Steady
    <2>5. InPeace(t)'
      BY <2>1 DEF InPeace
    <2> QED BY <1>2, <2>4, <2>5 DEF Scans
  <1>5. CASE Active(t) /\ OdooReverses(i)
    <2>1. "reversed" \in events'[t]
      <3>1. events'[t] = events[t] \cup {"reversed"}
        BY <1>5 DEF OdooReverses, Befalls
      <3> QED BY <3>1
    <2>2. \A x : kind[t] # "invoices" => (ToCome(t, x)' <=> ToCome(t, x))
      BY <1>1, <1>2 DEF ToCome, Kinds
    <2>3. Covers(t)'
      BY <1>1, <2>1, <2>2 DEF Scans, Covers, Steady
    <2>4. InPeace(t)'
      BY <2>1 DEF InPeace
    <2> QED BY <1>2, <2>3, <2>4 DEF Scans
  <1> QED BY <1>3, <1>4, <1>5

(* A crash ends every scan. *)
LEMMA CrashScan ==
  ASSUME TypeInv, ScanInv, Crash, NEW t \in Sessions
  PROVE  Scans(t)'
  <1>1. Scans(t) /\ pc[t] \in Control /\ UNCHANGED <<stg, posted, kind, events>>
    BY DEF TypeInv, TypeOK, ScanInv, Crash, dbVars, odooVars
  <1>2. CASE Active(t)
    <2>1. pc'[t] = "dead" /\ w'[t] = Fresh(w[t].holding)
      BY <1>2 DEF Crash
    <2> QED BY <2>1 DEF Scans, Covers, AtStart, InPeace, Scanning, Working, Fresh
  <1>3. CASE ~ Active(t)
    <2>1. pc'[t] = pc[t] /\ w'[t] = w[t] /\ pc[t] \notin Scanning /\ pc[t] \notin Working
      BY <1>3 DEF Crash, Active, Scanning, Working
    <2> QED BY <1>1, <2>1 DEF Scans, Covers, AtStart, InPeace
  <1> QED BY <1>2, <1>3

(* Every step keeps the invariant of the scans. *)
LEMMA ScanStep == TypeInv /\ RowsInv /\ ScanInv /\ [Next]_vars => ScanInv'
  <1> SUFFICES ASSUME TypeInv, RowsInv, ScanInv, [Next]_vars, NEW t \in Sessions PROVE Scans(t)'
    BY DEF ScanInv
  <1>1. ASSUME NEW s \in Sessions, StartAsyncInvoiceSync(s) \/ Step(s) PROVE Scans(t)'
    <2>1. CASE t # s
      BY <1>1, <2>1, OthersScan
    <2>2. CASE t = s
      BY <1>1, <2>2, EdgeScan, ListScan, TotalScan, PageScan, QueryScan, SaveScan, ReportScan, FinishScan
      DEF Step
    <2> QED BY <2>1, <2>2
  <1>2. ASSUME NEW x \in Keys, OdooEdits(x) PROVE Scans(t)'
    BY <1>2, ScanFrame DEF OdooEdits, ScanInv, taskVars
  <1>3. CASE UNCHANGED vars
    BY <1>3, ScanFrame DEF ScanInv, vars
  <1> QED BY <1>1, <1>2, <1>3, OdooScan, CrashScan DEF Next

(* The invariant of the scans holds throughout. *)
LEMMA ScanInvariant == Spec => [](TypeInv /\ ScanInv)
  <1>1. Init => ScanInv
    <2> SUFFICES ASSUME Init, NEW s \in Sessions PROVE Scans(s)
      BY DEF ScanInv
    <2>1. pc[s] = "idle" /\ \E h \in Holdings : w[s] = Fresh(h)
      BY DEF Init
    <2> QED BY <2>1 DEF Scans, Covers, AtStart, InPeace, Scanning, Working, Fresh
  <1> QED BY <1>1, RowsInvariant, ScanStep, PTL DEF Spec

(* A job about to report success without errors has staged every record    *)
(* that was in range when it counted them.                                 *)
THEOREM ScansAreComplete == Spec => []ScansCover
  <1>1. TypeInv /\ ScanInv => ScansCover
    <2> SUFFICES ASSUME TypeInv, ScanInv, NEW s \in Sessions, Steady(s), pc[s] = "finish", w[s].errs = 0
                 PROVE  w[s].ids \subseteq StagedKeys(kind[s], w[s].holding)
      BY DEF ScansCover, ScanComplete, Steady
    <2>1. w[s].ids \subseteq KeysIn(stg[kind[s]], w[s].holding)
      BY DEF ScanInv, Scans, Covers, Scanning, HandStates
    <2> QED BY <2>1 DEF StagedKeys, KeysIn
  <1> QED BY <1>1, ScanInvariant, PTL

(* A session that met no failing call and no change in range counts no     *)
(* error, whatever other sessions do.                                      *)
THEOREM QuietSessionsSucceed == Spec => []QuietSessionsHaveNoErrors
  <1>1. ScanInv => QuietSessionsHaveNoErrors
    BY DEF ScanInv, Scans, InPeace, QuietSessionsHaveNoErrors
  <1> QED BY <1>1, ScanInvariant, PTL
=============================================================================
