--------------------------- MODULE OdooSyncProof ---------------------------
(***************************************************************************)
(* Proofs about OdooSync, for any number of sessions, holdings and records *)
(* and whatever the bounds on faults, changes and crashes: its types, and  *)
(* the staging tables.                                                     *)
(***************************************************************************)
EXTENDS OdooSync, FiniteSetTheorems, TLAPS

USE DataAssumption, NoRowAssumption, BoundAssumption
-----------------------------------------------------------------------------
(* The inductive invariant: what a session holds is of the kind its job    *)
(* copies.                                                                 *)
Records(k) ==
  CASE k = "partners" -> Partners [] k = "invoices" -> Invoices [] k = "lines" -> Lines

HoldsRecords(s) ==
  /\ w[s].ids \subseteq Records(kind[s]) /\ w[s].todo \subseteq Records(kind[s])
  /\ pc[s] \in {"idle", "creating"} => w[s].ids = {} /\ w[s].todo = {}
  /\ pc[s] \in {"lookup", "find", "save"} => w[s].item \in Records(kind[s])
  /\ pc[s] = "lookup" => kind[s] = "lines"

TypeInv == TypeOK /\ \A s \in Sessions : HoldsRecords(s)

-----------------------------------------------------------------------------

(* The records of Odoo are finitely many, and so are those a job lists. *)
LEMMA KeysFinite == IsFiniteSet(Keys)
  BY FS_Union DEF Keys

(* So the records of any such list can be counted. *)
LEMMA CountType == ASSUME NEW S \in SUBSET Keys PROVE Cardinality(S) \in Nat
  BY KeysFinite, FS_Subset, FS_CardinalityType

(* What a job lists are records of Odoo. *)
LEMMA ListedType == ASSUME TypeOK, NEW k \in Kinds PROVE Listed(k) \in SUBSET Keys
  BY DEF TypeOK, Listed, Kinds, Keys

(* So is what a page may hold. *)
LEMMA NextItemsType == ASSUME TypeOK, NEW s \in Sessions PROVE NextItems(s) \in SUBSET Keys
  <1>1. w[s].todo \in SUBSET Keys /\ w[s].ids \in SUBSET Keys /\ posted \in SUBSET Keys
    BY DEF TypeOK, Local, Keys
  <1>2. kind[s] \in Kinds
    BY DEF TypeOK
  <1> QED BY <1>1, <1>2 DEF NextItems, PageAt, Kinds

(* A job starts with local variables of the right types. *)
LEMMA FreshType == ASSUME NEW h \in Holdings PROVE Fresh(h) \in Local
  BY DEF Fresh, Local

(* What the actions do to the local variables of a session, field by field. *)
LEMMA LocalUpdate ==
  ASSUME NEW l \in Local
  PROVE  /\ \A r \in Nat \cup {NoRow} : [l EXCEPT !.ref = r] \in Local
         /\ \A r \in StgRow \cup {NoRow} : [l EXCEPT !.row = r] \in Local
         /\ [l EXCEPT !.saved = @ + 1] \in Local
         /\ [l EXCEPT !.errs = @ + 1] \in Local
  <1>1. \A r \in Nat \cup {NoRow} : [l EXCEPT !.ref = r] \in Local
    BY DEF Local
  <1>2. \A r \in StgRow \cup {NoRow} : [l EXCEPT !.row = r] \in Local
    BY DEF Local
  <1>3. [l EXCEPT !.saved = @ + 1] \in Local /\ [l EXCEPT !.errs = @ + 1] \in Local
    BY DEF Local
  <1> QED BY <1>1, <1>2, <1>3

(* Listing keeps the types of the local variables. *)
LEMMA WithListType ==
  ASSUME TypeOK, NEW l \in Local, NEW k \in Kinds
  PROVE  /\ WithList(l, k) \in Local
         /\ WithList(l, k).ids = Listed(k) /\ WithList(l, k).todo \subseteq Listed(k)
         /\ WithList(l, k).holding = l.holding
         /\ WithList(l, k).saved = l.saved /\ WithList(l, k).errs = l.errs
  <1>1. \A S \in SUBSET Keys, T \in SUBSET Keys : [l EXCEPT !.ids = S, !.todo = T] \in Local
    BY DEF Local
  <1>2. Listed(k) \in SUBSET Keys
    BY ListedType
  <1> QED BY <1>1, <1>2 DEF WithList, Local

(* So does reading a page. *)
LEMMA WithItemType ==
  ASSUME TypeOK, NEW l \in Local, NEW x \in Keys
  PROVE  /\ WithItem(l, x) \in Local
         /\ WithItem(l, x).ids = l.ids /\ WithItem(l, x).todo \subseteq l.todo
         /\ WithItem(l, x).item = x /\ WithItem(l, x).holding = l.holding
         /\ WithItem(l, x).saved = l.saved /\ WithItem(l, x).errs = l.errs
  <1>1. ReadVersion(x) \in Nat
    BY DEF ReadVersion, TypeOK
  <1> QED BY <1>1 DEF WithItem, Local

(* So does going on to the next record. *)
LEMMA WithoutItemType ==
  ASSUME NEW l \in Local
  PROVE  /\ WithoutItem(l) \in Local
         /\ WithoutItem(l).ids = l.ids /\ WithoutItem(l).todo = l.todo
         /\ WithoutItem(l).holding = l.holding
         /\ WithoutItem(l).saved = l.saved /\ WithoutItem(l).errs = l.errs
  <1>1. \A m \in Local, o \in Nat : [m EXCEPT !.offset = o, !.item = NoRow] \in Local
    BY DEF Local
  <1>2. \A m \in Local : [m EXCEPT !.ver = 0, !.ref = NoRow, !.row = NoRow] \in Local
    BY DEF Local
  <1>3. NextOffset(l.offset) \in Nat
    BY DEF Local, NextOffset
  <1> DEFINE m == [l EXCEPT !.offset = NextOffset(@), !.item = NoRow]
  <1>4. m \in Local
    BY <1>1, <1>3
  <1>5. WithoutItem(l) \in Local
    BY <1>2, <1>4 DEF WithoutItem
  <1> QED BY <1>5 DEF WithoutItem, Local
-----------------------------------------------------------------------------
(* Type correctness. *)

(* A findOne answers a row or null. *)
LEMMA FoundType ==
  ASSUME TypeOK, NEW k \in Kinds, NEW key, NEW h, NEW r \in Found(Matches(k, key, h))
  PROVE  r \in StgRow \cup {NoRow}
  BY DEF TypeOK, Found, Matches

(* A call that is answered or rejected keeps the types of the history. *)
LEMMA CallType ==
  ASSUME TypeOK, NEW s \in Sessions, NoFault \/ Fault(s)
  PROVE  events' \in [Sessions -> SUBSET Event] /\ faults' \in 0 .. MaxFaults
  BY DEF TypeOK, NoFault, Fault, Event

(* A call of updateJobStatus keeps the log, and the history, well typed. *)
LEMMA UpdateJobStatusType ==
  ASSUME TypeOK, NEW s \in Sessions, NEW columns, NEW row \in JL!Row,
         UpdateJobStatus(s, columns, row)
  PROVE  /\ log' \in [Jobs -> JL!Row]
         /\ events' \in [Sessions -> SUBSET Event]
         /\ faults' \in 0 .. MaxFaults
  <1>1. <<s, kind[s]>> \in Jobs
    BY DEF TypeOK, Jobs
  <1>2. CASE NoFault
    BY <1>1, <1>2 DEF TypeOK, UpdateJobStatus, NoFault, Fault
  <1>3. CASE Fault(s) /\ UNCHANGED log
    BY <1>3 DEF TypeOK, Fault, Event
  <1> QED BY <1>1, <1>2, <1>3 DEF UpdateJobStatus

(* The rows of integration_logs that the updates write. *)
LEMMA RowTypes ==
  ASSUME TypeOK, NEW s \in Sessions
  PROVE  /\ JobRow(s) \in JL!Row
         /\ [JobRow(s) EXCEPT !.status = "running"] \in JL!Row
         /\ [JobRow(s) EXCEPT !.status = "failed"] \in JL!Row
         /\ CompletedRow(JobRow(s)) \in JL!Row
         /\ [CompletedRow(JobRow(s)) EXCEPT !.total = 0] \in JL!Row
         /\ \A n \in Nat : [JobRow(s) EXCEPT !.status = "running", !.total = n] \in JL!Row
         /\ [ReportedRow(JobRow(s), w[s]) EXCEPT !.status = "running"] \in JL!Row
  <1>1. JobRow(s) \in JL!Row
    BY DEF TypeOK, JobRow, Jobs
  <1>2. w[s].saved \in Nat /\ w[s].errs \in Nat
    BY DEF TypeOK, Local
  <1>3. ReportedRow(JobRow(s), w[s]) \in JL!Row
    <2>1. \A row \in JL!Row, a, b, c \in Nat :
             [row EXCEPT !.processed = a, !.success = b, !.failed = c] \in JL!Row
      BY DEF JL!Row
    <2>2. w[s].saved + w[s].errs \in Nat
      BY <1>2
    <2> QED BY <1>1, <1>2, <2>1, <2>2 DEF ReportedRow
  <1> QED BY <1>1, <1>3 DEF CompletedRow, JL!Row, JL!Status

(* The initial states are well typed. *)
LEMMA InitType == Init => TypeOK
  <1> SUFFICES ASSUME Init PROVE TypeOK
    OBVIOUS
  <1>1. JL!NoLog \in JL!Row
    BY DEF JL!NoLog, JL!Row, JL!Status
  <1>2. w \in [Sessions -> Local]
    BY FreshType DEF Init
  <1> QED BY <1>1, <1>2 DEF Init, TypeOK, Kinds, Control

(* A save writes well-typed rows and draws a natural number as id. *)
LEMMA WriteType ==
  ASSUME TypeOK, NEW s \in Sessions, pc[s] = "save", w[s].item \in Keys, Write(s)
  PROVE  stg' \in [Kinds -> SUBSET StgRow] /\ nextId' \in Nat
  <1>1. /\ kind[s] \in Kinds /\ stg \in [Kinds -> SUBSET StgRow] /\ nextId \in Nat
        /\ w[s] \in Local
    BY DEF TypeOK
  <1>3. CASE w[s].row = NoRow
    <2>1. Inserted(s) \in StgRow
      BY <1>1 DEF Inserted, StgRow, Local
    <2> QED BY <1>1, <1>3, <2>1 DEF Write
  <1>4. CASE w[s].row # NoRow
    <2>1. w[s].row \in StgRow /\ w[s].ver \in Nat /\ w[s].ref \in Nat \cup {NoRow}
      BY <1>1, <1>4 DEF Local
    <2>2. Updated(w[s]) \in StgRow
      BY <2>1 DEF Updated, StgRow
    <2> QED BY <1>1, <1>4, <2>2 DEF Write
  <1> QED BY <1>3, <1>4

(* A job lists records of its own kind only. *)
LEMMA ListedRecords == ASSUME TypeOK, NEW k \in Kinds PROVE Listed(k) \subseteq Records(k)
  BY DEF TypeOK, Listed, Kinds, Records

(* The records of a kind are records of Odoo. *)
LEMMA RecordsAreKeys == ASSUME NEW k \in Kinds PROVE Records(k) \subseteq Keys
  BY DEF Kinds, Records, Keys

(* A page holds a record of the kind its job copies. *)
LEMMA NextItemsRecords ==
  ASSUME TypeInv, NEW s \in Sessions
  PROVE  NextItems(s) \subseteq Records(kind[s])
  BY DEF TypeInv, TypeOK, HoldsRecords, NextItems, PageAt, Kinds, Records

(* Every step keeps the type invariant, action by action. *)
LEMMA TypeStep == TypeInv /\ [Next]_vars => TypeInv'
  <1> SUFFICES ASSUME TypeInv, [Next]_vars PROVE TypeInv'
    OBVIOUS
  <1> USE DEF TypeInv
  <1>1. ASSUME NEW s \in Sessions, StartAsyncInvoiceSync(s) PROVE TypeInv'
    <2>1. TypeOK'
      BY <1>1 DEF StartAsyncInvoiceSync, TypeOK, Goto, Control, Kinds, dbVars, odooVars
    <2>2. ASSUME NEW t \in Sessions PROVE HoldsRecords(t)'
      BY <1>1 DEF StartAsyncInvoiceSync, TypeOK, Goto, HoldsRecords
    <2> QED BY <2>1, <2>2
  <1>2. ASSUME NEW s \in Sessions, NEW k \in Kinds, SaveJobRow(s, k) PROVE TypeInv'
    <2>1. TypeOK'
      <3>1. JL!NewLog \in JL!Row
        BY DEF JL!NewLog, JL!Row, JL!Status
      <3>2. <<s, k>> \in Jobs
        BY DEF Jobs
      <3>3. log' \in [Jobs -> JL!Row] /\ pc' \in [Sessions -> Control]
        BY <1>2, <3>1, <3>2 DEF SaveJobRow, TypeOK, Goto, Control
      <3>4. events' \in [Sessions -> SUBSET Event] /\ faults' \in 0 .. MaxFaults
        BY <1>2, CallType DEF SaveJobRow
      <3> QED BY <1>2, <3>3, <3>4 DEF SaveJobRow, TypeOK, odooVars
    <2>2. ASSUME NEW t \in Sessions PROVE HoldsRecords(t)'
      BY <1>2 DEF SaveJobRow, TypeOK, Goto, HoldsRecords
    <2> QED BY <2>1, <2>2
  <1>3. ASSUME NEW s \in Sessions, Respond(s) PROVE TypeInv'
    <2>1. TypeOK'
      BY <1>3 DEF Respond, TypeOK, Goto, Control, Kinds, dbVars, odooVars
    <2>2. ASSUME NEW t \in Sessions PROVE HoldsRecords(t)'
      BY <1>3 DEF Respond, TypeOK, Goto, HoldsRecords
    <2> QED BY <2>1, <2>2
  <1>4. ASSUME NEW s \in Sessions, Begin(s) PROVE TypeInv'
    <2>1. TypeOK'
      BY <1>4, RowTypes, UpdateJobStatusType DEF Begin, TypeOK, Goto, Control, odooVars
    <2>2. ASSUME NEW t \in Sessions PROVE HoldsRecords(t)'
      BY <1>4 DEF Begin, TypeOK, Goto, HoldsRecords
    <2> QED BY <2>1, <2>2
  <1>5. ASSUME NEW s \in Sessions, List(s) PROVE TypeInv'
    <2>1. Listed(kind[s]) \subseteq Records(kind[s]) /\ kind[s] \in Kinds /\ w[s] \in Local
      BY ListedRecords DEF TypeOK
    <2>2. w' = w \/ w' = [w EXCEPT ![s] = WithList(w[s], kind[s])]
      BY <1>5 DEF List
    <2>3. w' \in [Sessions -> Local]
      <3>1. WithList(w[s], kind[s]) \in Local
        BY <2>1, WithListType
      <3> QED BY <2>2, <3>1 DEF TypeOK
    <2>4. TypeOK'
      BY <1>5, <2>3, CallType DEF List, TypeOK, Goto, Control, dbVars, odooVars
    <2>5. ASSUME NEW t \in Sessions PROVE HoldsRecords(t)'
      <3>1. CASE t # s
        BY <1>5, <3>1 DEF List, TypeOK, Goto, HoldsRecords
      <3>2. CASE t = s
        <4>1. w'[s] = w[s] \/ w'[s] = WithList(w[s], kind[s])
          BY <2>2 DEF TypeOK
        <4>2. w'[s].ids \subseteq Records(kind[s]) /\ w'[s].todo \subseteq Records(kind[s])
          BY <2>1, <4>1, WithListType DEF HoldsRecords
        <4>3. pc'[s] \notin {"idle", "creating", "lookup", "find", "save"} /\ kind' = kind
          BY <1>5 DEF List, TypeOK, Goto
        <4> QED BY <3>2, <4>2, <4>3 DEF HoldsRecords
      <3> QED BY <3>1, <3>2
    <2> QED BY <2>4, <2>5
  <1>6. ASSUME NEW s \in Sessions, Nothing(s) PROVE TypeInv'
    <2>1. TypeOK'
      BY <1>6, RowTypes, UpdateJobStatusType DEF Nothing, TypeOK, Goto, Control, odooVars
    <2>2. ASSUME NEW t \in Sessions PROVE HoldsRecords(t)'
      BY <1>6 DEF Nothing, TypeOK, Goto, HoldsRecords
    <2> QED BY <2>1, <2>2
  <1>7. ASSUME NEW s \in Sessions, SetTotal(s) PROVE TypeInv'
    <2>1. Cardinality(w[s].ids) \in Nat
      BY CountType DEF TypeOK, Local
    <2>2. TypeOK'
      BY <1>7, <2>1, RowTypes, UpdateJobStatusType DEF SetTotal, TypeOK, Goto, Control, odooVars
    <2>3. ASSUME NEW t \in Sessions PROVE HoldsRecords(t)'
      BY <1>7 DEF SetTotal, TypeOK, Goto, HoldsRecords
    <2> QED BY <2>2, <2>3
  <1>8. ASSUME NEW s \in Sessions, NextPage(s) PROVE TypeInv'
    <2>1. w[s] \in Local /\ kind[s] \in Kinds
      BY DEF TypeOK
    <2>2. \A x \in NextItems(s) : x \in Records(kind[s]) /\ x \in Keys
      BY <2>1, NextItemsRecords, RecordsAreKeys
    <2>3. \/ w' = w /\ pc' = [pc EXCEPT ![s] = "finish"]
          \/ w' = w /\ pc' = [pc EXCEPT ![s] = "fail"]
          \/ \E x \in NextItems(s) :
               /\ w' = [w EXCEPT ![s] = WithItem(w[s], x)]
               /\ pc' = [pc EXCEPT ![s] = IF kind[s] = "lines" THEN "lookup" ELSE "find"]
      BY <1>8 DEF NextPage, Goto
    <2>4. w' \in [Sessions -> Local]
      BY <2>1, <2>2, <2>3, WithItemType DEF TypeOK
    <2>5. TypeOK'
      BY <1>8, <2>3, <2>4, CallType DEF NextPage, TypeOK, Control, dbVars, odooVars
    <2>6. ASSUME NEW t \in Sessions PROVE HoldsRecords(t)'
      <3>1. CASE t # s
        BY <1>8, <3>1 DEF NextPage, TypeOK, Goto, HoldsRecords
      <3>2. CASE t = s
        <4>1. \/ w'[s] = w[s] /\ pc'[s] \in {"finish", "fail"}
              \/ \E x \in NextItems(s) :
                   /\ w'[s] = WithItem(w[s], x)
                   /\ pc'[s] = IF kind[s] = "lines" THEN "lookup" ELSE "find"
          BY <2>3 DEF TypeOK
        <4>2. kind' = kind
          BY <1>8 DEF NextPage
        <4> QED BY <2>1, <2>2, <3>2, <4>1, <4>2, WithItemType DEF HoldsRecords
      <3> QED BY <3>1, <3>2
    <2> QED BY <2>5, <2>6
  <1>9. ASSUME NEW s \in Sessions, LookupInvoice(s) PROVE TypeInv'
    <2>1. \A r \in Found(Matches("invoices", MoveOf[w[s].item], w[s].holding)) :
             [w[s] EXCEPT !.ref = StagingId(r)] \in Local
      <3>1. \A r \in StgRow \cup {NoRow} : StagingId(r) \in Nat \cup {NoRow}
        BY DEF StagingId, StgRow
      <3>2. "invoices" \in Kinds
        BY DEF Kinds
      <3> QED BY <3>1, <3>2, FoundType, LocalUpdate DEF TypeOK
    <2>2. [w[s] EXCEPT !.errs = @ + 1] \in Local
      BY LocalUpdate DEF TypeOK
    <2>3. w' \in [Sessions -> Local]
      BY <1>9, <2>1, <2>2 DEF LookupInvoice, CountError, TypeOK
    <2>4. TypeOK'
      BY <1>9, <2>3, CallType DEF LookupInvoice, CountError, TypeOK, Goto, Control, dbVars, odooVars
    <2>5. ASSUME NEW t \in Sessions PROVE HoldsRecords(t)'
      <3>1. CASE t # s
        BY <1>9, <3>1 DEF LookupInvoice, CountError, TypeOK, Goto, HoldsRecords
      <3>2. CASE t = s
        <4>1. /\ kind' = kind
              /\ (w[s].ids)' = w[s].ids /\ (w[s].todo)' = w[s].todo /\ (w[s].item)' = w[s].item
              /\ pc'[s] \in {"find", "report"}
          BY <1>9 DEF LookupInvoice, CountError, TypeOK, Local, Goto
        <4> QED BY <1>9, <3>2, <4>1 DEF LookupInvoice, HoldsRecords
      <3> QED BY <3>1, <3>2
    <2> QED BY <2>4, <2>5
  <1>10. ASSUME NEW s \in Sessions, FindExisting(s) PROVE TypeInv'
    <2>1. \A r \in Found(Matches(kind[s], w[s].item, w[s].holding)) :
             [w[s] EXCEPT !.row = r] \in Local
      BY FoundType, LocalUpdate DEF TypeOK
    <2>2. [w[s] EXCEPT !.errs = @ + 1] \in Local
      BY LocalUpdate DEF TypeOK
    <2>3. w' \in [Sessions -> Local]
      BY <1>10, <2>1, <2>2 DEF FindExisting, CountError, TypeOK
    <2>4. TypeOK'
      BY <1>10, <2>3, CallType DEF FindExisting, CountError, TypeOK, Goto, Control, dbVars, odooVars
    <2>5. ASSUME NEW t \in Sessions PROVE HoldsRecords(t)'
      <3>1. CASE t # s
        BY <1>10, <3>1 DEF FindExisting, CountError, TypeOK, Goto, HoldsRecords
      <3>2. CASE t = s
        <4>1. /\ kind' = kind
              /\ (w[s].ids)' = w[s].ids /\ (w[s].todo)' = w[s].todo /\ (w[s].item)' = w[s].item
              /\ pc'[s] \in {"save", "report"}
          BY <1>10 DEF FindExisting, CountError, TypeOK, Local, Goto
        <4> QED BY <1>10, <3>2, <4>1 DEF FindExisting, HoldsRecords
      <3> QED BY <3>1, <3>2
    <2> QED BY <2>4, <2>5
  <1>11. ASSUME NEW s \in Sessions, Save(s) PROVE TypeInv'
    <2>1. pc[s] = "save" /\ w[s].item \in Keys
      BY <1>11, RecordsAreKeys DEF Save, HoldsRecords, TypeOK
    <2>2. stg' \in [Kinds -> SUBSET StgRow] /\ nextId' \in Nat
      BY <1>11, <2>1, WriteType DEF Save, TypeOK
    <2>3. [w[s] EXCEPT !.errs = @ + 1] \in Local /\ [w[s] EXCEPT !.saved = @ + 1] \in Local
      BY LocalUpdate DEF TypeOK
    <2>4. w' \in [Sessions -> Local]
      BY <1>11, <2>3 DEF Save, CountError, TypeOK
    <2>5. TypeOK'
      BY <1>11, <2>2, <2>4, CallType DEF Save, CountError, TypeOK, Goto, Control, odooVars
    <2>6. ASSUME NEW t \in Sessions PROVE HoldsRecords(t)'
      <3>1. CASE t # s
        BY <1>11, <3>1 DEF Save, CountError, TypeOK, Goto, HoldsRecords
      <3>2. CASE t = s
        <4>1. /\ kind' = kind
              /\ (w[s].ids)' = w[s].ids /\ (w[s].todo)' = w[s].todo /\ (w[s].item)' = w[s].item
              /\ pc'[s] \in {"report"}
          BY <1>11 DEF Save, CountError, TypeOK, Local, Goto
        <4> QED BY <1>11, <3>2, <4>1 DEF Save, HoldsRecords
      <3> QED BY <3>1, <3>2
    <2> QED BY <2>5, <2>6
  <1>12. ASSUME NEW s \in Sessions, Report(s) PROVE TypeInv'
    <2>1. w' = [w EXCEPT ![s] = WithoutItem(w[s])] /\ w[s] \in Local
      BY <1>12 DEF Report, TypeOK
    <2>2. w' \in [Sessions -> Local] /\ pc' \in [Sessions -> Control]
      BY <1>12, <2>1, WithoutItemType DEF Report, TypeOK, Goto, Control
    <2>3. TypeOK'
      BY <1>12, <2>2, RowTypes, UpdateJobStatusType DEF Report, TypeOK, odooVars
    <2>4. ASSUME NEW t \in Sessions PROVE HoldsRecords(t)'
      BY <1>12, <2>1, WithoutItemType DEF Report, TypeOK, Goto, HoldsRecords
    <2> QED BY <2>3, <2>4
  <1>13. ASSUME NEW s \in Sessions, NextJob(s), log' \in [Jobs -> JL!Row],
                events' \in [Sessions -> SUBSET Event], faults' \in 0 .. MaxFaults,
                UNCHANGED <<stg, nextId, odooVars, pending, acked, overlap, crashes>>
         PROVE  TypeInv'
    <2>1. Fresh(w[s].holding) \in Local /\ NextKind(kind[s]) \in Kinds
      BY FreshType DEF TypeOK, Local, NextKind, Kinds
    <2>2. TypeOK'
      BY <1>13, <2>1 DEF NextJob, TypeOK, Goto, Control, odooVars
    <2>3. ASSUME NEW t \in Sessions PROVE HoldsRecords(t)'
      BY <1>13 DEF NextJob, TypeOK, Fresh, Goto, HoldsRecords
    <2> QED BY <2>2, <2>3
  <1>14. ASSUME NEW s \in Sessions, Finish(s) PROVE TypeInv'
    BY <1>13, <1>14, RowTypes, UpdateJobStatusType DEF Finish
  <1>15. ASSUME NEW s \in Sessions, Fail(s) PROVE TypeInv'
    BY <1>13, <1>15, RowTypes, UpdateJobStatusType DEF Fail
  <1>16. CASE Crash
    <2>1. \A s \in Sessions : Fresh(w[s].holding) \in Local
      BY FreshType DEF TypeOK, Local
    <2>2. TypeOK'
      BY <1>16, <2>1 DEF Crash, TypeOK, Control, dbVars, odooVars
    <2>3. ASSUME NEW t \in Sessions PROVE HoldsRecords(t)'
      BY <1>16 DEF Crash, TypeOK, Fresh, HoldsRecords
    <2> QED BY <2>2, <2>3
  <1>17. ASSUME NEW i \in Invoices, OdooPosts(i) \/ OdooReverses(i) PROVE TypeInv'
    <2>1. TypeOK'
      <3>1. ASSUME NEW e \in Event, Befalls(e)
            PROVE  changes' \in 0 .. MaxChanges /\ events' \in [Sessions -> SUBSET Event]
        BY <3>1 DEF Befalls, TypeOK
      <3>2. changes' \in 0 .. MaxChanges /\ events' \in [Sessions -> SUBSET Event]
        BY <1>17, <3>1 DEF OdooPosts, OdooReverses, Event
      <3>3. posted' \in SUBSET Invoices
        BY <1>17 DEF OdooPosts, OdooReverses, TypeOK
      <3> QED BY <1>17, <3>2, <3>3 DEF OdooPosts, OdooReverses, TypeOK, dbVars, taskVars
    <2>2. ASSUME NEW t \in Sessions PROVE HoldsRecords(t)'
      BY <1>17 DEF OdooPosts, OdooReverses, taskVars, HoldsRecords
    <2> QED BY <2>1, <2>2
  <1>18. ASSUME NEW x \in Keys, OdooEdits(x) PROVE TypeInv'
    <2>1. TypeOK'
      BY <1>18 DEF OdooEdits, Befalls, TypeOK, Event, dbVars, taskVars
    <2>2. ASSUME NEW t \in Sessions PROVE HoldsRecords(t)'
      BY <1>18 DEF OdooEdits, taskVars, HoldsRecords
    <2> QED BY <2>1, <2>2
  <1>19. CASE UNCHANGED vars
    BY <1>19 DEF vars, TypeOK, HoldsRecords
  <1> QED
    BY <1>1, <1>2, <1>3, <1>4, <1>5, <1>6, <1>7, <1>8, <1>9, <1>10, <1>11, <1>12, <1>14, <1>15,
       <1>16, <1>17, <1>18, <1>19 DEF Next, Step

(* The type invariant holds initially. *)
LEMMA TypeInit == Init => TypeInv
  BY InitType DEF Init, TypeInv, HoldsRecords, Fresh

(* The variables keep their types. *)
THEOREM TypeCorrect == Spec => []TypeOK
  <1>1. Init => TypeInv
    BY TypeInit
  <1>2. TypeInv /\ [Next]_vars => TypeInv'
    BY TypeStep
  <1>3. TypeInv => TypeOK
    BY DEF TypeInv
  <1> QED BY <1>1, <1>2, <1>3, PTL DEF Spec
-----------------------------------------------------------------------------
(* The staging tables: who may stage a record twice, whose rows a session  *)
(* touches, what a staged line refers to, and when data may grow older.    *)

(* What a session found before a save still holds of the staging tables. *)
SameRow(q, r) == q.id = r.id /\ q.key = r.key /\ q.holding = r.holding /\ q.by = r.by

IdsUnique ==
  \A k \in Kinds : \A q \in stg[k] : q.id < nextId /\ \A r \in stg[k] : q.id = r.id => q = r

ActiveOverlap ==
  \A s, t \in Sessions : s # t /\ Active(s) /\ Active(t) => <<s, t>> \in overlap

Overlapped(s, t) == <<s, t>> \in overlap /\ <<t, s>> \in overlap

SaveReady(s) ==
  pc[s] = "save" =>
    IF w[s].row = NoRow
    THEN \A r \in Matches(kind[s], w[s].item, w[s].holding) : Overlapped(s, r.by)
    ELSE /\ w[s].row.key = w[s].item /\ w[s].row.holding = w[s].holding
         /\ \E r \in stg[kind[s]] : SameRow(r, w[s].row)

RowsInv ==
  IdsUnique /\ ActiveOverlap /\ DuplicatesNeedOverlap /\ \A s \in Sessions : SaveReady(s)

(* A reference to a staged invoice stays good, wherever it is held. *)
RefersTo(id, i, h) == \E r \in stg["invoices"] : r.id = id /\ r.key = i /\ r.holding = h

RefReady(s) ==
  pc[s] \in {"find", "save"} /\ kind[s] = "lines" =>
    /\ w[s].ref # NoRow => RefersTo(w[s].ref, MoveOf[w[s].item], w[s].holding)
    /\ pc[s] = "save" /\ w[s].row = NoRow => w[s].ref # NoRow
    /\ pc[s] = "save" /\ w[s].row # NoRow =>
         RefersTo(w[s].row.ref, MoveOf[w[s].row.key], w[s].row.holding)

RefsInv == LineRefsInvoice /\ \A s \in Sessions : RefReady(s)
-----------------------------------------------------------------------------
(* What a save does to a table: every row stays, but for its data, and the *)
(* only new row is the one the session inserts.                            *)
LEMMA WriteRows ==
  ASSUME TypeInv, IdsUnique, NEW s \in Sessions, pc[s] = "save", SaveReady(s), Write(s)
  PROVE  /\ \A k \in Kinds : \A q \in stg[k] : \E r \in stg'[k] : SameRow(q, r)
         /\ \A k \in Kinds : \A r \in stg'[k] :
              \/ \E q \in stg[k] : SameRow(q, r)
              \/ k = kind[s] /\ w[s].row = NoRow /\ r = Inserted(s)
         /\ IdsUnique'
  <1> USE DEF TypeInv
  <1>1. /\ stg \in [Kinds -> SUBSET StgRow] /\ nextId \in Nat /\ kind[s] \in Kinds /\ w[s] \in Local
    BY DEF TypeOK
  <1>2. CASE w[s].row = NoRow
    <2>1. Inserted(s).id = nextId
      BY DEF Inserted
    <2>2. \A k \in Kinds : stg'[k] = IF k = kind[s] THEN stg[k] \cup {Inserted(s)} ELSE stg[k]
      BY <1>1, <1>2 DEF Write
    <2>3. nextId' = nextId + 1
      BY <1>2 DEF Write
    <2>4. \A k \in Kinds : \A q \in stg[k] : q.id \in Nat /\ q.id < nextId
      BY <1>1 DEF IdsUnique, StgRow
    <2>5. IdsUnique'
      <3>1. ASSUME NEW k \in Kinds, NEW q, q \in stg'[k] PROVE q.id < nextId'
        <4>1. q \in stg[k] \/ q = Inserted(s)
          BY <2>2, <3>1
        <4> QED BY <1>1, <2>1, <2>3, <2>4, <4>1
      <3>2. ASSUME NEW k \in Kinds, NEW q, NEW r, q \in stg'[k], r \in stg'[k], q.id = r.id
            PROVE  q = r
        <4>1. \A p \in stg[k] : p.id # nextId
          BY <1>1, <2>4
        <4>2. (q \in stg[k] \/ q = Inserted(s)) /\ (r \in stg[k] \/ r = Inserted(s))
          BY <2>2, <3>2
        <4> QED BY <2>1, <3>2, <4>1, <4>2 DEF IdsUnique
      <3> QED BY <3>1, <3>2 DEF IdsUnique
    <2> QED BY <1>2, <2>2, <2>5 DEF SameRow
  <1>3. CASE w[s].row # NoRow
    <2> DEFINE u == Updated(w[s])
    <2>1. w[s].row \in StgRow
      BY <1>1, <1>3 DEF Local
    <2>2. SameRow(u, w[s].row)
      BY <2>1 DEF Updated, SameRow, StgRow
    <2>3. PICK o \in stg[kind[s]] : SameRow(o, w[s].row)
      BY <1>3 DEF SaveReady
    <2>4. SameRow(o, u) /\ u.id = o.id /\ w[s].row.id = o.id
      BY <2>2, <2>3 DEF SameRow
    <2> HIDE DEF u
    <2>5. \A k \in Kinds : stg'[k] = IF k = kind[s] THEN {r \in stg[k] : r.id # o.id} \cup {u} ELSE stg[k]
      BY <1>1, <1>3, <2>4 DEF Write, u
    <2>6. nextId' = nextId
      BY <1>3 DEF Write
    <2>7. \A k \in Kinds : \A q \in stg[k] : q.id = o.id /\ k = kind[s] => q = o
      BY <1>1, <2>3 DEF IdsUnique
    <2>8. IdsUnique'
      <3>1. ASSUME NEW k \in Kinds, NEW q, q \in stg'[k] PROVE q.id < nextId'
        <4>1. q \in stg[k] \/ (q = u /\ k = kind[s])
          BY <2>5, <3>1
        <4> QED BY <1>1, <2>3, <2>4, <2>6, <4>1 DEF IdsUnique
      <3>2. ASSUME NEW k \in Kinds, NEW q, NEW r, q \in stg'[k], r \in stg'[k], q.id = r.id
            PROVE  q = r
        <4>1. ASSUME NEW x \in stg'[k]
              PROVE  (x \in stg[k] /\ (k = kind[s] => x.id # o.id)) \/ (x = u /\ k = kind[s])
          BY <2>5, <3>2, <4>1
        <4> QED BY <2>4, <3>2, <4>1 DEF IdsUnique
      <3> QED BY <3>1, <3>2 DEF IdsUnique
    <2>9. \A k \in Kinds : \A q \in stg[k] : \E r \in stg'[k] : SameRow(q, r)
      BY <2>4, <2>5, <2>7 DEF SameRow
    <2>10. ASSUME NEW k \in Kinds, NEW r \in stg'[k] PROVE \E q \in stg[k] : SameRow(q, r)
      <3>1. r \in stg[k] \/ (k = kind[s] /\ r = u)
        BY <2>5, <2>10
      <3>2. r \in stg[k] => SameRow(r, r)
        BY DEF SameRow
      <3> QED BY <2>3, <2>4, <3>1, <3>2
    <2> QED BY <2>8, <2>9, <2>10
  <1> QED BY <1>2, <1>3

(* A step that leaves the tables alone and starts no save. *)
LEMMA RowsFrame ==
  ASSUME TypeInv, RowsInv, UNCHANGED <<stg, nextId>>, overlap \subseteq overlap', ActiveOverlap',
         \A t \in Sessions : pc'[t] = "save" => pc[t] = "save" /\ w'[t] = w[t] /\ kind'[t] = kind[t]
  PROVE  RowsInv'
  <1>1. IdsUnique' /\ DuplicatesNeedOverlap'
    BY DEF RowsInv, IdsUnique, DuplicatesNeedOverlap
  <1>2. ASSUME NEW t \in Sessions PROVE SaveReady(t)'
    BY DEF RowsInv, SaveReady, Matches, Overlapped
  <1> QED BY <1>1, <1>2 DEF RowsInv

(* A step that moves a session on within its task starts no new activity. *)
LEMMA ActiveFrame ==
  ASSUME RowsInv, overlap' = overlap, \A t \in Sessions : Active(t)' => Active(t)
  PROVE  ActiveOverlap'
  BY DEF RowsInv, ActiveOverlap

(* A save keeps the invariant of the rows. *)
LEMMA SaveRows ==
  ASSUME TypeInv, RowsInv, NEW s \in Sessions, Save(s)
  PROVE  RowsInv'
  <1> USE DEF TypeInv
  <1>1. /\ pc[s] = "save" /\ pc' = [pc EXCEPT ![s] = "report"] /\ overlap' = overlap /\ kind' = kind
        /\ \A t \in Sessions : t # s => w'[t] = w[t]
    BY DEF Save, CountError, Goto, TypeOK
  <1>2. ActiveOverlap'
    BY <1>1, ActiveFrame DEF Active, TypeOK
  <1>3. CASE UNCHANGED <<stg, nextId>>
    BY <1>1, <1>2, <1>3, RowsFrame DEF TypeOK
  <1>4. CASE Write(s)
    <2>1. SaveReady(s) /\ IdsUnique
      BY DEF RowsInv
    <2>2. /\ \A k \in Kinds : \A q \in stg[k] : \E r \in stg'[k] : SameRow(q, r)
          /\ \A k \in Kinds : \A r \in stg'[k] :
               \/ \E q \in stg[k] : SameRow(q, r)
               \/ k = kind[s] /\ w[s].row = NoRow /\ r = Inserted(s)
          /\ IdsUnique'
      BY <1>1, <1>4, <2>1, WriteRows
    <2>3. Inserted(s).key = w[s].item /\ Inserted(s).holding = w[s].holding /\ Inserted(s).by = s
      BY DEF Inserted
    (* A row like the one inserted was there only because of an overlap. *)
    <2>4. ASSUME w[s].row = NoRow, NEW q \in stg[kind[s]],
                 q.key = w[s].item, q.holding = w[s].holding
          PROVE  Overlapped(s, q.by)
      BY <1>1, <2>1, <2>4 DEF SaveReady, Matches
    <2>5. DuplicatesNeedOverlap'
      <3> SUFFICES ASSUME NEW k \in Kinds, NEW q \in stg'[k], NEW r \in stg'[k], q # r,
                          q.key = r.key, q.holding = r.holding
                   PROVE  <<q.by, r.by>> \in overlap
        BY <1>1 DEF DuplicatesNeedOverlap
      <3>1. q.id # r.id
        BY <2>2 DEF IdsUnique
      <3>2. CASE (\E o \in stg[k] : SameRow(o, q)) /\ \E o \in stg[k] : SameRow(o, r)
        <4>1. PICK o \in stg[k], p \in stg[k] : SameRow(o, q) /\ SameRow(p, r)
          BY <3>2
        <4>2. o # p /\ o.key = p.key /\ o.holding = p.holding
          BY <3>1, <4>1 DEF SameRow
        <4> QED BY <4>1, <4>2 DEF RowsInv, DuplicatesNeedOverlap, SameRow
      <3>3. CASE k = kind[s] /\ w[s].row = NoRow /\ q = Inserted(s)
        <4>1. PICK o \in stg[k] : SameRow(o, r)
          BY <2>2, <3>3
        <4>2. Overlapped(s, o.by) /\ o.by = r.by
          BY <2>3, <2>4, <3>3, <4>1 DEF SameRow
        <4> QED BY <2>3, <3>3, <4>2 DEF Overlapped
      <3>4. CASE k = kind[s] /\ w[s].row = NoRow /\ r = Inserted(s)
        <4>1. PICK o \in stg[k] : SameRow(o, q)
          BY <2>2, <3>4
        <4>2. Overlapped(s, o.by) /\ o.by = q.by
          BY <2>3, <2>4, <3>4, <4>1 DEF SameRow
        <4> QED BY <2>3, <3>4, <4>2 DEF Overlapped
      <3> QED BY <2>2, <3>2, <3>3, <3>4
    <2>6. ASSUME NEW t \in Sessions PROVE SaveReady(t)'
      <3>1. CASE pc'[t] # "save"
        BY <3>1 DEF SaveReady
      <3>2. CASE pc'[t] = "save"
        <4>1. t # s /\ pc[t] = "save" /\ w'[t] = w[t] /\ kind'[t] = kind[t] /\ kind[t] \in Kinds
          BY <1>1, <3>2 DEF TypeOK
        <4>2. SaveReady(t)
          BY DEF RowsInv
        <4>3. Overlapped(t, s)
          BY <1>1, <4>1 DEF RowsInv, ActiveOverlap, Active, Overlapped
        <4>4. CASE w[t].row = NoRow
          <5>1. ASSUME NEW r \in stg'[kind[t]], r.key = w[t].item, r.holding = w[t].holding
                PROVE  Overlapped(t, r.by)
            <6>1. CASE \E q \in stg[kind[t]] : SameRow(q, r)
              BY <4>1, <4>2, <4>4, <5>1, <6>1 DEF SaveReady, Matches, SameRow
            <6>2. CASE r = Inserted(s)
              BY <2>3, <4>3, <6>2
            <6> QED BY <2>2, <4>1, <6>1, <6>2
          <5> QED BY <1>1, <4>1, <4>4, <5>1 DEF SaveReady, Matches, Overlapped
        <4>5. CASE w[t].row # NoRow
          <5>1. /\ w[t].row.key = w[t].item /\ w[t].row.holding = w[t].holding
                /\ \E r \in stg[kind[t]] : SameRow(r, w[t].row)
            BY <4>1, <4>2, <4>5 DEF SaveReady
          <5>2. \E r \in stg'[kind[t]] : SameRow(r, w[t].row)
            BY <2>2, <4>1, <5>1 DEF SameRow
          <5> QED BY <4>1, <4>5, <5>1, <5>2 DEF SaveReady
        <4> QED BY <4>4, <4>5
      <3> QED BY <3>1, <3>2
    <2> QED BY <1>2, <2>2, <2>5, <2>6 DEF RowsInv
  <1> QED BY <1>3, <1>4 DEF Save

(* Every step keeps the invariant of the rows, action by action. *)
LEMMA RowsStep == TypeInv /\ RowsInv /\ [Next]_vars => RowsInv'
  <1> SUFFICES ASSUME TypeInv, RowsInv, [Next]_vars PROVE RowsInv'
    OBVIOUS
  <1> USE DEF TypeInv
  <1>1. ASSUME NEW s \in Sessions, StartAsyncInvoiceSync(s) PROVE RowsInv'
    <2>1. /\ pc[s] = "idle" /\ pc' = [pc EXCEPT ![s] = "creating"] /\ UNCHANGED <<stg, nextId, kind, w>>
          /\ overlap \subseteq overlap'
          /\ \A t \in Sessions : Active(t) => <<s, t>> \in overlap' /\ <<t, s>> \in overlap'
      BY <1>1 DEF StartAsyncInvoiceSync, Goto, dbVars
    <2>2. \A t \in Sessions : t # s => Active(t)' = Active(t)
      BY <2>1 DEF Active, TypeOK
    <2>3. ActiveOverlap'
      BY <2>1, <2>2 DEF RowsInv, ActiveOverlap
    <2> QED BY <2>1, <2>3, RowsFrame DEF TypeOK
  <1>2. ASSUME NEW s \in Sessions, NEW k \in Kinds, SaveJobRow(s, k) PROVE RowsInv'
    <2>1. /\ pc' = pc \/ pc' = [pc EXCEPT ![s] = "rejected"]
          /\ UNCHANGED <<stg, nextId, kind, w, overlap>>
      BY <1>2 DEF SaveJobRow, Goto
    <2>2. ActiveOverlap'
      BY <2>1, ActiveFrame DEF Active, TypeOK
    <2> QED BY <2>1, <2>2, RowsFrame DEF TypeOK
  (* The steps of an active session that neither read nor write a table. *)
  <1>3. ASSUME NEW s \in Sessions, Active(s), UNCHANGED <<stg, nextId, overlap>>,
               NEW label, label # "save", pc' = [pc EXCEPT ![s] = label],
               \A t \in Sessions : t # s => w'[t] = w[t] /\ kind'[t] = kind[t]
        PROVE  RowsInv'
    <2>1. ActiveOverlap'
      BY <1>3, ActiveFrame DEF Active, TypeOK
    <2> QED BY <1>3, <2>1, RowsFrame DEF TypeOK
  <1>4. ASSUME NEW s \in Sessions,
               Respond(s) \/ Begin(s) \/ Nothing(s) \/ SetTotal(s) \/ Report(s) \/ Finish(s) \/ Fail(s)
        PROVE  RowsInv'
    <2>1. /\ Active(s) /\ UNCHANGED <<stg, nextId, overlap>>
          /\ \A t \in Sessions : t # s => w'[t] = w[t] /\ kind'[t] = kind[t]
      BY <1>4 DEF Respond, Begin, Nothing, SetTotal, Report, Finish, Fail, NextJob, Active, TypeOK, dbVars
    <2>2. \E label : label # "save" /\ pc' = [pc EXCEPT ![s] = label]
      BY <1>4 DEF Respond, Begin, Nothing, SetTotal, Report, Finish, Fail, NextJob, Goto
    <2> QED BY <1>3, <2>1, <2>2
  <1>5. ASSUME NEW s \in Sessions, List(s) \/ NextPage(s) \/ LookupInvoice(s) PROVE RowsInv'
    <2>1. /\ Active(s) /\ UNCHANGED <<stg, nextId, overlap>>
          /\ \A t \in Sessions : t # s => w'[t] = w[t] /\ kind'[t] = kind[t]
      BY <1>5 DEF List, NextPage, LookupInvoice, CountError, Active, TypeOK, dbVars
    <2>2. \E label : label # "save" /\ pc' = [pc EXCEPT ![s] = label]
      BY <1>5 DEF List, NextPage, LookupInvoice, CountError, Goto
    <2> QED BY <1>3, <2>1, <2>2
  <1>6. ASSUME NEW s \in Sessions, FindExisting(s) PROVE RowsInv'
    <2>1. /\ Active(s) /\ UNCHANGED <<stg, nextId, overlap, kind>>
          /\ \A t \in Sessions : t # s => w'[t] = w[t]
      BY <1>6 DEF FindExisting, CountError, Active, TypeOK, dbVars
    <2>2. CASE pc' = [pc EXCEPT ![s] = "report"]
      BY <1>3, <2>1, <2>2
    <2>3. ASSUME NEW r \in Found(Matches(kind[s], w[s].item, w[s].holding)),
                 w' = [w EXCEPT ![s].row = r], pc' = [pc EXCEPT ![s] = "save"]
          PROVE  RowsInv'
      <3>1. ActiveOverlap'
        BY <2>1, <2>3, ActiveFrame DEF Active, TypeOK
      <3>2. IdsUnique' /\ DuplicatesNeedOverlap'
        BY <2>1 DEF RowsInv, IdsUnique, DuplicatesNeedOverlap
      <3>3. ASSUME NEW t \in Sessions, t # s PROVE SaveReady(t)'
        BY <2>1, <2>3, <3>3 DEF RowsInv, SaveReady, Matches, Overlapped, TypeOK
      <3>4. SaveReady(s)'
        <4>1. /\ (w[s].row)' = r /\ (w[s].item)' = w[s].item /\ (w[s].holding)' = w[s].holding
          BY <2>3 DEF TypeOK, Local
        <4>2. CASE r = NoRow
          <5>1. Matches(kind[s], w[s].item, w[s].holding) = {}
            <6> DEFINE M == Matches(kind[s], w[s].item, w[s].holding)
            <6>1. M \subseteq StgRow
              BY DEF Matches, TypeOK
            <6>2. r \in IF M = {} THEN {NoRow} ELSE M
              BY <2>3 DEF Found
            <6>3. r \notin M
              <7> HIDE DEF M
              <7> QED BY <4>2, <6>1, NoRowAssumption
            <6> QED BY <6>2, <6>3
          <5> QED BY <2>1, <4>1, <4>2, <5>1 DEF SaveReady, Matches
        <4>3. CASE r # NoRow
          <5>1. r \in stg[kind[s]] /\ r.key = w[s].item /\ r.holding = w[s].holding
            BY <2>3, <4>3 DEF Found, Matches
          <5> QED BY <2>1, <4>1, <4>3, <5>1 DEF SaveReady, SameRow
        <4> QED BY <4>2, <4>3
      <3> QED BY <3>1, <3>2, <3>3, <3>4 DEF RowsInv
    <2> QED BY <1>6, <2>2, <2>3 DEF FindExisting, CountError, Goto
  <1>7. CASE Crash
    <2>1. UNCHANGED <<stg, nextId, overlap, kind>>
          /\ \A t \in Sessions : pc'[t] = IF Active(t) THEN "dead" ELSE pc[t]
      BY <1>7 DEF Crash, dbVars
    <2>2. ActiveOverlap'
      BY <2>1, ActiveFrame DEF Active
    <2>3. \A t \in Sessions : pc'[t] # "save"
      BY <2>1 DEF Active
    <2> QED BY <2>1, <2>2, <2>3, RowsFrame
  <1>8. CASE UNCHANGED <<stg, nextId, overlap, pc, kind, w>>
    <2>1. ActiveOverlap'
      BY <1>8 DEF RowsInv, ActiveOverlap, Active
    <2> QED BY <1>8, <2>1, RowsFrame
  <1> QED
    BY <1>1, <1>2, <1>4, <1>5, <1>6, <1>7, <1>8, SaveRows
    DEF Next, Step, OdooPosts, OdooReverses, OdooEdits, dbVars, taskVars, vars

(* Types and the invariant of the rows hold throughout. *)
LEMMA RowsInvariant == Spec => [](TypeInv /\ RowsInv)
  <1>1. Init => RowsInv
    BY DEF Init, RowsInv, IdsUnique, ActiveOverlap, Active, DuplicatesNeedOverlap, SaveReady
  <1> QED BY <1>1, TypeInit, TypeStep, RowsStep, PTL DEF Spec

(* A record is staged twice for a holding only by two sessions that were   *)
(* active at the same time.                                                *)
THEOREM NoOtherDuplicates == Spec => []DuplicatesNeedOverlap
  <1>1. RowsInv => DuplicatesNeedOverlap
    BY DEF RowsInv
  <1> QED BY <1>1, RowsInvariant, PTL
-----------------------------------------------------------------------------
(* A save, with its fresh id or that of the row found, touches one holding only. *)
LEMMA SaveIsolated ==
  ASSUME TypeInv, RowsInv, NEW s \in Sessions, Save(s), NEW k \in Kinds
  PROVE  {r \in stg'[k] : r.holding # w[s].holding} = {r \in stg[k] : r.holding # w[s].holding}
  <1>1. /\ stg \in [Kinds -> SUBSET StgRow] /\ kind[s] \in Kinds /\ w[s] \in Local
        /\ pc[s] = "save" /\ SaveReady(s)
    BY DEF TypeInv, TypeOK, Save, RowsInv
  <1>2. CASE UNCHANGED stg
    BY <1>2
  <1>3. CASE Write(s) /\ w[s].row = NoRow
    <2>1. Inserted(s).holding = w[s].holding
      BY DEF Inserted
    <2>2. stg'[k] = stg[k] \/ stg'[k] = stg[k] \cup {Inserted(s)}
      BY <1>1, <1>3 DEF Write
    <2> QED BY <2>1, <2>2
  <1>4. CASE Write(s) /\ w[s].row # NoRow
    <2> DEFINE u == Updated(w[s])
    <2>1. w[s].row \in StgRow /\ w[s].row.holding = w[s].holding
      BY <1>1, <1>4 DEF Local, SaveReady
    <2>2. u.holding = w[s].holding
      BY <2>1 DEF Updated, StgRow
    <2>3. PICK o \in stg[kind[s]] : SameRow(o, w[s].row)
      BY <1>1, <1>4 DEF SaveReady
    <2>4. \A q \in stg[kind[s]] : q.id = w[s].row.id => q.holding = w[s].holding
      BY <1>1, <2>1, <2>3 DEF RowsInv, IdsUnique, SameRow
    <2> HIDE DEF u
    <2>5. stg'[k] = stg[k] \/ (k = kind[s] /\ stg'[k] = {r \in stg[k] : r.id # w[s].row.id} \cup {u})
      BY <1>1, <1>4 DEF Write, u
    <2> QED BY <2>2, <2>4, <2>5
  <1> QED BY <1>2, <1>3, <1>4 DEF Save

(* A save leaves the rows of other holdings as they are.                   *)
THEOREM SavesStayInHolding == Spec => HoldingsIsolated
  <1>1. TypeInv /\ RowsInv /\ [Next]_vars =>
          [\A s \in Sessions : Save(s) =>
             \A k \in Kinds : {r \in stg'[k] : r.holding # w[s].holding}
                            = {r \in stg[k] : r.holding # w[s].holding}]_vars
    BY SaveIsolated
  <1> QED BY <1>1, RowsInvariant, PTL DEF Spec, HoldingsIsolated
-----------------------------------------------------------------------------
(* A line that is written refers to a row of its invoice. *)
LEMMA WriteRefs ==
  ASSUME TypeInv, RowsInv, NEW s \in Sessions, pc[s] = "save", RefReady(s), Write(s),
         NEW l \in stg'["lines"]
  PROVE  l \in stg["lines"] \/ RefersTo(l.ref, MoveOf[l.key], l.holding)
  <1>1. /\ stg \in [Kinds -> SUBSET StgRow] /\ kind[s] \in Kinds /\ w[s] \in Local /\ SaveReady(s)
        /\ "lines" \in Kinds
    BY DEF TypeInv, TypeOK, RowsInv, Kinds
  <1>2. CASE kind[s] # "lines"
    BY <1>1, <1>2 DEF Write
  <1>3. CASE kind[s] = "lines" /\ w[s].row = NoRow
    <2>1. l \in stg["lines"] \/ l = Inserted(s)
      BY <1>1, <1>3 DEF Write
    <2>2. RefersTo(w[s].ref, MoveOf[w[s].item], w[s].holding)
      BY <1>3 DEF RefReady
    <2> QED BY <2>1, <2>2 DEF Inserted
  <1>4. CASE kind[s] = "lines" /\ w[s].row # NoRow
    <2> DEFINE u == Updated(w[s])
    <2>1. w[s].row \in StgRow /\ w[s].row.key = w[s].item /\ w[s].row.holding = w[s].holding
      BY <1>1, <1>4 DEF Local, SaveReady
    <2>2. /\ u.key = w[s].row.key /\ u.holding = w[s].row.holding
          /\ u.ref = IF w[s].ref # NoRow THEN w[s].ref ELSE w[s].row.ref
      BY <2>1 DEF Updated, StgRow
    <2>3. RefersTo(u.ref, MoveOf[u.key], u.holding)
      BY <1>4, <2>1, <2>2 DEF RefReady
    <2>4. l \in stg["lines"] \/ l = u
      BY <1>1, <1>4 DEF Write
    <2> QED BY <2>3, <2>4
  <1> QED BY <1>2, <1>3, <1>4

(* A step that leaves the tables alone and starts neither a find nor a save. *)
LEMMA RefsFrame ==
  ASSUME TypeInv, RefsInv, UNCHANGED stg,
         \A t \in Sessions : pc'[t] \in {"find", "save"} =>
           pc'[t] = pc[t] /\ w'[t] = w[t] /\ kind'[t] = kind[t]
  PROVE  RefsInv'
  <1>1. LineRefsInvoice'
    BY DEF RefsInv, LineRefsInvoice
  <1>2. ASSUME NEW t \in Sessions PROVE RefReady(t)'
    BY DEF RefsInv, RefReady, RefersTo
  <1> QED BY <1>1, <1>2 DEF RefsInv

(* Every step keeps the invariant of the references, action by action. *)
LEMMA RefsStep == TypeInv /\ RowsInv /\ RefsInv /\ [Next]_vars => RefsInv'
  <1> SUFFICES ASSUME TypeInv, RowsInv, RefsInv, [Next]_vars PROVE RefsInv'
    OBVIOUS
  <1> USE DEF TypeInv
  <1>1. ASSUME NEW s \in Sessions, Save(s) PROVE RefsInv'
    <2>1. /\ pc[s] = "save" /\ pc' = [pc EXCEPT ![s] = "report"] /\ kind' = kind
          /\ \A t \in Sessions : t # s => w'[t] = w[t] /\ pc'[t] = pc[t]
      BY <1>1 DEF Save, CountError, Goto, TypeOK
    <2>2. CASE UNCHANGED stg
      BY <2>1, <2>2, RefsFrame DEF TypeOK
    <2>3. CASE Write(s)
      <3>1. \A id, i, h : RefersTo(id, i, h) => RefersTo(id, i, h)'
        <4>1. "invoices" \in Kinds /\ SaveReady(s) /\ IdsUnique
          BY DEF Kinds, RowsInv
        <4> QED BY <2>1, <2>3, <4>1, WriteRows DEF RefersTo, SameRow
      <3>2. LineRefsInvoice'
        <4>1. \A l \in stg["lines"] : RefersTo(l.ref, MoveOf[l.key], l.holding)
          BY DEF RefsInv, LineRefsInvoice, RefersTo
        <4>2. \A l \in stg'["lines"] : RefersTo(l.ref, MoveOf[l.key], l.holding)'
          BY <2>1, <2>3, <3>1, <4>1, WriteRefs DEF RefsInv
        <4> QED BY <4>2 DEF LineRefsInvoice, RefersTo
      <3>3. ASSUME NEW t \in Sessions PROVE RefReady(t)'
        <4>1. CASE t = s
          BY <2>1, <4>1 DEF RefReady, TypeOK
        <4>2. CASE t # s
          BY <2>1, <3>1, <4>2 DEF RefReady, RefsInv
        <4> QED BY <4>1, <4>2
      <3> QED BY <3>2, <3>3 DEF RefsInv
    <2> QED BY <1>1, <2>2, <2>3 DEF Save
  <1>2. ASSUME NEW s \in Sessions, LookupInvoice(s) PROVE RefsInv'
    <2>1. UNCHANGED <<stg, kind>> /\ \A t \in Sessions : t # s => w'[t] = w[t] /\ pc'[t] = pc[t]
      BY <1>2 DEF LookupInvoice, CountError, Goto, TypeOK, dbVars
    <2>2. CASE pc' = [pc EXCEPT ![s] = "report"]
      BY <2>1, <2>2, RefsFrame DEF TypeOK
    <2>3. ASSUME NEW r \in Found(Matches("invoices", MoveOf[w[s].item], w[s].holding)),
                 w' = [w EXCEPT ![s].ref = StagingId(r)], pc' = [pc EXCEPT ![s] = "find"]
          PROVE  RefsInv'
      <3>1. /\ (w[s].ref)' = StagingId(r) /\ (w[s].item)' = w[s].item /\ (w[s].holding)' = w[s].holding
            /\ pc'[s] = "find"
        BY <2>3 DEF TypeOK, Local
      <3>2. StagingId(r) # NoRow => RefersTo(StagingId(r), MoveOf[w[s].item], w[s].holding)
        BY <2>3 DEF StagingId, Found, Matches, RefersTo
      <3>3. RefReady(s)'
        BY <2>1, <3>1, <3>2 DEF RefReady, RefersTo
      <3>4. ASSUME NEW t \in Sessions, t # s PROVE RefReady(t)'
        BY <2>1, <3>4 DEF RefsInv, RefReady, RefersTo
      <3>5. LineRefsInvoice'
        BY <2>1 DEF RefsInv, LineRefsInvoice
      <3> QED BY <3>3, <3>4, <3>5 DEF RefsInv
    <2> QED BY <1>2, <2>2, <2>3 DEF LookupInvoice, CountError, Goto
  <1>3. ASSUME NEW s \in Sessions, FindExisting(s) PROVE RefsInv'
    <2>1. UNCHANGED <<stg, kind>> /\ pc[s] = "find"
          /\ \A t \in Sessions : t # s => w'[t] = w[t] /\ pc'[t] = pc[t]
      BY <1>3 DEF FindExisting, CountError, Goto, TypeOK, dbVars
    <2>2. CASE pc' = [pc EXCEPT ![s] = "report"]
      BY <2>1, <2>2, RefsFrame DEF TypeOK
    <2>3. ASSUME NEW r \in Found(Matches(kind[s], w[s].item, w[s].holding)),
                 ~ (r = NoRow /\ kind[s] = "lines" /\ w[s].ref = NoRow),
                 w' = [w EXCEPT ![s].row = r], pc' = [pc EXCEPT ![s] = "save"]
          PROVE  RefsInv'
      <3>1. /\ (w[s].row)' = r /\ (w[s].ref)' = w[s].ref /\ (w[s].item)' = w[s].item
            /\ (w[s].holding)' = w[s].holding /\ pc'[s] = "save"
        BY <2>3 DEF TypeOK, Local
      <3>2. kind[s] = "lines" /\ r # NoRow => RefersTo(r.ref, MoveOf[r.key], r.holding)
        BY <2>3 DEF Found, Matches, RefsInv, LineRefsInvoice, RefersTo
      <3>3. RefReady(s)'
        BY <2>1, <2>3, <3>1, <3>2 DEF RefReady, RefersTo, RefsInv
      <3>4. ASSUME NEW t \in Sessions, t # s PROVE RefReady(t)'
        BY <2>1, <3>4 DEF RefsInv, RefReady, RefersTo
      <3>5. LineRefsInvoice'
        BY <2>1 DEF RefsInv, LineRefsInvoice
      <3> QED BY <3>3, <3>4, <3>5 DEF RefsInv
    <2> QED BY <1>3, <2>2, <2>3 DEF FindExisting, CountError, Goto
  <1>4. ASSUME NEW s \in Sessions, NextPage(s) PROVE RefsInv'
    <2>1. UNCHANGED <<stg, kind>> /\ \A t \in Sessions : t # s => w'[t] = w[t] /\ pc'[t] = pc[t]
      BY <1>4 DEF NextPage, Goto, TypeOK, dbVars
    <2>2. \/ pc' = [pc EXCEPT ![s] = "finish"] \/ pc' = [pc EXCEPT ![s] = "fail"]
          \/ pc' = [pc EXCEPT ![s] = "lookup"]
          \/ pc' = [pc EXCEPT ![s] = "find"] /\ kind[s] # "lines"
      BY <1>4 DEF NextPage, Goto
    <2>3. RefReady(s)'
      BY <2>1, <2>2 DEF RefReady, TypeOK
    <2>4. ASSUME NEW t \in Sessions, t # s PROVE RefReady(t)'
      BY <2>1, <2>4 DEF RefsInv, RefReady, RefersTo
    <2>5. LineRefsInvoice'
      BY <2>1 DEF RefsInv, LineRefsInvoice
    <2> QED BY <2>3, <2>4, <2>5 DEF RefsInv
  (* The other steps of a session neither find nor save. *)
  <1>5. ASSUME NEW s \in Sessions,
               \/ StartAsyncInvoiceSync(s) \/ Respond(s) \/ Begin(s) \/ List(s) \/ Nothing(s)
               \/ SetTotal(s) \/ Report(s) \/ Finish(s) \/ Fail(s)
        PROVE  RefsInv'
    <2>1. UNCHANGED stg /\ \A t \in Sessions : t # s => w'[t] = w[t] /\ kind'[t] = kind[t] /\ pc'[t] = pc[t]
      BY <1>5 DEF StartAsyncInvoiceSync, Respond, Begin, List, Nothing, SetTotal, Report, Finish,
                  Fail, NextJob, Goto, TypeOK, dbVars
    <2>2. pc'[s] \notin {"find", "save"}
      BY <1>5 DEF StartAsyncInvoiceSync, Respond, Begin, List, Nothing, SetTotal, Report, Finish,
                  Fail, NextJob, Goto, TypeOK
    <2> QED BY <2>1, <2>2, RefsFrame
  <1>6. ASSUME NEW s \in Sessions, NEW k \in Kinds, SaveJobRow(s, k) PROVE RefsInv'
    <2>1. /\ pc' = pc \/ pc' = [pc EXCEPT ![s] = "rejected"]
          /\ UNCHANGED <<stg, kind, w>>
      BY <1>6 DEF SaveJobRow, Goto
    <2> QED BY <2>1, RefsFrame DEF TypeOK
  <1>7. CASE Crash
    <2>1. UNCHANGED stg /\ \A t \in Sessions : pc'[t] \notin {"find", "save"}
      BY <1>7 DEF Crash, Active, dbVars
    <2> QED BY <2>1, RefsFrame
  <1>8. CASE UNCHANGED <<stg, pc, kind, w>>
    BY <1>8, RefsFrame
  <1> QED
    BY <1>1, <1>2, <1>3, <1>4, <1>5, <1>6, <1>7, <1>8
    DEF Next, Step, OdooPosts, OdooReverses, OdooEdits, dbVars, taskVars, vars

(* A staged line refers to a staged row of the very invoice it belongs to. *)
THEOREM LinesReferToTheirInvoice == Spec => []LineRefsInvoice
  <1>1. Init => RowsInv /\ RefsInv
    BY DEF Init, RowsInv, IdsUnique, ActiveOverlap, Active, DuplicatesNeedOverlap, SaveReady,
           RefsInv, LineRefsInvoice, RefReady, Kinds
  <1>2. RefsInv => LineRefsInvoice
    BY DEF RefsInv
  <1> QED BY <1>1, <1>2, TypeInit, TypeStep, RowsStep, RefsStep, PTL DEF Spec
-----------------------------------------------------------------------------
(* The age of what is staged.  Odoo's versions only grow, and a record in  *)
(* hand is as new as what is staged of it, but for sessions that overlap.  *)
HandStates == {"lookup", "find", "save"}

Shared(s) == \E t \in Sessions : <<s, t>> \in overlap /\ w[t].holding = w[s].holding

HandFresh(s) ==
  pc[s] \in HandStates =>
    /\ w[s].ver <= ver[w[s].item]
    /\ \A r \in stg[kind[s]] :
         r.key = w[s].item /\ r.holding = w[s].holding => r.ver <= w[s].ver \/ Shared(s)

VersInv ==
  /\ \A k \in Kinds : \A r \in stg[k] : r.ver <= ver[r.key]
  /\ \A s \in Sessions : HandFresh(s)

(* What a write changes: one row, that of the record in hand, which gets   *)
(* the version in hand.                                                    *)
LEMMA WriteVers ==
  ASSUME TypeInv, NEW s \in Sessions, pc[s] = "save", SaveReady(s), Write(s),
         NEW k \in Kinds, NEW r \in stg'[k]
  PROVE  \/ r \in stg[k]
         \/ /\ k = kind[s] /\ r.key = w[s].item /\ r.holding = w[s].holding /\ r.ver = w[s].ver
            /\ IF w[s].row = NoRow THEN r.id = nextId ELSE r.id = w[s].row.id
  <1>1. stg \in [Kinds -> SUBSET StgRow] /\ kind[s] \in Kinds /\ w[s] \in Local
    BY DEF TypeInv, TypeOK
  <1>2. CASE w[s].row = NoRow
    <2>1. r \in stg[k] \/ (k = kind[s] /\ r = Inserted(s))
      BY <1>1, <1>2 DEF Write
    <2> QED BY <1>2, <2>1 DEF Inserted
  <1>3. CASE w[s].row # NoRow
    <2>1. w[s].row \in StgRow /\ w[s].row.key = w[s].item /\ w[s].row.holding = w[s].holding
      BY <1>1, <1>3 DEF Local, SaveReady
    <2>2. r \in stg[k] \/ (k = kind[s] /\ r = Updated(w[s]))
      BY <1>1, <1>3 DEF Write
    <2>3. /\ Updated(w[s]).key = w[s].item /\ Updated(w[s]).holding = w[s].holding
          /\ Updated(w[s]).ver = w[s].ver /\ Updated(w[s]).id = w[s].row.id
      BY <2>1 DEF Updated, StgRow
    <2> QED BY <1>3, <2>2, <2>3
  <1> QED BY <1>2, <1>3

(* Only a save writes a staging table. *)
LEMMA OnlySavesWrite == [Next]_vars => UNCHANGED <<stg, nextId>> \/ \E s \in Sessions : Save(s)
  BY DEF Next, Step, StartAsyncInvoiceSync, SaveJobRow, Respond, Begin, List, Nothing, SetTotal,
         NextPage, LookupInvoice, FindExisting, Report, Finish, Fail, Crash, OdooPosts,
         OdooReverses, OdooEdits, dbVars, vars

(* A session works for one holding all its life. *)
LEMMA HoldingKept ==
  ASSUME TypeInv, [Next]_vars
  PROVE  \A t \in Sessions : w'[t].holding = w[t].holding
  <1> USE DEF TypeInv
  <1>1. w \in [Sessions -> Local] /\ kind \in [Sessions -> Kinds]
    BY DEF TypeOK
  <1>2. \A l \in Local : /\ [l EXCEPT !.errs = @ + 1].holding = l.holding
                         /\ [l EXCEPT !.saved = @ + 1].holding = l.holding
                         /\ \A r : [l EXCEPT !.ref = r].holding = l.holding
                         /\ \A r : [l EXCEPT !.row = r].holding = l.holding
                         /\ Fresh(l.holding).holding = l.holding
    BY DEF Local, Fresh
  <1>3. ASSUME NEW s \in Sessions, List(s) PROVE \A t \in Sessions : w'[t].holding = w[t].holding
    <2>1. w' = w \/ w' = [w EXCEPT ![s] = WithList(w[s], kind[s])]
      BY <1>3 DEF List
    <2>2. WithList(w[s], kind[s]).holding = w[s].holding
      BY <1>1, WithListType
    <2> QED BY <1>1, <2>1, <2>2
  <1>4. ASSUME NEW s \in Sessions, NextPage(s) PROVE \A t \in Sessions : w'[t].holding = w[t].holding
    BY <1>1, <1>4, WithItemType, NextItemsType DEF NextPage
  <1>5. ASSUME NEW s \in Sessions, LookupInvoice(s) \/ FindExisting(s) \/ Save(s)
        PROVE  \A t \in Sessions : w'[t].holding = w[t].holding
    <2>1. \/ \E r : w' = [w EXCEPT ![s] = [w[s] EXCEPT !.ref = r]]
          \/ \E r : w' = [w EXCEPT ![s] = [w[s] EXCEPT !.row = r]]
          \/ w' = [w EXCEPT ![s] = [w[s] EXCEPT !.saved = @ + 1]]
          \/ w' = [w EXCEPT ![s] = [w[s] EXCEPT !.errs = @ + 1]]
      BY <1>5 DEF LookupInvoice, FindExisting, Save, CountError
    <2>2. ASSUME NEW l, w' = [w EXCEPT ![s] = l], l.holding = w[s].holding
          PROVE  \A t \in Sessions : w'[t].holding = w[t].holding
      BY <1>1, <2>2
    <2>3. w[s] \in Local
      BY <1>1
    <2>4. \/ \E r : w' = [w EXCEPT ![s] = [w[s] EXCEPT !.ref = r]]
          \/ \E r : w' = [w EXCEPT ![s] = [w[s] EXCEPT !.row = r]]
          => \A t \in Sessions : w'[t].holding = w[t].holding
      BY <1>2, <2>2, <2>3
    <2>5. \/ w' = [w EXCEPT ![s] = [w[s] EXCEPT !.saved = @ + 1]]
          \/ w' = [w EXCEPT ![s] = [w[s] EXCEPT !.errs = @ + 1]]
          => \A t \in Sessions : w'[t].holding = w[t].holding
      BY <1>2, <2>2, <2>3
    <2> QED BY <2>1, <2>4, <2>5
  <1>6. ASSUME NEW s \in Sessions, Report(s) PROVE \A t \in Sessions : w'[t].holding = w[t].holding
    BY <1>1, <1>6, WithoutItemType DEF Report
  <1>7. ASSUME NEW s \in Sessions, Finish(s) \/ Fail(s)
        PROVE  \A t \in Sessions : w'[t].holding = w[t].holding
    BY <1>1, <1>2, <1>7 DEF Finish, Fail, NextJob
  <1>8. CASE Crash
    BY <1>1, <1>2, <1>8 DEF Crash
  <1>9. CASE UNCHANGED w
    BY <1>9
  <1> QED
    BY <1>3, <1>4, <1>5, <1>6, <1>7, <1>8, <1>9
    DEF Next, Step, StartAsyncInvoiceSync, SaveJobRow, Respond, Begin, Nothing, SetTotal, OdooPosts,
        OdooReverses, OdooEdits, taskVars, vars

(* A step that leaves the tables alone and takes no record in hand. *)
LEMMA VersFrame ==
  ASSUME TypeInv, VersInv, UNCHANGED stg, overlap \subseteq overlap',
         ver' \in [Keys -> Nat], \A x \in Keys : ver[x] <= ver'[x],
         \A t \in Sessions :
           /\ w'[t].holding = w[t].holding
           /\ pc'[t] \in HandStates => /\ pc[t] \in HandStates /\ kind'[t] = kind[t]
                                       /\ w'[t].item = w[t].item /\ w'[t].ver = w[t].ver
  PROVE  VersInv'
  <1> USE DEF TypeInv
  <1>1. /\ stg \in [Kinds -> SUBSET StgRow] /\ ver \in [Keys -> Nat] /\ w \in [Sessions -> Local]
        /\ kind \in [Sessions -> Kinds]
    BY DEF TypeOK
  <1>2. ASSUME NEW k \in Kinds, NEW r \in stg'[k] PROVE r.ver <= ver'[r.key]
    <2>1. r \in stg[k] /\ r.ver \in Nat /\ r.key \in Keys
      BY <1>1 DEF StgRow
    <2>2. r.ver <= ver[r.key] /\ ver[r.key] <= ver'[r.key] /\ ver[r.key] \in Nat /\ ver'[r.key] \in Nat
      BY <1>1, <2>1 DEF VersInv
    <2> QED BY <2>1, <2>2
  <1>3. ASSUME NEW t \in Sessions, pc'[t] \in HandStates PROVE HandFresh(t)'
    <2>1. HandFresh(t) /\ pc[t] \in HandStates /\ kind'[t] = kind[t]
          /\ w'[t].item = w[t].item /\ w'[t].ver = w[t].ver /\ w'[t].holding = w[t].holding
      BY <1>3 DEF VersInv
    <2>2. w[t].item \in Keys /\ w[t].ver \in Nat
      BY <1>1, <2>1, RecordsAreKeys DEF HoldsRecords, HandStates, Local
    <2>3. w[t].ver <= ver[w[t].item] /\ ver[w[t].item] \in Nat /\ ver[w[t].item] <= ver'[w[t].item]
          /\ ver'[w[t].item] \in Nat
      BY <1>1, <2>1, <2>2 DEF HandFresh
    <2>4. w'[t].ver <= ver'[w'[t].item]
      BY <2>1, <2>2, <2>3
    <2>5. Shared(t) => Shared(t)'
      BY <2>1 DEF Shared
    <2> QED BY <2>1, <2>4, <2>5 DEF HandFresh
  <1> QED BY <1>2, <1>3 DEF VersInv, HandFresh

(* A save keeps the versions in order. *)
LEMMA SaveVers ==
  ASSUME TypeInv, RowsInv, VersInv, NEW s \in Sessions, Save(s)
  PROVE  VersInv'
  <1> USE DEF TypeInv
  <1>1. /\ stg \in [Kinds -> SUBSET StgRow] /\ ver \in [Keys -> Nat] /\ w \in [Sessions -> Local]
        /\ kind \in [Sessions -> Kinds] /\ pc \in [Sessions -> Control]
    BY DEF TypeOK
  <1>2. /\ pc[s] = "save" /\ pc' = [pc EXCEPT ![s] = "report"] /\ UNCHANGED <<kind, overlap, ver>>
        /\ \A t \in Sessions : t # s => w'[t] = w[t]
        /\ SaveReady(s)
    BY <1>1 DEF Save, CountError, Goto, odooVars, RowsInv
  <1>3. \A t \in Sessions : w'[t].holding = w[t].holding
    BY HoldingKept DEF Next, Step
  <1>4. CASE UNCHANGED stg
    <2>1. \A t \in Sessions : pc'[t] \in HandStates => t # s /\ pc[t] \in HandStates
      BY <1>1, <1>2 DEF HandStates
    <2>2. ver' \in [Keys -> Nat] /\ \A x \in Keys : ver[x] <= ver'[x]
      BY <1>1, <1>2
    <2> QED BY <1>2, <1>3, <1>4, <2>1, <2>2, VersFrame
  <1>5. CASE Write(s)
    <2>1. HandFresh(s)
      BY DEF VersInv
    <2>2. w[s].ver <= ver[w[s].item]
      BY <1>2, <2>1 DEF HandFresh, HandStates
    <2>3. \A k \in Kinds : \A r \in stg'[k] : r.ver <= ver'[r.key]
      BY <1>2, <1>5, <2>2, WriteVers DEF VersInv
    <2>4. ASSUME NEW t \in Sessions, pc'[t] \in HandStates PROVE HandFresh(t)'
      <3>1. t # s /\ pc[t] \in HandStates /\ w'[t] = w[t] /\ kind'[t] = kind[t] /\ kind[t] \in Kinds
        BY <1>1, <1>2, <2>4 DEF HandStates
      <3>2. HandFresh(t)
        BY DEF VersInv
      <3>3. <<t, s>> \in overlap
        BY <1>2, <3>1 DEF RowsInv, ActiveOverlap, Active, HandStates
      <3>4. Shared(t)' <=> Shared(t)
        BY <1>2, <1>3 DEF Shared
      <3>5. ASSUME NEW r \in stg'[kind[t]], r.key = w[t].item, r.holding = w[t].holding
            PROVE  r.ver <= w[t].ver \/ Shared(t)
        <4>1. CASE r \in stg[kind[t]]
          BY <3>1, <3>2, <3>5, <4>1 DEF HandFresh
        <4>2. CASE r.holding = w[s].holding
          BY <3>3, <3>5, <4>2 DEF Shared
        <4> QED BY <1>2, <1>5, <3>1, <4>1, <4>2, WriteVers
      <3>6. w'[t].ver <= ver'[w'[t].item]
        BY <1>2, <3>1, <3>2 DEF HandFresh
      <3> QED BY <1>2, <3>1, <3>4, <3>5, <3>6 DEF HandFresh
    <2> QED BY <2>3, <2>4 DEF VersInv, HandFresh
  <1> QED BY <1>4, <1>5 DEF Save

(* A record is read as it is now, which is as new as anything staged. *)
LEMMA PageVers ==
  ASSUME TypeInv, VersInv, NEW s \in Sessions, NextPage(s)
  PROVE  VersInv'
  <1> USE DEF TypeInv
  <1>1. /\ stg \in [Kinds -> SUBSET StgRow] /\ ver \in [Keys -> Nat] /\ w \in [Sessions -> Local]
        /\ kind \in [Sessions -> Kinds] /\ pc \in [Sessions -> Control]
    BY DEF TypeOK
  <1>2. /\ UNCHANGED <<stg, ver, overlap, kind>>
        /\ \A t \in Sessions : t # s => w'[t] = w[t] /\ pc'[t] = pc[t]
    BY <1>1 DEF NextPage, Goto, dbVars, odooVars
  <1>3. \A t \in Sessions : w'[t].holding = w[t].holding
    BY HoldingKept DEF Next, Step
  <1>4. CASE pc'[s] \notin HandStates
    <2>1. \A x \in Keys : ver[x] <= ver[x]
      BY <1>1
    <2> QED BY <1>1, <1>2, <1>3, <1>4, <2>1, VersFrame
  <1>5. ASSUME NEW x \in NextItems(s), w' = [w EXCEPT ![s] = WithItem(w[s], x)]
        PROVE  VersInv'
    <2>1. x \in Keys /\ w'[s] = WithItem(w[s], x)
      BY <1>1, <1>5, NextItemsType
    <2>2. w'[s].item = x /\ w'[s].ver = ver[x]
      BY <1>1, <2>1 DEF WithItem, ReadVersion, Local
    <2>3. HandFresh(s)'
      <3>1. \A r \in stg'[kind'[s]] : r.key = x => r.ver <= ver[x]
        BY <1>1, <1>2 DEF VersInv
      <3> QED BY <1>1, <1>2, <2>1, <2>2, <3>1 DEF HandFresh
    <2>4. ASSUME NEW t \in Sessions, t # s PROVE HandFresh(t)'
      <3>1. Shared(t)' <=> Shared(t)
        BY <1>2, <1>3 DEF Shared
      <3> QED BY <1>2, <2>4, <3>1 DEF VersInv, HandFresh
    <2> QED BY <1>2, <2>3, <2>4 DEF VersInv
  <1>6. (\E x \in NextItems(s) : w' = [w EXCEPT ![s] = WithItem(w[s], x)]) \/ pc'[s] \notin HandStates
    BY <1>1 DEF NextPage, Goto, HandStates
  <1> QED BY <1>4, <1>5, <1>6

(* Every step keeps the versions in order, action by action. *)
LEMMA VersStep == TypeInv /\ RowsInv /\ VersInv /\ [Next]_vars => VersInv'
  <1> SUFFICES ASSUME TypeInv, RowsInv, VersInv, [Next]_vars PROVE VersInv'
    OBVIOUS
  <1> USE DEF TypeInv
  <1>1. /\ ver \in [Keys -> Nat] /\ w \in [Sessions -> Local] /\ pc \in [Sessions -> Control]
        /\ \A x \in Keys : ver[x] <= ver[x]
    BY DEF TypeOK
  <1>2. \A t \in Sessions : w'[t].holding = w[t].holding
    BY HoldingKept
  <1>3. ASSUME NEW s \in Sessions, LookupInvoice(s) \/ FindExisting(s) PROVE VersInv'
    <2>1. /\ UNCHANGED <<stg, ver, overlap, kind>>
          /\ \A t \in Sessions : t # s => w'[t] = w[t] /\ pc'[t] = pc[t]
          /\ pc[s] \in HandStates
      BY <1>1, <1>3 DEF LookupInvoice, FindExisting, CountError, Goto, dbVars, odooVars, HandStates
    <2>2. w'[s].item = w[s].item /\ w'[s].ver = w[s].ver
      BY <1>1, <1>3 DEF LookupInvoice, FindExisting, CountError, Local
    <2> QED BY <1>1, <1>2, <2>1, <2>2, VersFrame
  (* The other steps of a session take nothing in hand. *)
  <1>4. ASSUME NEW s \in Sessions,
               \/ StartAsyncInvoiceSync(s) \/ (\E k \in Kinds : SaveJobRow(s, k)) \/ Respond(s) \/ Begin(s)
               \/ List(s) \/ Nothing(s) \/ SetTotal(s) \/ Report(s) \/ Finish(s) \/ Fail(s)
        PROVE  VersInv'
    <2>1. /\ UNCHANGED <<stg, ver>> /\ overlap \subseteq overlap'
          /\ \A t \in Sessions : t # s => w'[t] = w[t] /\ pc'[t] = pc[t] /\ kind'[t] = kind[t]
      BY <1>1, <1>4 DEF StartAsyncInvoiceSync, SaveJobRow, Respond, Begin, List, Nothing, SetTotal,
                        Report, Finish, Fail, NextJob, Goto, TypeOK, dbVars, odooVars
    <2>2. pc'[s] \notin HandStates \/ UNCHANGED <<pc, w, kind>>
      BY <1>1, <1>4 DEF StartAsyncInvoiceSync, SaveJobRow, Respond, Begin, List, Nothing, SetTotal,
                        Report, Finish, Fail, NextJob, Goto, HandStates
    <2> QED BY <1>1, <1>2, <2>1, <2>2, VersFrame
  <1>5. CASE Crash
    <2>1. UNCHANGED <<stg, ver, overlap>> /\ \A t \in Sessions : pc'[t] \notin HandStates
      BY <1>5 DEF Crash, Active, dbVars, odooVars, HandStates
    <2> QED BY <1>1, <1>2, <2>1, VersFrame
  <1>6. ASSUME NEW x \in Keys, OdooEdits(x) PROVE VersInv'
    <2>1. /\ UNCHANGED <<stg, overlap, pc, kind, w>>
          /\ ver' \in [Keys -> Nat] /\ \A y \in Keys : ver[y] <= ver'[y]
      BY <1>1, <1>6 DEF OdooEdits, dbVars, taskVars
    <2> QED BY <2>1, VersFrame
  <1>7. CASE UNCHANGED <<stg, overlap, ver, pc, kind, w>>
    BY <1>1, <1>7, VersFrame
  <1> QED
    BY <1>3, <1>4, <1>5, <1>6, <1>7, SaveVers, PageVers
    DEF Next, Step, OdooPosts, OdooReverses, dbVars, taskVars, vars

(* A save puts an older version over a newer one only if the session       *)
(* overlapped with another one of its holding.                             *)
LEMMA SaveNotStale ==
  ASSUME TypeInv, RowsInv, VersInv, NEW s \in Sessions, Save(s),
         NEW k \in Kinds, NEW q \in stg[k], NEW r \in stg'[k], q.id = r.id, r.ver < q.ver
  PROVE  Shared(s) /\ r.holding = w[s].holding
  <1> USE DEF TypeInv
  <1>1. /\ stg \in [Kinds -> SUBSET StgRow] /\ w[s] \in Local /\ nextId \in Nat
        /\ q.id \in Nat /\ q.ver \in Nat /\ pc[s] = "save" /\ SaveReady(s) /\ HandFresh(s)
    BY DEF TypeOK, StgRow, Save, RowsInv, VersInv
  <1>2. r \notin stg[k]
    BY <1>1 DEF RowsInv, IdsUnique
  <1>3. Write(s)
    BY <1>2 DEF Save
  <1>4. /\ k = kind[s] /\ r.holding = w[s].holding /\ r.ver = w[s].ver
        /\ IF w[s].row = NoRow THEN r.id = nextId ELSE r.id = w[s].row.id
    BY <1>1, <1>2, <1>3, WriteVers
  <1>5. q.id < nextId
    BY DEF RowsInv, IdsUnique
  <1>6. w[s].row # NoRow
    BY <1>1, <1>4, <1>5
  <1>7. PICK o \in stg[k] : SameRow(o, w[s].row)
    BY <1>1, <1>4, <1>6 DEF SaveReady
  <1>8. q.key = w[s].item /\ q.holding = w[s].holding
    BY <1>1, <1>4, <1>6, <1>7 DEF RowsInv, IdsUnique, SameRow, SaveReady
  <1>9. q.ver <= w[s].ver \/ Shared(s)
    BY <1>1, <1>4, <1>8 DEF HandFresh, HandStates
  <1>10. w[s].ver \in Nat
    BY <1>1 DEF Local
  <1> QED BY <1>1, <1>4, <1>9, <1>10

(* Types, rows and versions hold throughout. *)
LEMMA VersInvariant == Spec => [](TypeInv /\ RowsInv /\ VersInv)
  <1>1. Init => VersInv
    BY DEF Init, VersInv, HandFresh, HandStates
  <1> QED BY <1>1, RowsInvariant, VersStep, PTL DEF Spec

(* Data staged for a record never goes back to an older version of it      *)
(* unless two sessions of its holding overlapped.                          *)
THEOREM StagedDataNeverGoesBack == Spec => NoStaleOverwrite
  <1>1. TypeInv /\ RowsInv /\ VersInv /\ [Next]_vars =>
          [\A k \in Kinds : \A q \in stg[k], r \in stg'[k] :
             q.id = r.id /\ r.ver < q.ver =>
               \E s, t \in Sessions :
                 <<s, t>> \in overlap /\ w[s].holding = r.holding /\ w[t].holding = r.holding]_stg
    BY OnlySavesWrite, SaveNotStale DEF Shared
  <1> QED BY <1>1, VersInvariant, PTL DEF Spec, NoStaleOverwrite
-----------------------------------------------------------------------------
(* What is staged.  The keys in a staging table, or in what became of it. *)
KeysIn(T, h) == {r.key : r \in {q \in T : q.holding = h}}

(* What is staged stays staged. *)
LEMMA StagedGrows ==
  ASSUME TypeInv, RowsInv, [Next]_vars, NEW k \in Kinds, NEW h
  PROVE  KeysIn(stg[k], h) \subseteq KeysIn(stg'[k], h)
  <1>1. CASE UNCHANGED stg
    BY <1>1
  <1>2. ASSUME NEW s \in Sessions, Save(s), Write(s) PROVE KeysIn(stg[k], h) \subseteq KeysIn(stg'[k], h)
    <2>1. pc[s] = "save" /\ SaveReady(s) /\ IdsUnique
      BY <1>2 DEF Save, RowsInv
    <2>2. \A q \in stg[k] : \E r \in stg'[k] : SameRow(q, r)
      BY <1>2, <2>1, WriteRows
    <2> QED BY <2>2 DEF KeysIn, SameRow
  <1> QED BY <1>1, <1>2, OnlySavesWrite DEF Save

(* A write stages the record in hand. *)
LEMMA WriteStages ==
  ASSUME TypeInv, NEW s \in Sessions, pc[s] = "save", SaveReady(s), Write(s)
  PROVE  w[s].item \in KeysIn(stg'[kind[s]], w[s].holding)
  <1>1. stg \in [Kinds -> SUBSET StgRow] /\ kind[s] \in Kinds /\ w[s] \in Local
    BY DEF TypeInv, TypeOK
  <1>2. CASE w[s].row = NoRow
    <2>1. Inserted(s) \in stg'[kind[s]]
      BY <1>1, <1>2 DEF Write
    <2> QED BY <2>1 DEF KeysIn, Inserted
  <1>3. CASE w[s].row # NoRow
    <2>1. w[s].row \in StgRow /\ w[s].row.key = w[s].item /\ w[s].row.holding = w[s].holding
      BY <1>1, <1>3 DEF Local, SaveReady
    <2>2. Updated(w[s]) \in stg'[kind[s]]
      BY <1>1, <1>3 DEF Write
    <2>3. Updated(w[s]).key = w[s].item /\ Updated(w[s]).holding = w[s].holding
      BY <2>1 DEF Updated, StgRow
    <2> QED BY <2>2, <2>3 DEF KeysIn
  <1> QED BY <1>2, <1>3
-----------------------------------------------------------------------------
(* The staging tables of module Staging.  Whose rows they are: those of a  *)
(* session are of its holding.                                             *)
ByHolding == \A k \in Kinds : \A r \in stg[k] : w[r.by].holding = r.holding

LEMMA ByHoldingKept ==
  ASSUME TypeInv, RowsInv, ByHolding, UNCHANGED stg \/ \E s \in Sessions : Save(s),
         \A t \in Sessions : w'[t].holding = w[t].holding
  PROVE  ByHolding'
  <1>1. \A k \in Kinds : \A r \in stg[k] : r.by \in Sessions
    BY DEF TypeInv, TypeOK, StgRow
  <1>2. CASE UNCHANGED stg
    BY <1>1, <1>2 DEF ByHolding
  <1>3. ASSUME NEW s \in Sessions, Save(s), Write(s) PROVE ByHolding'
    <2>1. pc[s] = "save" /\ SaveReady(s) /\ IdsUnique
      BY <1>3 DEF Save, RowsInv
    <2>2. ASSUME NEW k \in Kinds, NEW r \in stg'[k] PROVE w'[r.by].holding = r.holding
      <3>1. CASE \E q \in stg[k] : SameRow(q, r)
        BY <1>1, <3>1 DEF ByHolding, SameRow
      <3>2. CASE r = Inserted(s)
        BY <3>2 DEF Inserted
      <3> QED BY <1>3, <2>1, <2>2, <3>1, <3>2, WriteRows
    <2> QED BY <2>2 DEF ByHolding
  <1> QED BY <1>2, <1>3 DEF Save

(* Two sessions of a holding that overlap make it contended. *)
LEMMA SharedContended ==
  ASSUME TypeInv, NEW s \in Sessions, NEW t \in Sessions, <<s, t>> \in overlap,
         w[t].holding = w[s].holding
  PROVE  w[s].holding \in Contended
  <1>1. w[s].holding \in Holdings
    BY DEF TypeInv, TypeOK, Local
  <1> QED BY <1>1 DEF Contended

(* Every staged line refers well after a write. *)
LEMMA WriteRefersWell ==
  ASSUME TypeInv, RowsInv, RefsInv, NEW s \in Sessions, pc[s] = "save", Write(s),
         NEW k \in Kinds, NEW r \in stg'[k]
  PROVE  ST!RefersWell(k, r)
  <1>1. CASE k = "lines"
    <2>1. RefersTo(r.ref, MoveOf[r.key], r.holding)
      <3>1. r \in stg["lines"] \/ RefersTo(r.ref, MoveOf[r.key], r.holding)
        BY <1>1, WriteRefs DEF RefsInv
      <3> QED BY <3>1 DEF RefsInv, LineRefsInvoice, RefersTo
    <2> QED BY <1>1, <2>1 DEF ST!RefersWell, RefersTo
  <1> QED BY <1>1 DEF ST!RefersWell

(* A save that finds no row is an insertion of the abstract tables. *)
LEMMA InsertStages ==
  ASSUME TypeInv, RowsInv, RefsInv, ByHolding, NEW s \in Sessions, pc[s] = "save", Write(s),
         w[s].row = NoRow, Contended' = Contended
  PROVE  ST!Insert(kind[s], Inserted(s)) /\ Inserted(s) \in stg'[kind[s]]
  <1>1. /\ stg \in [Kinds -> SUBSET StgRow] /\ kind[s] \in Kinds /\ nextId \in Nat /\ ST!Tables = Kinds
        /\ SaveReady(s) /\ IdsUnique
    BY DEF TypeInv, TypeOK, RowsInv, ST!Tables, Kinds
  <1>2. /\ Inserted(s).id = nextId /\ Inserted(s).key = w[s].item /\ Inserted(s).holding = w[s].holding
    BY DEF Inserted
  <1>3. stg' = [stg EXCEPT ![kind[s]] = @ \cup {Inserted(s)}]
    BY DEF Write
  <1>4. Inserted(s) \in stg'[kind[s]]
    BY <1>1, <1>3
  <1>5. \A q \in stg[kind[s]] : q.id # Inserted(s).id
    <2>1. \A q \in stg[kind[s]] : q.id \in Nat /\ q.id < nextId
      BY <1>1 DEF IdsUnique, StgRow
    <2> QED BY <1>1, <1>2, <2>1
  <1>6. ASSUME NEW q \in stg[kind[s]], ST!Alike(q, Inserted(s)) PROVE w[s].holding \in Contended
    <2>1. q.key = w[s].item /\ q.holding = w[s].holding
      BY <1>2, <1>6 DEF ST!Alike
    <2>2. Overlapped(s, q.by)
      BY <1>1, <2>1 DEF SaveReady, Matches
    <2>3. q.by \in Sessions /\ w[q.by].holding = w[s].holding
      BY <1>1, <2>1 DEF ByHolding, StgRow
    <2> QED BY <2>2, <2>3, SharedContended DEF Overlapped
  <1>7. ST!RefersWell(kind[s], Inserted(s))
    BY <1>1, <1>4, WriteRefersWell
  <1> HIDE DEF Contended
  <1> QED BY <1>1, <1>2, <1>3, <1>4, <1>5, <1>6, <1>7 DEF ST!Insert

(* A save that found a row is an update of it. *)
LEMMA UpdateStages ==
  ASSUME TypeInv, RowsInv, RefsInv, VersInv, NEW s \in Sessions, pc[s] = "save", Write(s),
         w[s].row # NoRow, Contended' = Contended
  PROVE  \E q \in stg[kind[s]], r \in stg'[kind[s]] : ST!Update(kind[s], q, r)
  <1> DEFINE u == Updated(w[s])
  <1>1. /\ stg \in [Kinds -> SUBSET StgRow] /\ kind[s] \in Kinds /\ w[s] \in Local
        /\ SaveReady(s) /\ IdsUnique /\ HandFresh(s)
    BY DEF TypeInv, TypeOK, RowsInv, VersInv
  <1>2. w[s].row \in StgRow /\ w[s].ver \in Nat
    BY <1>1 DEF Local
  <1>3. u \in StgRow /\ SameRow(u, w[s].row) /\ u.ver = w[s].ver
    <2>1. w[s].ref \in Nat \cup {NoRow}
      BY <1>1 DEF Local
    <2> QED BY <1>2, <2>1 DEF Updated, SameRow, StgRow
  <1>4. PICK o \in stg[kind[s]] : SameRow(o, w[s].row)
    BY <1>1 DEF SaveReady
  <1>5. SameRow(o, u) /\ w[s].row.id = o.id /\ o \in StgRow
    BY <1>1, <1>3, <1>4 DEF SameRow
  <1>6. stg' = [stg EXCEPT ![kind[s]] = {r \in @ : r.id # o.id} \cup {u}]
    BY <1>5 DEF Write
  <1> HIDE DEF u
  <1>7. {r \in stg[kind[s]] : r.id # o.id} = stg[kind[s]] \ {o}
    BY <1>1 DEF IdsUnique
  <1>8. stg' = [stg EXCEPT ![kind[s]] = (@ \ {o}) \cup {u}]
    BY <1>6, <1>7
  <1>9. u \in stg'[kind[s]]
    BY <1>1, <1>8
  <1>10. u.id = o.id /\ ST!Alike(o, u)
    BY <1>5 DEF SameRow, ST!Alike
  <1>11. o.key = w[s].item /\ o.holding = w[s].holding
    BY <1>1, <1>4 DEF SaveReady, SameRow
  <1>12. o.holding \notin Contended => u.ver >= o.ver
    <2>1. o.ver <= w[s].ver \/ Shared(s)
      BY <1>1, <1>11 DEF HandFresh, HandStates
    <2>2. Shared(s) => w[s].holding \in Contended
      BY SharedContended DEF Shared
    <2>3. o.ver \in Nat
      BY <1>5 DEF StgRow
    <2> QED BY <1>2, <1>3, <1>11, <2>1, <2>2, <2>3
  <1>13. ST!RefersWell(kind[s], u)
    BY <1>1, <1>9, WriteRefersWell
  <1>14. ST!Update(kind[s], o, u)
    BY <1>8, <1>10, <1>12, <1>13 DEF ST!Update
  <1> QED BY <1>9, <1>14

(* A save does one of these, or nothing. *)
LEMMA SaveStages ==
  ASSUME TypeInv, RowsInv, RefsInv, VersInv, ByHolding, NEW s \in Sessions, Save(s), Contended' = Contended
  PROVE  [ST!Next]_ST!stagingVars
  <1>1. kind[s] \in ST!Tables /\ pc[s] = "save"
    BY DEF TypeInv, TypeOK, Kinds, ST!Tables, Save
  <1>2. CASE UNCHANGED stg
    BY <1>2 DEF ST!stagingVars
  <1>3. CASE Write(s) /\ w[s].row = NoRow
    BY <1>1, <1>3, InsertStages DEF ST!Next
  <1>4. CASE Write(s) /\ w[s].row # NoRow
    BY <1>1, <1>4, UpdateStages DEF ST!Next
  <1> QED BY <1>2, <1>3, <1>4 DEF Save

(* A session that starts can make its own holding contended, and no other. *)
LEMMA StartContends ==
  ASSUME TypeInv, NEW s \in Sessions, UNCHANGED stg, \A t \in Sessions : w'[t].holding = w[t].holding,
         overlap' = overlap \cup {<<s, t>> : t \in {u \in Sessions : Active(u)}}
                           \cup {<<t, s>> : t \in {u \in Sessions : Active(u)}}
  PROVE  [ST!Next]_ST!stagingVars
  <1>1. w[s].holding \in Holdings
    BY DEF TypeInv, TypeOK, Local
  <1>2. Contended \subseteq Contended'
    BY DEF Contended
  <1>3. Contended' \subseteq Contended \cup {w[s].holding}
    <2> SUFFICES ASSUME NEW h \in Holdings, NEW t \in Sessions, NEW u \in Sessions, <<t, u>> \in overlap',
                        w[t].holding = h, w[u].holding = h, h # w[s].holding
                 PROVE  <<t, u>> \in overlap
      BY DEF Contended
    <2>1. t # s /\ u # s
      OBVIOUS
    <2> QED BY <2>1
  <1>4. Contended' = Contended \/ Contended' = Contended \cup {w[s].holding}
    BY <1>2, <1>3
  <1> HIDE DEF Contended
  <1> QED BY <1>1, <1>4 DEF ST!Next, ST!Contend, ST!stagingVars

(* Without a start the contended holdings stay the same. *)
LEMMA ContendedKept ==
  ASSUME \A t \in Sessions : w'[t].holding = w[t].holding, overlap' = overlap
  PROVE  Contended' = Contended
  BY DEF Contended

(* Every step is one of the abstract tables, or leaves them as they are. *)
LEMMA StagingStep ==
  ASSUME TypeInv, RowsInv, RefsInv, VersInv, ByHolding, [Next]_vars
  PROVE  [ST!Next]_ST!stagingVars
  <1>1. \A t \in Sessions : w'[t].holding = w[t].holding
    BY HoldingKept
  <1>2. ASSUME NEW s \in Sessions, StartAsyncInvoiceSync(s) PROVE [ST!Next]_ST!stagingVars
    BY <1>1, <1>2, StartContends DEF StartAsyncInvoiceSync, dbVars
  <1>3. ASSUME NEW s \in Sessions, Save(s) PROVE [ST!Next]_ST!stagingVars
    BY <1>1, <1>3, ContendedKept, SaveStages DEF Save
  <1>4. CASE UNCHANGED <<stg, overlap>>
    BY <1>1, <1>4, ContendedKept DEF ST!stagingVars
  <1> QED
    BY <1>2, <1>3, <1>4
    DEF Next, Step, SaveJobRow, Respond, Begin, List, Nothing, SetTotal, NextPage, LookupInvoice,
        FindExisting, Report, Finish, Fail, Crash, OdooPosts, OdooReverses, OdooEdits, dbVars, vars

LEMMA StagingStart == Init => ST!Init /\ ByHolding
  <1> SUFFICES ASSUME Init PROVE ST!Init /\ ByHolding
    OBVIOUS
  <1>1. Contended = {}
    BY DEF Init, Contended
  <1>2. stg = [k \in Kinds |-> {}] /\ Kinds = ST!Tables
    BY DEF Init, Kinds, ST!Tables
  <1> QED BY <1>1, <1>2 DEF ST!Init, ByHolding

(* The jobs, each with its queries, saves and whatever runs between them,  *)
(* copy records as module Staging says.                                    *)
THEOREM StagingImplemented == Spec => ImplementsStaging
  <1>1. TypeInv /\ RowsInv /\ ByHolding /\ [Next]_vars => ByHolding'
    BY HoldingKept, OnlySavesWrite, ByHoldingKept
  <1>2. Init => RefsInv
    BY DEF Init, RefsInv, LineRefsInvoice, RefReady, Kinds
  <1> QED
    BY <1>1, <1>2, VersInvariant, RefsStep, StagingStart, StagingStep, PTL
    DEF Spec, ImplementsStaging, ST!Spec

(* A step of the abstract tables loses nothing a reader relies on. *)
TablesThere == DOMAIN stg = ST!Tables

LEMMA ReadersStep ==
  ASSUME TablesThere, ST!ReadersRely, [ST!Next]_ST!stagingVars
  PROVE  TablesThere' /\ ST!ReadersRely'
  <1> HIDE DEF Contended
  <1>1. /\ \A k \in ST!Tables : \A q, r \in stg[k] : q # r /\ ST!Alike(q, r) => q.holding \in Contended
        /\ \A l \in stg["lines"] : ST!RefersWell("lines", l)
    BY DEF ST!ReadersRely
  <1>2. CASE UNCHANGED ST!stagingVars
    BY <1>2 DEF ST!stagingVars, ST!ReadersRely, ST!RefersWell, TablesThere
  <1>3. ASSUME NEW h \in Holdings, ST!Contend(h) PROVE TablesThere' /\ ST!ReadersRely'
    BY <1>1, <1>3 DEF ST!Contend, ST!ReadersRely, ST!RefersWell, TablesThere
  (* A row that takes the place of another like it, or is new. *)
  <1>4. ASSUME NEW k \in ST!Tables, NEW r, NEW T, stg' = [stg EXCEPT ![k] = T \cup {r}], T \subseteq stg[k],
               \A q \in stg[k] \ T : r.id = q.id /\ ST!Alike(q, r),
               \A q \in T : ST!Alike(q, r) => q.holding \in Contended \/ q = r,
               ST!RefersWell(k, r), Contended' = Contended
        PROVE  TablesThere' /\ ST!ReadersRely'
    <2>1. \A j \in ST!Tables : stg'[j] = IF j = k THEN T \cup {r} ELSE stg[j]
      BY <1>4 DEF TablesThere
    <2>2. TablesThere'
      BY <1>4 DEF TablesThere
    <2>3. ASSUME NEW l, ST!RefersWell("lines", l) PROVE ST!RefersWell("lines", l)'
      <3>1. PICK i \in stg["invoices"] : i.id = l.ref /\ i.key = MoveOf[l.key] /\ i.holding = l.holding
        BY <2>3 DEF ST!RefersWell
      <3>2. \E j \in stg'["invoices"] : j.id = i.id /\ j.key = i.key /\ j.holding = i.holding
        <4>1. CASE i \in stg'["invoices"]
          BY <4>1
        <4>2. CASE i \notin stg'["invoices"]
          <5>1. "invoices" \in ST!Tables
            BY DEF ST!Tables
          <5>2. k = "invoices" /\ i \in stg[k] \ T /\ r \in stg'["invoices"]
            BY <2>1, <4>2, <5>1
          <5> QED BY <1>4, <5>2 DEF ST!Alike
        <4> QED BY <4>1, <4>2
      <3> QED BY <3>1, <3>2 DEF ST!RefersWell
    <2>4. ASSUME NEW l \in stg'["lines"] PROVE ST!RefersWell("lines", l)'
      <3>1. "lines" \in ST!Tables
        BY DEF ST!Tables
      <3>2. l \in stg["lines"] \/ (k = "lines" /\ l = r)
        BY <1>4, <2>1, <2>4, <3>1
      <3> QED BY <1>1, <1>4, <2>3, <3>2
    <2>5. ASSUME NEW j \in ST!Tables, NEW p \in stg'[j], NEW q \in stg'[j], p # q, ST!Alike(p, q)
          PROVE  p.holding \in Contended
      <3>1. CASE p \in stg[j] /\ q \in stg[j]
        BY <1>1, <2>5, <3>1
      <3>2. CASE j = k /\ p = r
        <4>1. q \in T /\ ST!Alike(q, r) /\ q.holding = p.holding
          BY <2>1, <2>5, <3>2 DEF ST!Alike
        <4> QED BY <1>4, <2>5, <3>2, <4>1
      <3>3. CASE j = k /\ q = r
        <4>1. p \in T
          BY <2>1, <2>5, <3>3
        <4> QED BY <1>4, <2>5, <3>3, <4>1
      <3> QED BY <1>4, <2>1, <2>5, <3>1, <3>2, <3>3
    <2> QED BY <1>4, <2>2, <2>4, <2>5 DEF ST!ReadersRely, ST!Alike
  <1>5. ASSUME NEW k \in ST!Tables, NEW r \in stg'[k], ST!Insert(k, r)
        PROVE  TablesThere' /\ ST!ReadersRely'
    <2> DEFINE T == stg[k]
    <2>1. /\ stg' = [stg EXCEPT ![k] = T \cup {r}] /\ Contended' = Contended /\ ST!RefersWell(k, r)
          /\ r.holding \notin Contended => \A q \in T : ~ST!Alike(q, r)
      BY <1>5 DEF ST!Insert
    <2>2. \A q \in T : ST!Alike(q, r) => q.holding \in Contended \/ q = r
      BY <2>1 DEF ST!Alike
    <2>3. T \subseteq stg[k] /\ \A q \in stg[k] \ T : r.id = q.id /\ ST!Alike(q, r)
      OBVIOUS
    <2> HIDE DEF T
    <2> QED BY <1>4, <2>1, <2>2, <2>3
  <1>6. ASSUME NEW k \in ST!Tables, NEW r \in stg'[k], NEW o \in stg[k], ST!Update(k, o, r)
        PROVE  TablesThere' /\ ST!ReadersRely'
    <2> DEFINE T == stg[k] \ {o}
    <2>1. /\ stg' = [stg EXCEPT ![k] = T \cup {r}] /\ Contended' = Contended /\ ST!RefersWell(k, r)
          /\ r.id = o.id /\ ST!Alike(o, r)
      BY <1>6 DEF ST!Update
    <2>2. \A q \in T : ST!Alike(q, r) => q.holding \in Contended \/ q = r
      BY <1>1, <2>1 DEF ST!Alike
    <2>3. T \subseteq stg[k] /\ \A q \in stg[k] \ T : r.id = q.id /\ ST!Alike(q, r)
      BY <2>1
    <2> HIDE DEF T
    <2> QED BY <1>4, <2>1, <2>2, <2>3
  <1> QED BY <1>2, <1>3, <1>5, <1>6 DEF ST!Next

(* Whatever implements the abstract tables, a reader finds one row for each*)
(* record, but in a contended holding, and the invoice of each line.       *)
THEOREM ReadersMayRely == ImplementsStaging => []ST!ReadersRely
  <1>1. ST!Init => TablesThere /\ ST!ReadersRely
    BY DEF ST!Init, ST!ReadersRely, ST!Tables, TablesThere
  <1>2. TablesThere /\ ST!ReadersRely /\ [ST!Next]_ST!stagingVars => TablesThere' /\ ST!ReadersRely'
    BY ReadersStep
  <1> QED BY <1>1, <1>2, PTL DEF ImplementsStaging, ST!Spec
=============================================================================
