---------------------------- MODULE JobLogProof ----------------------------
(***************************************************************************)
(* What a client that polls a job may rely on, whatever implements JobLog. *)
(***************************************************************************)
EXTENDS JobLog, Integers, TLAPS

(* Rows have their type, their counters agree, and what was not created    *)
(* is blank.                                                               *)
RowsCount ==
  JobLogTypeOK /\ \A j \in JobIds : Counted(rows[j]) /\ (rows[j].status = "absent" => rows[j] = NoLog)

(* Every step of the rows keeps the counters of a row in agreement. *)
LEMMA RowsCountStep == RowsCount /\ [Next]_rows => RowsCount'
  <1> SUFFICES ASSUME RowsCount, [Next]_rows PROVE RowsCount'
    OBVIOUS
  <1> USE DEF RowsCount, JobLogTypeOK, Counted
  <1>1. ASSUME NEW j \in JobIds, Create(j) PROVE RowsCount'
    BY <1>1 DEF Create, NewLog, Row, Status
  <1>2. ASSUME NEW j \in JobIds, Complete(j) PROVE RowsCount'
    BY <1>2 DEF Complete, Row, Status
  <1>3. ASSUME NEW j \in JobIds, NEW n, FixTotal(j, n) PROVE RowsCount'
    BY <1>3 DEF FixTotal, Row
  <1>4. ASSUME NEW j \in JobIds, NEW ok, NEW ko, Advance(j, ok, ko) PROVE RowsCount'
    <2>1. [rows[j] EXCEPT !.processed = ok + ko, !.success = ok, !.failed = ko] \in Row
      <3>1. \A p, q, r \in Nat : [rows[j] EXCEPT !.processed = p, !.success = q, !.failed = r] \in Row
        BY DEF Row
      <3>2. ok \in Nat /\ ko \in Nat /\ ok + ko \in Nat
        BY <1>4 DEF Advance
      <3> QED BY <3>1, <3>2
    <2>2. rows' = [rows EXCEPT ![j] = [rows[j] EXCEPT !.processed = ok + ko, !.success = ok, !.failed = ko]]
      BY <1>4 DEF Advance
    <2>3. rows[j] \in Row /\ rows[j].status = "running" /\ ok \in Nat /\ ko \in Nat
      BY <1>4 DEF Advance
    <2>4. JobLogTypeOK'
      BY <2>1, <2>2
    <2>5. rows'[j].processed = ok + ko /\ rows'[j].success = ok /\ rows'[j].failed = ko
          /\ rows'[j].status = "running"
      BY <2>2, <2>3 DEF Row
    <2>6. \A k \in JobIds : k # j => rows'[k] = rows[k]
      BY <2>2
    <2> QED BY <2>4, <2>5, <2>6
  <1> QED BY <1>1, <1>2, <1>3, <1>4 DEF Next

(* The counters of a row always agree with each other. *)
THEOREM CountersAgree == Spec => []RowsCount
  <1>1. Init => RowsCount
    BY DEF Init, NoLog, RowsCount, JobLogTypeOK, Counted, Row, Status
  <1> QED BY <1>1, RowsCountStep, PTL DEF Spec
-----------------------------------------------------------------------------
(* Integer division grows with what is divided. *)
LEMMA DivMonotone ==
  ASSUME NEW a \in Nat, NEW b \in Nat, NEW c \in Nat \ {0}, a <= b
  PROVE  a \div c <= b \div c /\ a \div c \in Nat
  OBVIOUS

(* So does the rounded quotient. *)
LEMMA RoundedMonotone ==
  ASSUME NEW x \in Nat, NEW z \in Nat, NEW y \in Nat \ {0}, x <= z
  PROVE  Rounded(x, y) <= Rounded(z, y) /\ Rounded(x, y) \in Nat
  <1>1. 2 * x + y \in Nat /\ 2 * z + y \in Nat /\ 2 * y \in Nat \ {0} /\ 2 * x + y <= 2 * z + y
    OBVIOUS
  <1> QED BY <1>1, DivMonotone DEF Rounded

(* A percentage shown is between 0 and 100. *)
LEMMA PercentageRange ==
  ASSUME NEW row \in Row
  PROVE  Percentage(row) \in 0 .. 100 /\ (row.status = "completed" => Percentage(row) = 100)
  <1>1. row.total # 0 => Rounded(100 * row.processed, row.total) \in Nat
    <2>1. row.total \in Nat /\ 100 * row.processed \in Nat
      BY DEF Row
    <2> QED BY <2>1, RoundedMonotone
  <1> QED BY <1>1 DEF Percentage

(* More records processed of the same total is no smaller a percentage. *)
LEMMA PercentageGrows ==
  ASSUME NEW q \in Row, NEW r \in Row,
         q.status = r.status, q.total = r.total, q.processed <= r.processed
  PROVE  Percentage(q) <= Percentage(r)
  <1>1. /\ q.total \in Nat /\ 100 * q.processed \in Nat /\ 100 * r.processed \in Nat
        /\ 100 * q.processed <= 100 * r.processed
    BY DEF Row
  <1>2. CASE q.total = 0 \/ q.status = "completed"
    BY <1>2 DEF Percentage
  <1>3. CASE q.total # 0 /\ q.status # "completed"
    <2>1. /\ Rounded(100 * q.processed, q.total) <= Rounded(100 * r.processed, q.total)
          /\ Rounded(100 * q.processed, q.total) \in Nat /\ Rounded(100 * r.processed, q.total) \in Nat
      BY <1>1, <1>3, RoundedMonotone
    <2> QED BY <1>3, <2>1 DEF Percentage
  <1> QED BY <1>2, <1>3

(* A step of the rows never lowers the percentage shown for a job. *)
LEMMA PercentageStep ==
  ASSUME RowsCount, Next
  PROVE  \A j \in JobIds : Percentage(rows'[j]) >= Percentage(rows[j])
  <1> USE DEF RowsCount, JobLogTypeOK
  <1>1. RowsCount'
    BY RowsCountStep
  <1>2. \A j \in JobIds : rows[j] \in Row /\ rows'[j] \in Row
                      /\ Percentage(rows[j]) \in 0 .. 100 /\ Percentage(rows'[j]) \in 0 .. 100
    BY <1>1, PercentageRange
  <1>3. ASSUME NEW j \in JobIds, Create(j), NEW k \in JobIds
        PROVE  Percentage(rows'[k]) >= Percentage(rows[k])
    <2>1. CASE k # j
      BY <1>2, <1>3, <2>1 DEF Create
    <2>2. CASE k = j
      <3>1. rows[j] = NoLog
        BY <1>3 DEF Create
      <3> QED BY <1>2, <2>2, <3>1 DEF Percentage, NoLog
    <2> QED BY <2>1, <2>2
  <1>4. ASSUME NEW j \in JobIds, Complete(j), NEW k \in JobIds
        PROVE  Percentage(rows'[k]) >= Percentage(rows[k])
    <2>1. CASE k # j
      BY <1>2, <1>4, <2>1 DEF Complete
    <2>2. CASE k = j
      <3>1. rows'[j].status = "completed"
        BY <1>2, <1>4 DEF Complete, Row
      <3> QED BY <1>2, <2>2, <3>1, PercentageRange
    <2> QED BY <2>1, <2>2
  <1>5. ASSUME NEW j \in JobIds, NEW n, FixTotal(j, n), NEW k \in JobIds
        PROVE  Percentage(rows'[k]) >= Percentage(rows[k])
    <2>1. CASE k # j
      BY <1>2, <1>5, <2>1 DEF FixTotal
    <2>2. CASE k = j
      BY <1>2, <1>5, <2>2 DEF FixTotal, Percentage
    <2> QED BY <2>1, <2>2
  <1>6. ASSUME NEW j \in JobIds, NEW ok, NEW ko, Advance(j, ok, ko), NEW k \in JobIds
        PROVE  Percentage(rows'[k]) >= Percentage(rows[k])
    <2>1. CASE k # j
      BY <1>2, <1>6, <2>1 DEF Advance
    <2>2. CASE k = j
      <3>1. rows'[j] = [rows[j] EXCEPT !.processed = ok + ko, !.success = ok, !.failed = ko]
        BY <1>6 DEF Advance
      <3>2. /\ ok \in Nat /\ ko \in Nat /\ ok >= rows[j].success /\ ko >= rows[j].failed
            /\ rows[j].success \in Nat /\ rows[j].failed \in Nat
            /\ rows[j].processed = rows[j].success + rows[j].failed
        BY <1>2, <1>6 DEF Advance, Row, Counted
      <3>3. rows[j].processed <= ok + ko
        BY <3>2
      <3>4. /\ rows'[j].status = rows[j].status /\ rows'[j].total = rows[j].total
            /\ rows'[j].processed = ok + ko
        BY <1>2, <3>1 DEF Row
      <3> QED BY <1>2, <2>2, <3>3, <3>4, PercentageGrows
    <2> QED BY <2>1, <2>2
  <1> QED BY <1>3, <1>4, <1>5, <1>6 DEF Next

(* The percentage shown for a job never decreases. *)
THEOREM ProgressMonotone ==
  Spec => [][\A j \in JobIds : Percentage(rows'[j]) >= Percentage(rows[j])]_rows
  <1>1. RowsCount /\ [Next]_rows => [\A j \in JobIds : Percentage(rows'[j]) >= Percentage(rows[j])]_rows
    BY PercentageStep
  <1> QED BY <1>1, CountersAgree, PTL DEF Spec
=============================================================================
