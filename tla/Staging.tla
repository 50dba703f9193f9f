------------------------------ MODULE Staging ------------------------------
(***************************************************************************)
(* The staging tables as one who reads them may rely on them.  This is the *)
(* abstract specification that the jobs of OdooSync and the requests of    *)
(* OdooDirect implement, alone or mixed.  To copy a record is one step:    *)
(*   - the record gets a row if its holding has none for it, and else a row*)
(*     of it gets what was read, which is no older than what it had;       *)
(*   - a staged line refers to the staged row of its invoice;              *)
(*   - rows keep their id, record and holding, and none is ever deleted.   *)
(* For a holding for which two sessions were active at the same time, only *)
(* that a record has one row and that data gets no older is lost.          *)
(***************************************************************************)
EXTENDS Naturals

CONSTANTS
  Holdings,  \* holdings that have staged records
  MoveOf     \* the invoice a line belongs to

VARIABLES
  rows,      \* rows of each table
  contended  \* the holdings whose sessions were not always one at a time

Tables == {"partners", "invoices", "lines"}

stagingVars == <<rows, contended>>
-----------------------------------------------------------------------------
Init == rows = [k \in Tables |-> {}] /\ contended = {}

Alike(q, r) == q.key = r.key /\ q.holding = r.holding

RefersWell(k, r) ==
  k = "lines" => \E i \in rows["invoices"] :
                   i.id = r.ref /\ i.key = MoveOf[r.key] /\ i.holding = r.holding

Insert(k, r) ==
  /\ \A q \in rows[k] : q.id # r.id /\ (r.holding \notin contended => ~Alike(q, r))
  /\ RefersWell(k, r)
  /\ rows' = [rows EXCEPT ![k] = @ \cup {r}]
  /\ UNCHANGED contended

Update(k, q, r) ==
  /\ r.id = q.id /\ Alike(q, r)
  /\ q.holding \notin contended => r.ver >= q.ver
  /\ RefersWell(k, r)
  /\ rows' = [rows EXCEPT ![k] = (@ \ {q}) \cup {r}]
  /\ UNCHANGED contended

Contend(h) ==
  /\ contended' = contended \cup {h}
  /\ UNCHANGED rows

(* What was copied is read off the tables after the step.                  *)
Next ==
  \/ \E k \in Tables : \E r \in rows'[k] : Insert(k, r) \/ \E q \in rows[k] : Update(k, q, r)
  \/ \E h \in Holdings : Contend(h)

Spec == Init /\ [][Next]_stagingVars
-----------------------------------------------------------------------------
(* What follows for a reader: one row for each record, but in a contended  *)
(* holding; and a line that can be joined with its invoice.                *)
ReadersRely ==
  /\ \A k \in Tables : \A q, r \in rows[k] :
       q # r /\ Alike(q, r) => q.holding \in contended
  /\ \A l \in rows["lines"] : RefersWell("lines", l)
=============================================================================
