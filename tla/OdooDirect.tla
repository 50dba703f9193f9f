----------------------------- MODULE OdooDirect -----------------------------
(***************************************************************************)
(* The direct synchronisation, OdooService.syncInvoices, side by side with *)
(* the jobs of module OdooSync.  A request copies one page of invoice      *)
(* lines, their invoices and the partners of these, and answers with what  *)
(* it counted.  It calls the same three functions to save a record, on the *)
(* same tables, so a request is a session of OdooSync that takes steps of  *)
(* its own around the actions FindExisting and Save of that module.        *)
(*                                                                         *)
(* Unlike a job it saves an invoice and then at once its lines, which get  *)
(* the id the save returned; and it reads the records it copies in batches,*)
(* so that a record may be stored long after it was read.                  *)
(***************************************************************************)
EXTENDS OdooSync

CONSTANTS
  Direct,         \* the sessions that are requests of this kind
  DirectHolding,  \* holding_id of the connection, fixed in the code
  Windows         \* pairs of offset and limit a request may ask for

ASSUME DirectAssumption ==
  Direct \subseteq Sessions /\ DirectHolding \in Holdings /\ Windows \subseteq Nat \X Nat

VARIABLE d        \* local variables of the requests

directVars == <<vars, d>>

(* lines is the page, invs its invoices; todo the invoices not handled yet;*)
(* mine the lines of the invoice in hand, or the partners, not handled yet;*)
(* vers the version of each read last; staging the id of the staged invoice; ok   *)
(* whether the last save succeeded; errors what the answer will say.       *)
Batch == [lines : SUBSET Lines, invs : SUBSET Invoices, todo : SUBSET Invoices,
          mine : SUBSET Keys, vers : [Keys -> Nat], staging : Nat \cup {NoRow},
          ok : BOOLEAN, errors : Nat]

NoBatch == [lines |-> {}, invs |-> {}, todo |-> {}, mine |-> {},
            vers |-> [x \in Keys |-> 0], staging |-> NoRow, ok |-> FALSE, errors |-> 0]

(* The type invariant: the requests' variables, beside those of the jobs.  *)
DirectTypeOK == TypeOK /\ d \in [Sessions -> Batch]

(* The pages of n records after the first o that a search sorted by        *)
(* descending key may return, those with the same key in any order.        *)
Pages(S, key, o, n) ==
  {P \in SUBSET S :
     \E A \in SUBSET (S \ P) :
       LET rest == S \ (A \cup P)
       IN  /\ Cardinality(A) <= o /\ (Cardinality(A) < o => P \cup rest = {})
           /\ Cardinality(P) <= n /\ (Cardinality(P) < n => rest = {})
           /\ \A a \in A, x \in P \cup rest : key[a] >= key[x]
           /\ \A p \in P, x \in rest : key[p] >= key[x]}

LinesInRange == {l \in Lines : MoveOf[l] \in posted}

MutReadNow(vers, S) == vers
(* Odoo's answer to a read of the records of S: as they are now.           *)
ReadNow(vers, S) == [x \in Keys |-> IF x \in S THEN ReadVersion(x) ELSE vers[x]]
-----------------------------------------------------------------------------
DirectInit ==
  /\ Init
  /\ \A s \in Direct : w[s].holding = DirectHolding
  /\ d = [s \in Sessions |-> NoBatch]

SyncInvoices(s) ==
  /\ pc[s] = "idle"
  /\ Goto(s, "list")
  /\ overlap' = overlap \cup {<<s, t>> : t \in {u \in Sessions : Active(u)}}
                        \cup {<<t, s>> : t \in {u \in Sessions : Active(u)}}
  /\ UNCHANGED <<dbVars, odooVars, kind, w, pending, acked, events, faults, crashes, d>>

(* Authenticate, search a page of lines, read which invoices they belong   *)
(* to, and read these.  Any error rejects the request.                     *)
ReadBatch(s) ==
  /\ pc[s] = "list"
  /\ \/ Fault(s) /\ Goto(s, "rejected") /\ UNCHANGED <<kind, d>>
     \/ \E win \in Windows : \E P \in Pages(LinesInRange, MoveOf, win[1], win[2]) :
        LET invs == {MoveOf[l] : l \in P}
        IN  /\ NoFault
            /\ d' = [d EXCEPT ![s] = [NoBatch EXCEPT !.lines = P, !.invs = invs, !.todo = invs,
                                                     !.vers = ReadNow(@, invs)]]
            /\ kind' = [kind EXCEPT ![s] = "invoices"]
            /\ Goto(s, IF P = {} THEN "done" ELSE "page")
  /\ UNCHANGED <<dbVars, odooVars, w, pending, acked, overlap, crashes>>

MutInHand(l, x, v, r) == [l EXCEPT !.item = x, !.ver = NoRow, !.ref = r, !.row = NoRow]
(* The local variables of a save, and the record it is given.             *)
InHand(l, x, v, r) == [l EXCEPT !.item = x, !.ver = v, !.ref = r, !.row = NoRow]

(* Take up a record that was read: the next thing is its save.             *)
TakeUp(s, x, r) ==
  /\ w' = [w EXCEPT ![s] = InHand(@, x, d[s].vers[x], r)]
  /\ Goto(s, "find")
  /\ UNCHANGED <<dbVars, odooVars, pending, acked, overlap, events, faults, crashes>>

NextInvoice(s) ==
  /\ pc[s] = "page" /\ kind[s] # "partners" /\ d[s].mine = {}
  /\ kind' = [kind EXCEPT ![s] = "invoices"]
  /\ \E i \in d[s].todo :
       /\ d' = [d EXCEPT ![s].todo = @ \ {i}, ![s].ok = FALSE]
       /\ TakeUp(s, i, NoRow)

NextLine(s) ==
  /\ pc[s] = "page" /\ kind[s] = "lines"
  /\ \E l \in d[s].mine :
       /\ d' = [d EXCEPT ![s].mine = @ \ {l}]
       /\ TakeUp(s, l, d[s].staging)
  /\ UNCHANGED kind

(* Before it saves a partner the code looks for it once more, only to count*)
(* it as new or not; a failure there is like one of the find of the save.  *)
NextPartner(s) ==
  /\ pc[s] = "page" /\ kind[s] = "partners"
  /\ \E p \in d[s].mine :
       /\ d' = [d EXCEPT ![s].mine = @ \ {p}]
       /\ TakeUp(s, p, NoRow)
  /\ UNCHANGED kind

DirectFind(s) == FindExisting(s) /\ UNCHANGED d

MutSavedId(s) == nextId
(* The id that a save returns. *)
SavedId(s) == IF w[s].row = NoRow THEN nextId ELSE w[s].row.id

DirectSave(s) ==
  /\ Save(s)
  /\ d' = IF kind[s] = "invoices"
          THEN [d EXCEPT ![s].ok = w'[s].saved > w[s].saved, ![s].staging = SavedId(s)]
          ELSE d

(* The lines of the page that belong to the invoice in hand.               *)
LinesOf(s) == {l \in d[s].lines : MoveOf[l] = w[s].item}

MutAfterLostRead(s) == w' = w
(* An invoice is saved but its lines cannot be read: one error for them.   *)
AfterLostRead(s) == w' = [w EXCEPT ![s].errs = @ + 1]

(* The invoice is saved: read its lines.                                   *)
ReadLines(s) ==
  /\ pc[s] = "report" /\ kind[s] = "invoices" /\ d[s].ok
  /\ Goto(s, "page")
  /\ \/ /\ Fault(s) /\ AfterLostRead(s)
        /\ UNCHANGED <<kind, d>>
     \/ /\ NoFault
        /\ kind' = [kind EXCEPT ![s] = "lines"]
        /\ d' = [d EXCEPT ![s].mine = LinesOf(s), ![s].vers = ReadNow(@, LinesOf(s))]
        /\ UNCHANGED w
  /\ UNCHANGED <<dbVars, odooVars, pending, acked, overlap, crashes>>

(* A line or a partner is saved, or anything failed to be: go on.          *)
GoOn(s) ==
  /\ pc[s] = "report" /\ ~(kind[s] = "invoices" /\ d[s].ok)
  /\ Goto(s, "page")
  /\ UNCHANGED <<dbVars, odooVars, kind, w, pending, acked, overlap, events, faults, crashes, d>>

(* All invoices are handled: read their partners.  An error here is not    *)
(* one of the request, which then answers that it saved no partner.        *)
ReadPartners(s) ==
  /\ pc[s] = "page" /\ kind[s] # "partners" /\ d[s].mine = {} /\ d[s].todo = {}
  /\ kind' = [kind EXCEPT ![s] = "partners"]
  /\ LET named == UNION {PartnersOf[i] : i \in d[s].invs}
     IN  \/ /\ named # {} /\ Fault(s) /\ Goto(s, "done")
            /\ d' = [d EXCEPT ![s].errors = w[s].errs]
         \/ /\ NoFault
            /\ Goto(s, IF named = {} THEN "done" ELSE "page")
            /\ d' = [d EXCEPT ![s].errors = w[s].errs, ![s].mine = named,
                              ![s].vers = ReadNow(@, named)]
  /\ UNCHANGED <<dbVars, odooVars, w, pending, acked, overlap, crashes>>

Answer(s) ==
  /\ pc[s] = "page" /\ kind[s] = "partners" /\ d[s].mine = {}
  /\ Goto(s, "done")
  /\ UNCHANGED <<dbVars, odooVars, kind, w, pending, acked, overlap, events, faults, crashes, d>>

DirectStep(s) ==
  \/ SyncInvoices(s) \/ ReadBatch(s) \/ NextInvoice(s) \/ NextLine(s) \/ NextPartner(s)
  \/ DirectFind(s) \/ DirectSave(s) \/ ReadLines(s) \/ GoOn(s) \/ ReadPartners(s) \/ Answer(s)

(* Jobs, requests, crashes and Odoo, all on the same tables.               *)
DirectNext ==
  \/ \E s \in Direct : DirectStep(s)
  \/ \E s \in Sessions \ Direct : (StartAsyncInvoiceSync(s) \/ Step(s)) /\ UNCHANGED d
  \/ Crash /\ UNCHANGED d
  \/ \E i \in Invoices : (OdooPosts(i) \/ OdooReverses(i)) /\ UNCHANGED d
  \/ \E x \in Keys : OdooEdits(x) /\ UNCHANGED d

DirectSpec == DirectInit /\ [][DirectNext]_directVars
-----------------------------------------------------------------------------
(* A request that answers "errors: 0" has staged every line of its page    *)
(* and every invoice of these, whatever jobs and requests ran beside it.   *)
BatchStaged ==
  \A s \in Direct : pc[s] = "done" /\ d[s].errors = 0 =>
     /\ d[s].lines \subseteq StagedKeys("lines", DirectHolding)
     /\ d[s].invs \subseteq StagedKeys("invoices", DirectHolding)
=============================================================================
