-------------------------- MODULE OdooDirectProof --------------------------
(***************************************************************************)
(* Proofs about OdooDirect: with requests and jobs on the same tables, the *)
(* types, the rows, the references and the versions stay what module       *)
(* OdooSyncProof shows of the jobs alone, and a request that answers       *)
(* without errors has staged its page.  Every step of this specification   *)
(* is a step of OdooSync or a step of a request's own, which writes no     *)
(* staging table; so only the latter need to be looked at again, and what  *)
(* a request remembers between its saves.                                  *)
(***************************************************************************)
EXTENDS OdooDirect, OdooSyncProof

(* The steps of a request besides its finds and saves. *)
Own(s) ==
  \/ SyncInvoices(s) \/ ReadBatch(s) \/ NextInvoice(s) \/ NextLine(s) \/ NextPartner(s)
  \/ ReadLines(s) \/ GoOn(s) \/ ReadPartners(s) \/ Answer(s)

(* Where a request is, and what it has left to do there. *)
Requests(s) ==
  /\ w[s].ids = {} /\ w[s].todo = {} /\ w[s].holding = DirectHolding /\ pending[s] = {}
  /\ pc[s] \in {"idle", "list", "page", "find", "save", "report", "rejected", "done", "dead"}
  /\ kind[s] = "lines" => d[s].mine \subseteq Lines
  /\ kind[s] = "partners" => d[s].mine \subseteq Partners
  /\ kind[s] = "invoices" => d[s].mine = {}
  /\ pc[s] \in {"idle", "list", "rejected"} => d[s] = NoBatch

DirectTypeInv == TypeInv /\ d \in [Sessions -> Batch] /\ \A s \in Direct : Requests(s)
-----------------------------------------------------------------------------
(* Types. *)

(* A step of this specification, by whose it is. *)
LEMMA Movers ==
  ASSUME [DirectNext]_directVars
  PROVE  \/ \E s \in Direct : Own(s)
         \/ \E s \in Direct : FindExisting(s) /\ UNCHANGED d
         \/ \E s \in Direct : DirectSave(s)
         \/ \E s \in Sessions \ Direct : (StartAsyncInvoiceSync(s) \/ Step(s)) /\ UNCHANGED d
         \/ Crash /\ UNCHANGED d
         \/ \E i \in Invoices : (OdooPosts(i) \/ OdooReverses(i)) /\ UNCHANGED d
         \/ \E x \in Keys : OdooEdits(x) /\ UNCHANGED d
         \/ UNCHANGED directVars
  BY DEF DirectNext, DirectStep, Own, DirectFind

(* All but the steps of its own are steps of OdooSync. *)
LEMMA OwnOrNext == [DirectNext]_directVars => (\E s \in Direct : Own(s)) \/ [Next]_vars
  <1> SUFFICES ASSUME [DirectNext]_directVars PROVE (\E s \in Direct : Own(s)) \/ [Next]_vars
    OBVIOUS
  <1>1. \A s \in Direct : s \in Sessions
    BY DirectAssumption
  <1> QED BY <1>1, Movers DEF DirectSave, Next, Step, directVars

(* A session's step leaves the others where they are. *)
LEMMA OthersKept ==
  ASSUME TypeInv, NEW s \in Sessions, StartAsyncInvoiceSync(s) \/ Step(s)
  PROVE  /\ posted' = posted /\ ver' = ver
         /\ \A t \in Sessions : t # s =>
              pc'[t] = pc[t] /\ kind'[t] = kind[t] /\ w'[t] = w[t] /\ pending'[t] = pending[t]
  BY DEF TypeInv, TypeOK, Step, StartAsyncInvoiceSync, SaveJobRow, Respond, Begin, List, Nothing,
         SetTotal, NextPage, LookupInvoice, FindExisting, Save, CountError, Report, Finish, Fail,
         NextJob, Goto, dbVars, odooVars

(* So does a step of a request's own, which leaves the tables as they are. *)
LEMMA OwnKept ==
  ASSUME DirectTypeInv, NEW s \in Direct, Own(s)
  PROVE  /\ UNCHANGED <<log, stg, nextId, posted, ver, pending, acked, changes, crashes>>
         /\ overlap \subseteq overlap'
         /\ \A t \in Sessions : t # s =>
              pc'[t] = pc[t] /\ kind'[t] = kind[t] /\ w'[t] = w[t] /\ d'[t] = d[t]
  <1>1. s \in Sessions /\ d \in [Sessions -> Batch]
    BY DirectAssumption DEF DirectTypeInv
  <1> QED BY <1>1 DEF DirectTypeInv, TypeInv, TypeOK, Own, SyncInvoices, ReadBatch, NextInvoice, NextLine,
                 NextPartner, TakeUp, ReadLines, AfterLostRead, GoOn, ReadPartners, Answer, Goto,
                 dbVars, odooVars

(* What a request reads, and what it does with it, are of the right types. *)
LEMMA ReadNowType ==
  ASSUME TypeOK, NEW v \in [Keys -> Nat], NEW S
  PROVE  ReadNow(v, S) \in [Keys -> Nat]
  BY DEF TypeOK, ReadNow, ReadVersion

LEMMA InHandType ==
  ASSUME NEW l \in Local, NEW x \in Keys, NEW v \in Nat, NEW r \in Nat \cup {NoRow}
  PROVE  /\ InHand(l, x, v, r) \in Local
         /\ InHand(l, x, v, r).ids = l.ids /\ InHand(l, x, v, r).todo = l.todo
         /\ InHand(l, x, v, r).holding = l.holding /\ InHand(l, x, v, r).errs = l.errs
         /\ InHand(l, x, v, r).item = x /\ InHand(l, x, v, r).ver = v
         /\ InHand(l, x, v, r).ref = r /\ InHand(l, x, v, r).row = NoRow
  <1>1. \A m \in Local : [m EXCEPT !.item = x, !.ver = v] \in Local
    BY DEF Local
  <1>2. \A m \in Local : [m EXCEPT !.ref = r, !.row = NoRow] \in Local
    BY DEF Local
  <1> DEFINE m == [l EXCEPT !.item = x, !.ver = v]
  <1>3. m \in Local
    BY <1>1
  <1>4. InHand(l, x, v, r) \in Local
    BY <1>2, <1>3 DEF InHand
  <1> QED BY <1>4 DEF InHand, Local

(* The partners that the invoices of a page name. *)
LEMMA NamedType ==
  ASSUME NEW S \in SUBSET Invoices
  PROVE  UNION {PartnersOf[i] : i \in S} \subseteq Partners
  BY DataAssumption

LEMMA NoBatchType == NoBatch \in Batch
  BY DEF NoBatch, Batch

(* What a request reads first: a page of lines and their invoices. *)
LEMMA AfterReadBatch ==
  ASSUME DirectTypeInv, NEW s \in Direct, ReadBatch(s)
  PROVE  /\ pc[s] = "list" /\ w' = w
         /\ \/ pc'[s] = "rejected" /\ d' = d /\ kind' = kind
            \/ /\ pc'[s] = IF d'[s].lines = {} THEN "done" ELSE "page"
               /\ kind'[s] = "invoices"
               /\ \E b \in Batch :
                    /\ d' = [d EXCEPT ![s] = b]
                    /\ b.invs = {MoveOf[l] : l \in b.lines} /\ b.todo = b.invs
                    /\ b.vers = ReadNow(NoBatch.vers, b.invs)
                    /\ b.mine = {} /\ b.errors = 0
  <1>1. s \in Sessions /\ d \in [Sessions -> Batch] /\ pc \in [Sessions -> Control]
        /\ kind \in [Sessions -> Kinds] /\ TypeOK
    BY DirectAssumption DEF DirectTypeInv, TypeInv, TypeOK
  <1>2. pc[s] = "list" /\ w' = w
    BY DEF ReadBatch
  <1>3. CASE Fault(s) /\ Goto(s, "rejected") /\ UNCHANGED <<kind, d>>
    BY <1>1, <1>2, <1>3 DEF Goto
  <1>4. ASSUME NEW win \in Windows, NEW P \in Pages(LinesInRange, MoveOf, win[1], win[2]),
               NEW invs, invs = {MoveOf[l] : l \in P},
               d' = [d EXCEPT ![s] = [NoBatch EXCEPT !.lines = P, !.invs = invs, !.todo = invs,
                                                     !.vers = ReadNow(@, invs)]],
               kind' = [kind EXCEPT ![s] = "invoices"],
               Goto(s, IF P = {} THEN "done" ELSE "page")
        PROVE  /\ pc'[s] = IF d'[s].lines = {} THEN "done" ELSE "page"
               /\ kind'[s] = "invoices"
               /\ \E b \in Batch :
                    /\ d' = [d EXCEPT ![s] = b]
                    /\ b.invs = {MoveOf[l] : l \in b.lines} /\ b.todo = b.invs
                    /\ b.vers = ReadNow(NoBatch.vers, b.invs)
                    /\ b.mine = {} /\ b.errors = 0
    <2>1. P \in SUBSET Lines /\ invs \in SUBSET Invoices
      BY <1>4, DataAssumption DEF Pages, LinesInRange
    <2>2. ReadNow(NoBatch.vers, invs) \in [Keys -> Nat]
      BY <1>1, ReadNowType DEF NoBatch
    <2> DEFINE b == [NoBatch EXCEPT !.lines = P, !.invs = invs, !.todo = invs,
                                    !.vers = ReadNow(NoBatch.vers, invs)]
    <2>3. /\ b \in Batch /\ b.lines = P /\ b.invs = invs /\ b.todo = invs
          /\ b.vers = ReadNow(NoBatch.vers, invs) /\ b.mine = {} /\ b.errors = 0
      <3>1. NoBatch.mine = {} /\ NoBatch.errors = 0
        BY DEF NoBatch
      <3> QED BY <2>1, <2>2, <3>1, NoBatchType DEF Batch
    <2>4. d' = [d EXCEPT ![s] = b]
      BY <1>4
    <2> HIDE DEF b
    <2>5. d'[s] = b /\ kind'[s] = "invoices" /\ pc'[s] = IF P = {} THEN "done" ELSE "page"
      BY <1>1, <1>4, <2>4 DEF Goto
    <2> QED BY <1>4, <2>3, <2>4, <2>5
  <1> QED BY <1>2, <1>3, <1>4, Zenon DEF ReadBatch

(* A record is taken up that was still to do. *)
LEMMA AfterNextInvoice ==
  ASSUME DirectTypeInv, NEW s \in Direct, NextInvoice(s)
  PROVE  /\ pc[s] = "page" /\ pc'[s] = "find" /\ kind[s] # "partners" /\ kind'[s] = "invoices"
         /\ d[s].mine = {}
         /\ \E i \in d[s].todo :
              /\ d' = [d EXCEPT ![s] = [d[s] EXCEPT !.todo = @ \ {i}, !.ok = FALSE]]
              /\ w' = [w EXCEPT ![s] = InHand(w[s], i, d[s].vers[i], NoRow)]
  <1>1. s \in Sessions /\ d \in [Sessions -> Batch] /\ pc \in [Sessions -> Control]
        /\ kind \in [Sessions -> Kinds]
    BY DirectAssumption DEF DirectTypeInv, TypeInv, TypeOK
  <1>2. PICK i \in d[s].todo : /\ d' = [d EXCEPT ![s].todo = @ \ {i}, ![s].ok = FALSE]
                               /\ TakeUp(s, i, NoRow)
    BY DEF NextInvoice
  <1>3. d' = [d EXCEPT ![s] = [d[s] EXCEPT !.todo = @ \ {i}, !.ok = FALSE]]
    BY <1>1, <1>2
  <1>4. pc'[s] = "find" /\ w' = [w EXCEPT ![s] = InHand(w[s], i, d[s].vers[i], NoRow)]
    BY <1>1, <1>2 DEF TakeUp, Goto
  <1> QED BY <1>1, <1>3, <1>4 DEF NextInvoice

LEMMA AfterNextOther ==
  ASSUME DirectTypeInv, NEW s \in Direct, NextLine(s) \/ NextPartner(s)
  PROVE  /\ pc[s] = "page" /\ pc'[s] = "find" /\ kind[s] \in {"lines", "partners"} /\ kind' = kind
         /\ \E x \in d[s].mine :
              /\ d' = [d EXCEPT ![s] = [d[s] EXCEPT !.mine = @ \ {x}]]
              /\ w' = [w EXCEPT ![s] =
                         InHand(w[s], x, d[s].vers[x], IF kind[s] = "lines" THEN d[s].staging ELSE NoRow)]
  <1>1. s \in Sessions /\ d \in [Sessions -> Batch] /\ pc \in [Sessions -> Control]
    BY DirectAssumption DEF DirectTypeInv, TypeInv, TypeOK
  <1>2. CASE NextLine(s)
    BY <1>1, <1>2 DEF NextLine, TakeUp, Goto
  <1>3. CASE NextPartner(s)
    BY <1>1, <1>3 DEF NextPartner, TakeUp, Goto
  <1> QED BY <1>2, <1>3

(* The lines of an invoice that was saved are read, or the read fails. *)
LEMMA AfterReadLines ==
  ASSUME DirectTypeInv, NEW s \in Direct, ReadLines(s)
  PROVE  /\ pc[s] = "report" /\ pc'[s] = "page" /\ kind[s] = "invoices" /\ d[s].ok
         /\ \/ d' = d /\ kind' = kind /\ w' = [w EXCEPT ![s] = [w[s] EXCEPT !.errs = @ + 1]]
            \/ /\ d' = [d EXCEPT ![s] = [d[s] EXCEPT !.mine = LinesOf(s),
                                                     !.vers = ReadNow(@, LinesOf(s))]]
               /\ kind'[s] = "lines" /\ w' = w
  <1>1. s \in Sessions /\ d \in [Sessions -> Batch] /\ pc \in [Sessions -> Control]
        /\ kind \in [Sessions -> Kinds] /\ w \in [Sessions -> Local]
    BY DirectAssumption DEF DirectTypeInv, TypeInv, TypeOK
  <1>2. pc[s] = "report" /\ pc'[s] = "page" /\ kind[s] = "invoices" /\ d[s].ok
    BY <1>1 DEF ReadLines, Goto
  <1>3. CASE AfterLostRead(s) /\ UNCHANGED <<kind, d>>
    BY <1>1, <1>2, <1>3 DEF AfterLostRead
  <1>4. CASE /\ d' = [d EXCEPT ![s].mine = LinesOf(s), ![s].vers = ReadNow(@, LinesOf(s))]
             /\ kind' = [kind EXCEPT ![s] = "lines"] /\ w' = w
    <2>1. d' = [d EXCEPT ![s] = [d[s] EXCEPT !.mine = LinesOf(s), !.vers = ReadNow(@, LinesOf(s))]]
      BY <1>1, <1>4
    <2> QED BY <1>1, <1>2, <1>4, <2>1
  <1> QED BY <1>3, <1>4 DEF ReadLines

(* The partners of the invoices are read, if they name any, or the read    *)
(* fails.                                                                  *)
LEMMA AfterReadPartners ==
  ASSUME DirectTypeInv, NEW s \in Direct, ReadPartners(s)
  PROVE  /\ pc[s] = "page" /\ pc'[s] \in {"page", "done"} /\ kind[s] # "partners" /\ kind'[s] = "partners"
         /\ d[s].mine = {} /\ d[s].todo = {} /\ w' = w
         /\ \/ d' = [d EXCEPT ![s] = [d[s] EXCEPT !.errors = w[s].errs]]
            \/ \E named \in SUBSET Partners :
                 d' = [d EXCEPT ![s] = [d[s] EXCEPT !.errors = w[s].errs, !.mine = named,
                                                    !.vers = ReadNow(@, named)]]
  <1>1. s \in Sessions /\ d \in [Sessions -> Batch] /\ pc \in [Sessions -> Control]
        /\ kind \in [Sessions -> Kinds] /\ d[s].invs \in SUBSET Invoices
    BY DirectAssumption DEF DirectTypeInv, TypeInv, TypeOK, Batch
  <1> DEFINE named == UNION {PartnersOf[i] : i \in d[s].invs}
  <1>2. named \in SUBSET Partners
    BY <1>1, NamedType
  <1>3. /\ pc[s] = "page" /\ kind[s] # "partners" /\ kind'[s] = "partners"
        /\ d[s].mine = {} /\ d[s].todo = {} /\ w' = w
    BY <1>1 DEF ReadPartners
  <1>4. \/ Goto(s, "done") /\ d' = [d EXCEPT ![s].errors = w[s].errs]
        \/ /\ Goto(s, IF named = {} THEN "done" ELSE "page")
           /\ d' = [d EXCEPT ![s].errors = w[s].errs, ![s].mine = named, ![s].vers = ReadNow(@, named)]
    BY DEF ReadPartners
  <1> HIDE DEF named
  <1>5. pc'[s] \in {"page", "done"}
    BY <1>1, <1>4 DEF Goto
  <1>6. CASE d' = [d EXCEPT ![s].errors = w[s].errs]
    BY <1>3, <1>5, <1>6
  <1>7. CASE d' = [d EXCEPT ![s].errors = w[s].errs, ![s].mine = named, ![s].vers = ReadNow(@, named)]
    <2>1. d' = [d EXCEPT ![s] = [d[s] EXCEPT !.errors = w[s].errs, !.mine = named,
                                             !.vers = ReadNow(@, named)]]
      BY <1>1, <1>7
    <2> QED BY <1>2, <1>3, <1>5, <2>1
  <1> QED BY <1>4, <1>6, <1>7

(* A request's own step moves it to a place where it may be. *)
OwnLabels == {"list", "rejected", "done", "page", "find"}

OwnMove(s, label, k, l, b) ==
  /\ pc' = [pc EXCEPT ![s] = label] /\ kind' = [kind EXCEPT ![s] = k]
  /\ w' = [w EXCEPT ![s] = l] /\ d' = [d EXCEPT ![s] = b]
  /\ l.ids = w[s].ids /\ l.todo = w[s].todo /\ l.holding = w[s].holding
  /\ label = "find" => l.item \in Records(k)
  /\ k = "lines" => b.mine \subseteq Lines
  /\ k = "partners" => b.mine \subseteq Partners
  /\ k = "invoices" => b.mine = {}
  /\ label \in {"list", "rejected"} => b = NoBatch

LEMMA OwnMoves ==
  ASSUME DirectTypeInv, NEW s \in Direct, Own(s)
  PROVE  \E label \in OwnLabels, k \in Kinds, l \in Local, b \in Batch : OwnMove(s, label, k, l, b)
  <1>1. /\ s \in Sessions /\ d \in [Sessions -> Batch] /\ pc \in [Sessions -> Control]
        /\ kind \in [Sessions -> Kinds] /\ w \in [Sessions -> Local]
        /\ d[s] \in Batch /\ kind[s] \in Kinds /\ w[s] \in Local /\ TypeOK /\ Requests(s)
        /\ Kinds = {"partners", "invoices", "lines"}
        /\ OwnLabels = {"list", "rejected", "done", "page", "find"}
    BY DirectAssumption DEF DirectTypeInv, TypeInv, TypeOK, Kinds, OwnLabels
  <1>2. \A x \in Keys : d[s].vers[x] \in Nat
    BY <1>1 DEF Batch
  <1>3. CASE SyncInvoices(s) \/ GoOn(s) \/ Answer(s)
    <2>1. UNCHANGED <<kind, w, d>>
      BY <1>3 DEF SyncInvoices, GoOn, Answer
    <2>2. PICK label \in {"list", "page", "done"} :
            pc' = [pc EXCEPT ![s] = label] /\ (label = "list" => d[s] = NoBatch)
      BY <1>1, <1>3 DEF SyncInvoices, GoOn, Answer, Goto, Requests
    <2>3. kind' = [kind EXCEPT ![s] = kind[s]] /\ w' = [w EXCEPT ![s] = w[s]] /\ d' = [d EXCEPT ![s] = d[s]]
      BY <1>1, <2>1
    <2>4. OwnMove(s, label, kind[s], w[s], d[s])
      BY <1>1, <2>2, <2>3 DEF OwnMove, Requests
    <2> QED BY <1>1, <2>4
  <1>4. CASE ReadBatch(s)
    <2>1. w' = [w EXCEPT ![s] = w[s]] /\ kind' = [kind EXCEPT ![s] = kind'[s]]
      BY <1>1, <1>4 DEF ReadBatch
    <2>2. PICK label \in OwnLabels : pc' = [pc EXCEPT ![s] = label] /\ label # "find"
      <3>1. \/ pc' = [pc EXCEPT ![s] = "rejected"] \/ pc' = [pc EXCEPT ![s] = "done"]
            \/ pc' = [pc EXCEPT ![s] = "page"]
        BY <1>4 DEF ReadBatch, Goto
      <3> QED BY <3>1 DEF OwnLabels
    <2>3. CASE d' = d /\ kind' = kind
      <3>1. d' = [d EXCEPT ![s] = d[s]]
        BY <1>1, <2>3
      <3>2. OwnMove(s, label, kind[s], w[s], d[s])
        BY <1>1, <1>4, <2>1, <2>3, <2>2, <3>1, AfterReadBatch DEF OwnMove, Requests
      <3> QED BY <1>1, <3>2
    <2>4. ASSUME NEW b \in Batch, d' = [d EXCEPT ![s] = b], b.mine = {}, kind'[s] = "invoices",
                 pc'[s] \in {"done", "page"}
          PROVE  \E q \in OwnLabels, k \in Kinds, l \in Local, c \in Batch : OwnMove(s, q, k, l, c)
      <3>1. label \in {"done", "page"}
        BY <1>1, <2>4, <2>2
      <3>2. OwnMove(s, label, "invoices", w[s], b)
        BY <1>1, <2>1, <2>4, <2>2, <3>1 DEF OwnMove
      <3> QED BY <1>1, <3>2
    <2> QED BY <1>4, <2>3, <2>4, AfterReadBatch
  <1>5. CASE NextInvoice(s)
    <2>1. PICK i \in d[s].todo :
            /\ d' = [d EXCEPT ![s] = [d[s] EXCEPT !.todo = @ \ {i}, !.ok = FALSE]]
            /\ w' = [w EXCEPT ![s] = InHand(w[s], i, d[s].vers[i], NoRow)]
      BY <1>5, AfterNextInvoice
    <2>2. i \in Invoices /\ i \in Keys
      BY <1>1 DEF Batch, Keys
    <2> DEFINE b == [d[s] EXCEPT !.todo = @ \ {i}, !.ok = FALSE]
               l == InHand(w[s], i, d[s].vers[i], NoRow)
    <2>3. b \in Batch /\ b.mine = d[s].mine
      BY <1>1 DEF Batch
    <2>4. l \in Local /\ l.ids = w[s].ids /\ l.todo = w[s].todo /\ l.holding = w[s].holding /\ l.item = i
      <3>1. ASSUME NEW v \in Nat, NEW q \in Nat \cup {NoRow}, NEW m \in Local
            PROVE  /\ InHand(m, i, v, q) \in Local /\ InHand(m, i, v, q).ids = m.ids
                   /\ InHand(m, i, v, q).todo = m.todo /\ InHand(m, i, v, q).item = i
                   /\ InHand(m, i, v, q).holding = m.holding
        <4> HIDE DEF b, l
        <4> QED BY <2>2, InHandType
      <3>2. d[s].vers[i] \in Nat /\ w[s] \in Local /\ NoRow \in Nat \cup {NoRow}
        BY <1>1, <1>2, <2>2
      <3> QED BY <2>2, <3>1, <3>2
    <2>5. pc' = [pc EXCEPT ![s] = "find"] /\ kind' = [kind EXCEPT ![s] = "invoices"] /\ d[s].mine = {}
      BY <1>5 DEF NextInvoice, TakeUp, Goto
    <2>6. Records("invoices") = Invoices
      BY DEF Records
    <2> HIDE DEF b, l
    <2>7. d' = [d EXCEPT ![s] = b] /\ w' = [w EXCEPT ![s] = l]
      BY <2>1 DEF b, l
    <2>8. OwnMove(s, "find", "invoices", l, b)
      BY <2>2, <2>3, <2>4, <2>5, <2>6, <2>7 DEF OwnMove
    <2> QED BY <1>1, <2>3, <2>4, <2>8
  <1>6. CASE NextLine(s) \/ NextPartner(s)
    <2> DEFINE r == IF kind[s] = "lines" THEN d[s].staging ELSE NoRow
    <2>1. PICK x \in d[s].mine :
            /\ d' = [d EXCEPT ![s] = [d[s] EXCEPT !.mine = @ \ {x}]]
            /\ w' = [w EXCEPT ![s] = InHand(w[s], x, d[s].vers[x], r)]
      BY <1>6, AfterNextOther
    <2>2. x \in Keys /\ r \in Nat \cup {NoRow} /\ kind[s] \in {"lines", "partners"}
          /\ d[s].mine \subseteq Records(kind[s])
      BY <1>1, <1>6, AfterNextOther DEF Batch, Requests, Records
    <2> DEFINE b == [d[s] EXCEPT !.mine = @ \ {x}]
               l == InHand(w[s], x, d[s].vers[x], r)
    <2>3. b \in Batch /\ b.mine \subseteq d[s].mine
      BY <1>1 DEF Batch
    <2>4. l \in Local /\ l.ids = w[s].ids /\ l.todo = w[s].todo /\ l.holding = w[s].holding /\ l.item = x
      <3> HIDE DEF r
      <3>1. ASSUME NEW v \in Nat, NEW q \in Nat \cup {NoRow}, NEW m \in Local
            PROVE  /\ InHand(m, x, v, q) \in Local /\ InHand(m, x, v, q).ids = m.ids
                   /\ InHand(m, x, v, q).todo = m.todo /\ InHand(m, x, v, q).item = x
                   /\ InHand(m, x, v, q).holding = m.holding
        <4> HIDE DEF b, l
        <4> QED BY <2>2, InHandType
      <3>2. d[s].vers[x] \in Nat /\ w[s] \in Local
        BY <1>1, <1>2, <2>2
      <3> QED BY <2>2, <3>1, <3>2
    <2>5. pc' = [pc EXCEPT ![s] = "find"] /\ kind' = [kind EXCEPT ![s] = kind[s]]
      BY <1>1, <1>6 DEF NextLine, NextPartner, TakeUp, Goto
    <2> HIDE DEF b, l, r
    <2>6. d' = [d EXCEPT ![s] = b] /\ w' = [w EXCEPT ![s] = l]
      BY <2>1 DEF b, l
    <2>7. OwnMove(s, "find", kind[s], l, b)
      BY <1>1, <2>2, <2>3, <2>4, <2>5, <2>6 DEF OwnMove, Requests
    <2> QED BY <1>1, <2>3, <2>4, <2>7
  <1>7. CASE ReadLines(s)
    <2>1. pc' = [pc EXCEPT ![s] = "page"] /\ kind' = [kind EXCEPT ![s] = kind'[s]] /\ kind[s] = "invoices"
      BY <1>1, <1>7 DEF ReadLines, Goto
    <2>2. CASE d' = d /\ kind' = kind /\ w' = [w EXCEPT ![s] = [w[s] EXCEPT !.errs = @ + 1]]
      <3> DEFINE l == [w[s] EXCEPT !.errs = @ + 1]
      <3>1. l \in Local /\ l.ids = w[s].ids /\ l.todo = w[s].todo /\ l.holding = w[s].holding
        BY <1>1, LocalUpdate DEF Local
      <3> HIDE DEF l
      <3>2. d' = [d EXCEPT ![s] = d[s]] /\ w' = [w EXCEPT ![s] = l]
        BY <1>1, <2>2 DEF l
      <3>3. OwnMove(s, "page", "invoices", l, d[s])
        BY <1>1, <2>1, <2>2, <3>1, <3>2 DEF OwnMove, Requests
      <3> QED BY <1>1, <3>1, <3>3
    <2>3. CASE /\ d' = [d EXCEPT ![s] = [d[s] EXCEPT !.mine = LinesOf(s), !.vers = ReadNow(@, LinesOf(s))]]
               /\ kind'[s] = "lines" /\ w' = w
      <3> DEFINE b == [d[s] EXCEPT !.mine = LinesOf(s), !.vers = ReadNow(@, LinesOf(s))]
      <3>1. LinesOf(s) \subseteq Lines /\ LinesOf(s) \subseteq Keys /\ d[s].vers \in [Keys -> Nat]
        BY <1>1 DEF LinesOf, Batch, Keys
      <3>2. ReadNow(d[s].vers, LinesOf(s)) \in [Keys -> Nat]
        BY <1>1, <3>1, ReadNowType
      <3>3. b \in Batch /\ b.mine = LinesOf(s)
        BY <1>1, <3>1, <3>2 DEF Batch
      <3> HIDE DEF b
      <3>4. d' = [d EXCEPT ![s] = b] /\ w' = [w EXCEPT ![s] = w[s]]
        BY <1>1, <2>3 DEF b
      <3>5. OwnMove(s, "page", "lines", w[s], b)
        BY <1>1, <2>1, <2>3, <3>1, <3>3, <3>4 DEF OwnMove
      <3> QED BY <1>1, <3>3, <3>5
    <2> QED BY <1>7, <2>2, <2>3, AfterReadLines
  <1>8. CASE ReadPartners(s)
    <2>1. /\ kind' = [kind EXCEPT ![s] = "partners"] /\ w' = [w EXCEPT ![s] = w[s]] /\ d[s].mine = {}
      BY <1>1, <1>8 DEF ReadPartners
    <2>2. PICK label \in {"page", "done"} : pc' = [pc EXCEPT ![s] = label]
      <3>1. pc' = [pc EXCEPT ![s] = "done"] \/ pc' = [pc EXCEPT ![s] = "page"]
        BY <1>8 DEF ReadPartners, Goto
      <3> QED BY <3>1
    <2>3. w[s].errs \in Nat
      BY <1>1 DEF Local
    <2>4. CASE d' = [d EXCEPT ![s] = [d[s] EXCEPT !.errors = w[s].errs]]
      <3> DEFINE b == [d[s] EXCEPT !.errors = w[s].errs]
      <3>1. b \in Batch /\ b.mine = {}
        BY <1>1, <2>1, <2>3 DEF Batch
      <3> HIDE DEF b
      <3>2. OwnMove(s, label, "partners", w[s], b)
        BY <2>1, <2>4, <2>2, <3>1 DEF OwnMove, b
      <3> QED BY <1>1, <3>1, <3>2
    <2>5. ASSUME NEW named \in SUBSET Partners,
                 d' = [d EXCEPT ![s] = [d[s] EXCEPT !.errors = w[s].errs, !.mine = named,
                                                    !.vers = ReadNow(@, named)]]
          PROVE  \E q \in OwnLabels, k \in Kinds, l \in Local, c \in Batch : OwnMove(s, q, k, l, c)
      <3> DEFINE b == [d[s] EXCEPT !.errors = w[s].errs, !.mine = named, !.vers = ReadNow(@, named)]
      <3>1. named \subseteq Keys /\ d[s].vers \in [Keys -> Nat]
        BY <1>1 DEF Batch, Keys
      <3>2. ReadNow(d[s].vers, named) \in [Keys -> Nat]
        BY <1>1, <3>1, ReadNowType
      <3>3. b \in Batch /\ b.mine = named
        BY <1>1, <2>3, <3>1, <3>2 DEF Batch
      <3> HIDE DEF b
      <3>4. OwnMove(s, label, "partners", w[s], b)
        BY <2>1, <2>5, <2>2, <3>3 DEF OwnMove, b
      <3> QED BY <1>1, <3>3, <3>4
    <2> QED BY <1>8, <2>4, <2>5, AfterReadPartners
  <1> QED BY <1>3, <1>4, <1>5, <1>6, <1>7, <1>8 DEF Own

(* So it keeps the types, and every record it holds of its kind. *)
LEMMA OwnTypes ==
  ASSUME DirectTypeInv, NEW s \in Direct, Own(s)
  PROVE  DirectTypeInv'
  <1>1. /\ s \in Sessions /\ d \in [Sessions -> Batch] /\ pc \in [Sessions -> Control]
        /\ kind \in [Sessions -> Kinds] /\ w \in [Sessions -> Local] /\ TypeOK
        /\ (\A t \in Sessions : HoldsRecords(t)) /\ \A t \in Direct : Requests(t) /\ t \in Sessions
    BY DirectAssumption DEF DirectTypeInv, TypeInv, TypeOK
  <1>2. PICK label \in OwnLabels, k \in Kinds, l \in Local, b \in Batch : OwnMove(s, label, k, l, b)
    BY OwnMoves
  <1>3. /\ pc' = [pc EXCEPT ![s] = label] /\ kind' = [kind EXCEPT ![s] = k]
        /\ w' = [w EXCEPT ![s] = l] /\ d' = [d EXCEPT ![s] = b]
        /\ label \in {"list", "rejected", "done", "page", "find"}
        /\ l.ids = {} /\ l.todo = {} /\ l.holding = DirectHolding
        /\ label = "find" => l.item \in Records(k)
    BY <1>1, <1>2 DEF OwnMove, OwnLabels, Requests
  <1>4. UNCHANGED <<log, stg, nextId, posted, ver, pending, acked, changes, crashes>>
    BY OwnKept
  <1>5. events' \in [Sessions -> SUBSET Event] /\ faults' \in 0 .. MaxFaults
    <2>1. UNCHANGED <<events, faults>> \/ NoFault \/ Fault(s)
      BY DEF Own, SyncInvoices, ReadBatch, NextInvoice, NextLine, NextPartner, TakeUp, ReadLines, GoOn,
             ReadPartners, Answer
    <2> QED BY <1>1, <2>1, CallType DEF NoFault
  <1>6. overlap' \in SUBSET (Sessions \X Sessions)
    <2>1. overlap' = overlap \/ SyncInvoices(s)
      BY DEF Own, ReadBatch, NextInvoice, NextLine, NextPartner, TakeUp, ReadLines, GoOn, ReadPartners,
             Answer
    <2>2. overlap \in SUBSET (Sessions \X Sessions)
      BY <1>1 DEF TypeOK
    <2>3. ASSUME SyncInvoices(s) PROVE overlap' \in SUBSET (Sessions \X Sessions)
      BY <1>1, <2>2, <2>3 DEF SyncInvoices
    <2> QED BY <2>1, <2>2, <2>3
  <1>7. /\ pc' \in [Sessions -> Control] /\ kind' \in [Sessions -> Kinds] /\ w' \in [Sessions -> Local]
        /\ d' \in [Sessions -> Batch]
    BY <1>1, <1>2, <1>3 DEF Control
  <1>8. TypeOK'
    BY <1>1, <1>4, <1>5, <1>6, <1>7 DEF TypeOK
  <1>9. ASSUME NEW t \in Sessions PROVE HoldsRecords(t)'
    BY <1>1, <1>3 DEF HoldsRecords
  <1>10. ASSUME NEW t \in Direct PROVE Requests(t)'
    <2>1. CASE t # s
      BY <1>1, <1>3, <1>4, <2>1 DEF Requests
    <2>2. CASE t = s
      BY <1>1, <1>2, <1>3, <1>4, <2>2 DEF Requests, OwnMove
    <2> QED BY <2>1, <2>2
  <1> QED BY <1>7, <1>8, <1>9, <1>10 DEF DirectTypeInv, TypeInv

(* What a request's finds and saves leave of its variables. *)
LEMMA AfterSave ==
  ASSUME DirectTypeInv, NEW s \in Direct, DirectSave(s)
  PROVE  /\ pc[s] = "save" /\ pc'[s] = "report" /\ kind' = kind
         /\ \/ NoFault /\ Write(s) /\ w' = [w EXCEPT ![s] = [w[s] EXCEPT !.saved = @ + 1]]
            \/ /\ w' = [w EXCEPT ![s] = [w[s] EXCEPT !.errs = @ + 1]]
               /\ Write(s) \/ UNCHANGED <<stg, nextId>>
         /\ IF kind[s] = "invoices"
            THEN d' = [d EXCEPT ![s] = [d[s] EXCEPT !.ok = w'[s].saved > w[s].saved,
                                                    !.staging = SavedId(s)]]
            ELSE d' = d
  <1>1. s \in Sessions /\ d \in [Sessions -> Batch] /\ pc \in [Sessions -> Control]
    BY DirectAssumption DEF DirectTypeInv, TypeInv, TypeOK
  <1>2. pc[s] = "save" /\ pc'[s] = "report" /\ kind' = kind
    BY <1>1 DEF DirectSave, Save, CountError, Goto
  <1>3. \/ NoFault /\ Write(s) /\ w' = [w EXCEPT ![s] = [w[s] EXCEPT !.saved = @ + 1]]
        \/ /\ w' = [w EXCEPT ![s] = [w[s] EXCEPT !.errs = @ + 1]]
           /\ Write(s) \/ UNCHANGED <<stg, nextId>>
    BY DEF DirectSave, Save, CountError
  <1>4. CASE kind[s] = "invoices"
    <2>1. d' = [d EXCEPT ![s].ok = w'[s].saved > w[s].saved, ![s].staging = SavedId(s)]
      BY <1>4 DEF DirectSave
    <2>2. d' = [d EXCEPT ![s] = [d[s] EXCEPT !.ok = w'[s].saved > w[s].saved, !.staging = SavedId(s)]]
      BY <1>1, <2>1
    <2> QED BY <1>2, <1>3, <1>4, <2>2
  <1>5. CASE kind[s] # "invoices"
    BY <1>2, <1>3, <1>5 DEF DirectSave
  <1> QED BY <1>4, <1>5

LEMMA AfterFind ==
  ASSUME DirectTypeInv, NEW s \in Direct, FindExisting(s)
  PROVE  /\ pc[s] = "find" /\ pc'[s] \in {"save", "report"} /\ kind' = kind
         /\ UNCHANGED <<stg, nextId, posted, ver, overlap, pending>>
         /\ \/ pc'[s] = "report" /\ w' = [w EXCEPT ![s] = [w[s] EXCEPT !.errs = @ + 1]]
            \/ pc'[s] = "save" /\ \E r \in StgRow \cup {NoRow} : w' = [w EXCEPT ![s] = [w[s] EXCEPT !.row = r]]
  <1>1. s \in Sessions /\ pc \in [Sessions -> Control] /\ kind[s] \in Kinds /\ TypeOK
    BY DirectAssumption DEF DirectTypeInv, TypeInv, TypeOK
  <1>2. pc[s] = "find" /\ UNCHANGED <<kind, stg, nextId, posted, ver, overlap, pending>>
    BY DEF FindExisting, dbVars, odooVars
  <1>3. CASE CountError(s)
    BY <1>1, <1>2, <1>3 DEF CountError, Goto
  <1>4. ASSUME NEW r \in Found(Matches(kind[s], w[s].item, w[s].holding)),
               w' = [w EXCEPT ![s].row = r], Goto(s, "save")
        PROVE  \E q \in StgRow \cup {NoRow} : w' = [w EXCEPT ![s] = [w[s] EXCEPT !.row = q]]
    BY <1>1, <1>4, FoundType
  <1>5. ASSUME Goto(s, "save") PROVE pc'[s] = "save"
    BY <1>1, <1>5 DEF Goto
  <1> QED BY <1>2, <1>3, <1>4, <1>5 DEF FindExisting

(* The types hold throughout, for any number of jobs and requests. *)
LEMMA DirectTypeStep == DirectTypeInv /\ [DirectNext]_directVars => DirectTypeInv'
  <1> SUFFICES ASSUME DirectTypeInv, [DirectNext]_directVars PROVE DirectTypeInv'
    OBVIOUS
  <1>1. /\ d \in [Sessions -> Batch] /\ pc \in [Sessions -> Control] /\ kind \in [Sessions -> Kinds]
        /\ w \in [Sessions -> Local] /\ nextId \in Nat /\ TypeInv
        /\ \A t \in Direct : Requests(t) /\ t \in Sessions /\ d[t] \in Batch /\ w[t] \in Local
    BY DirectAssumption DEF DirectTypeInv, TypeInv, TypeOK
  <1>2. [Next]_vars => TypeInv'
    BY <1>1, TypeStep
  <1>3. ASSUME NEW s \in Direct, DirectSave(s) PROVE DirectTypeInv'
    <2>1. TypeInv'
      BY <1>2, <1>3, OwnOrNext, DirectAssumption DEF DirectSave, Next, Step
    <2>2. SavedId(s) \in Nat \cup {NoRow}
      BY <1>1 DEF SavedId, Local, StgRow
    <2>3. \A e \in BOOLEAN, id \in Nat \cup {NoRow} :
            /\ [d[s] EXCEPT !.ok = e, !.staging = id] \in Batch
            /\ [d[s] EXCEPT !.ok = e, !.staging = id].mine = d[s].mine
      BY <1>1 DEF Batch
    <2>4. d' \in [Sessions -> Batch] /\ \A t \in Sessions : d'[t].mine = d[t].mine /\ (t # s => d'[t] = d[t])
      <3> DEFINE e == w'[s].saved > w[s].saved
      <3>1. e \in BOOLEAN
        OBVIOUS
      <3> HIDE DEF e
      <3>2. d' = d \/ d' = [d EXCEPT ![s] = [d[s] EXCEPT !.ok = e, !.staging = SavedId(s)]]
        BY <1>3, AfterSave DEF e
      <3>3. d' = d \/ \E b \in Batch : d' = [d EXCEPT ![s] = b] /\ b.mine = d[s].mine
        BY <2>2, <2>3, <3>1, <3>2
      <3> QED BY <1>1, <3>3
    <2>5. w'[s].ids = w[s].ids /\ w'[s].todo = w[s].todo /\ w'[s].holding = w[s].holding
      <3>1. w'[s] = [w[s] EXCEPT !.saved = @ + 1] \/ w'[s] = [w[s] EXCEPT !.errs = @ + 1]
        BY <1>1, <1>3, AfterSave
      <3> QED BY <1>1, <3>1 DEF Local
    <2>6. /\ pc'[s] = "report" /\ kind' = kind /\ pending' = pending
          /\ \A t \in Sessions : t # s => pc'[t] = pc[t] /\ w'[t] = w[t]
      BY <1>1, <1>3, AfterSave, OthersKept DEF DirectSave, Step, Save
    <2>7. \A t \in Direct : Requests(t)'
      BY <1>1, <2>4, <2>5, <2>6 DEF Requests
    <2> QED BY <2>1, <2>4, <2>7 DEF DirectTypeInv
  <1>4. ASSUME NEW s \in Direct, FindExisting(s), UNCHANGED d PROVE DirectTypeInv'
    <2>1. TypeInv'
      BY <1>2, <1>4, DirectAssumption DEF Next, Step
    <2>2. w'[s].ids = w[s].ids /\ w'[s].todo = w[s].todo /\ w'[s].holding = w[s].holding
      BY <1>1, <1>4, AfterFind DEF Local
    <2>3. /\ pc'[s] \in {"save", "report"} /\ kind' = kind /\ pending' = pending
          /\ \A t \in Sessions : t # s => pc'[t] = pc[t] /\ w'[t] = w[t]
      BY <1>1, <1>4, AfterFind, OthersKept DEF Step
    <2>4. \A t \in Direct : Requests(t)'
      BY <1>1, <1>4, <2>2, <2>3 DEF Requests
    <2> QED BY <1>1, <1>4, <2>1, <2>4 DEF DirectTypeInv
  <1>5. ASSUME NEW s \in Sessions \ Direct, StartAsyncInvoiceSync(s) \/ Step(s), UNCHANGED d
        PROVE  DirectTypeInv'
    <2>1. TypeInv'
      BY <1>2, <1>5 DEF Next
    <2>2. \A t \in Direct : Requests(t)'
      BY <1>1, <1>5, OthersKept DEF Requests
    <2> QED BY <1>1, <1>5, <2>1, <2>2 DEF DirectTypeInv
  <1>6. CASE Crash /\ UNCHANGED d
    <2>1. TypeInv'
      BY <1>2, <1>6 DEF Next
    <2>2. ASSUME NEW t \in Direct PROVE Requests(t)'
      <3>1. /\ pc'[t] = "dead" \/ pc'[t] = pc[t]
            /\ w'[t] = w[t] \/ w'[t] = Fresh(w[t].holding)
            /\ kind' = kind /\ pending'[t] = {}
        BY <1>1, <1>6 DEF Crash
      <3> QED BY <1>1, <1>6, <3>1 DEF Requests, Fresh
    <2> QED BY <1>1, <1>6, <2>1, <2>2 DEF DirectTypeInv
  <1>7. CASE UNCHANGED <<taskVars, d>> /\ [Next]_vars
    BY <1>1, <1>2, <1>7 DEF DirectTypeInv, Requests, taskVars
  <1> QED
    BY <1>3, <1>4, <1>5, <1>6, <1>7, Movers, OwnTypes
    DEF Next, OdooPosts, OdooReverses, OdooEdits, directVars, vars, taskVars

LEMMA DirectTypeInit == DirectInit => DirectTypeInv
  <1> SUFFICES ASSUME DirectInit PROVE DirectTypeInv
    OBVIOUS
  <1>1. TypeInv /\ d \in [Sessions -> Batch]
    BY TypeInit, NoBatchType DEF DirectInit
  <1>2. ASSUME NEW s \in Direct PROVE Requests(s)
    <2>1. /\ s \in Sessions /\ pc[s] = "idle" /\ pending[s] = {} /\ d[s] = NoBatch
          /\ w[s].holding = DirectHolding /\ \E h \in Holdings : w[s] = Fresh(h)
      BY DirectAssumption DEF DirectInit, Init
    <2> QED BY <2>1 DEF Requests, Fresh, NoBatch
  <1> QED BY <1>1, <1>2 DEF DirectTypeInv

(* The requests' variables are of their types beside those of the jobs. *)
THEOREM DirectTypeCorrect == DirectSpec => []DirectTypeOK
  <1>1. DirectTypeInv => DirectTypeOK
    BY DEF DirectTypeInv, TypeInv, DirectTypeOK
  <1> QED BY <1>1, DirectTypeInit, DirectTypeStep, PTL DEF DirectSpec
-----------------------------------------------------------------------------
(* Rows.  A request is active from its first step to its answer, so it     *)
(* overlaps with every session that runs beside it.                        *)
LEMMA DirectRowsStep == DirectTypeInv /\ RowsInv /\ [DirectNext]_directVars => RowsInv'
  <1> SUFFICES ASSUME DirectTypeInv, RowsInv, [DirectNext]_directVars PROVE RowsInv'
    OBVIOUS
  <1>1. TypeInv /\ pc \in [Sessions -> Control]
    BY DEF DirectTypeInv, TypeInv, TypeOK
  <1>2. ASSUME NEW s \in Direct, Own(s) PROVE RowsInv'
    <2>1. s \in Sessions /\ pc'[s] \in OwnLabels /\ pc' = [pc EXCEPT ![s] = pc'[s]]
      <3>1. \E label \in OwnLabels : pc' = [pc EXCEPT ![s] = label]
        BY <1>2, OwnMoves DEF OwnMove
      <3> QED BY <1>1, <3>1, DirectAssumption
    <2>2. /\ UNCHANGED <<stg, nextId>> /\ overlap \subseteq overlap'
          /\ \A t \in Sessions : t # s => pc'[t] = pc[t] /\ kind'[t] = kind[t] /\ w'[t] = w[t]
      BY <1>2, OwnKept
    <2>3. ActiveOverlap'
      <3>1. CASE SyncInvoices(s)
        <4>1. \A t \in Sessions : Active(t) => <<s, t>> \in overlap' /\ <<t, s>> \in overlap'
          BY <3>1 DEF SyncInvoices
        <4>2. \A t \in Sessions : t # s => Active(t)' = Active(t)
          BY <2>2 DEF Active
        <4> QED BY <2>2, <4>1, <4>2 DEF RowsInv, ActiveOverlap
      <3>2. CASE ~ SyncInvoices(s)
        <4>1. Active(s) /\ overlap' = overlap
          BY <1>2, <3>2 DEF Own, ReadBatch, NextInvoice, NextLine, NextPartner, TakeUp, ReadLines, GoOn,
                            ReadPartners, Answer, Active
        <4>2. \A t \in Sessions : Active(t)' => Active(t)
          BY <2>2, <4>1 DEF Active
        <4> QED BY <4>1, <4>2, ActiveFrame
      <3> QED BY <3>1, <3>2
    <2>4. pc'[s] # "save"
      BY <2>1 DEF OwnLabels
    <2> QED BY <1>1, <2>2, <2>3, <2>4, RowsFrame
  <1> QED BY <1>1, <1>2, OwnOrNext, RowsStep

(* With jobs and requests on the same tables, only two sessions that were  *)
(* active at the same time can stage a record twice.                       *)
THEOREM DirectDuplicates == DirectSpec => []DuplicatesNeedOverlap
  <1>1. DirectInit => RowsInv
    BY DEF DirectInit, Init, RowsInv, IdsUnique, ActiveOverlap, Active, DuplicatesNeedOverlap, SaveReady
  <1>2. RowsInv => DuplicatesNeedOverlap
    BY DEF RowsInv
  <1> QED BY <1>1, <1>2, DirectTypeInit, DirectTypeStep, DirectRowsStep, PTL DEF DirectSpec
-----------------------------------------------------------------------------
(* References.  The id that a save of an invoice returned stays the id of  *)
(* a row of this invoice.                                                  *)
Ready(s) ==
  /\ kind[s] = "lines" => \A l \in d[s].mine : RefersTo(d[s].staging, MoveOf[l], w[s].holding)
  /\ pc[s] = "report" /\ kind[s] = "invoices" /\ d[s].ok =>
       RefersTo(d[s].staging, w[s].item, w[s].holding)
  /\ pc[s] \in {"find", "save"} /\ kind[s] = "invoices" => ~ d[s].ok

DirectRefs == RefsInv /\ \A s \in Direct : Ready(s)

LEMMA RefersKept ==
  ASSUME TypeInv, RowsInv, [Next]_vars
  PROVE  \A id, i, h : RefersTo(id, i, h) => RefersTo(id, i, h)'
  <1>1. CASE UNCHANGED stg
    BY <1>1 DEF RefersTo
  <1>2. ASSUME NEW s \in Sessions, Save(s), Write(s)
        PROVE  \A id, i, h : RefersTo(id, i, h) => RefersTo(id, i, h)'
    <2>1. pc[s] = "save" /\ SaveReady(s) /\ IdsUnique /\ "invoices" \in Kinds
      BY <1>2 DEF Save, RowsInv, Kinds
    <2>2. \A q \in stg["invoices"] : \E r \in stg'["invoices"] : SameRow(q, r)
      BY <1>2, <2>1, WriteRows
    <2> QED BY <2>2 DEF RefersTo, SameRow
  <1> QED BY <1>1, <1>2, OnlySavesWrite DEF Save

(* A save stores the record in hand under the id that it returns. *)
LEMMA SavedRow ==
  ASSUME TypeInv, NEW s \in Sessions, pc[s] = "save", SaveReady(s), Write(s), kind[s] = "invoices"
  PROVE  \E r \in stg'["invoices"] : r.id = SavedId(s) /\ r.key = w[s].item /\ r.holding = w[s].holding
  <1>1. stg \in [Kinds -> SUBSET StgRow] /\ kind[s] \in Kinds /\ w[s] \in Local
    BY DEF TypeInv, TypeOK
  <1>2. CASE w[s].row = NoRow
    <2>1. Inserted(s) \in stg'["invoices"]
      BY <1>1, <1>2 DEF Write
    <2> QED BY <1>2, <2>1 DEF Inserted, SavedId
  <1>3. CASE w[s].row # NoRow
    <2>1. w[s].row \in StgRow /\ w[s].row.key = w[s].item /\ w[s].row.holding = w[s].holding
      BY <1>1, <1>3 DEF Local, SaveReady
    <2>2. Updated(w[s]) \in stg'["invoices"]
      BY <1>1, <1>3 DEF Write
    <2>3. /\ Updated(w[s]).key = w[s].item /\ Updated(w[s]).holding = w[s].holding
          /\ Updated(w[s]).id = w[s].row.id
      BY <2>1 DEF Updated, StgRow
    <2> QED BY <1>3, <2>2, <2>3 DEF SavedId
  <1> QED BY <1>2, <1>3

(* A request that another session leaves alone. *)
LEMMA ReadyFrame ==
  ASSUME TypeInv, RowsInv, UNCHANGED stg \/ [Next]_vars, NEW t \in Direct, Ready(t),
         kind'[t] = kind[t], w'[t].holding = w[t].holding, d'[t].staging = d[t].staging, d'[t].ok = d[t].ok,
         d'[t].mine \subseteq d[t].mine,
         kind[t] = "invoices" =>
           /\ pc'[t] \in {"find", "save"} => pc[t] \in {"find", "save"}
           /\ pc'[t] = "report" /\ d[t].ok => pc[t] = "report" /\ w'[t].item = w[t].item
  PROVE  Ready(t)'
  <1>1. \A id, i, h : RefersTo(id, i, h) => RefersTo(id, i, h)'
    BY RefersKept DEF RefersTo
  <1> QED BY <1>1 DEF Ready, RefersTo

(* A request gives its lines the id of their invoice. *)
LEMMA OwnRefs ==
  ASSUME DirectTypeInv, RowsInv, DirectRefs, NEW s \in Direct, Own(s)
  PROVE  DirectRefs'
  <1>1. /\ s \in Sessions /\ TypeInv /\ d[s] \in Batch /\ w[s] \in Local /\ Requests(s) /\ Ready(s) /\ RefsInv
        /\ w \in [Sessions -> Local] /\ d \in [Sessions -> Batch] /\ \A t \in Direct : t \in Sessions
    BY DirectAssumption DEF DirectTypeInv, TypeInv, TypeOK, DirectRefs
  <1>2. /\ UNCHANGED stg
        /\ \A t \in Sessions : t # s =>
             pc'[t] = pc[t] /\ kind'[t] = kind[t] /\ w'[t] = w[t] /\ d'[t] = d[t]
    BY OwnKept
  <1>3. \A t \in Direct : t # s => Ready(t)'
    BY <1>1, <1>2, ReadyFrame DEF DirectRefs
  <1>4. pc'[s] \in OwnLabels
    <2>1. \E label \in OwnLabels : pc' = [pc EXCEPT ![s] = label]
      BY OwnMoves DEF OwnMove
    <2> QED BY <1>1, <2>1 DEF TypeInv, TypeOK
  <1>5. ASSUME RefReady(s)', Ready(s)' PROVE DirectRefs'
    <2>1. LineRefsInvoice'
      BY <1>1, <1>2 DEF RefsInv, LineRefsInvoice
    <2>2. ASSUME NEW t \in Sessions, t # s PROVE RefReady(t)'
      BY <1>1, <1>2, <2>2 DEF RefsInv, RefReady, RefersTo
    <2> QED BY <1>3, <1>5, <2>1, <2>2 DEF DirectRefs, RefsInv
  <1>6. CASE SyncInvoices(s) \/ GoOn(s) \/ Answer(s)
    <2>1. pc'[s] \notin {"find", "save", "report"} /\ UNCHANGED <<kind, w, d>>
      BY <1>1, <1>6 DEF SyncInvoices, GoOn, Answer, Goto, TypeInv, TypeOK
    <2> QED BY <1>1, <1>2, <1>5, <2>1, ReadyFrame DEF RefReady
  <1>7. CASE ReadBatch(s) \/ ReadPartners(s)
    <2>1. /\ pc'[s] \notin {"find", "save", "report"}
          /\ kind'[s] # "lines" \/ (kind' = kind /\ d' = d /\ w' = w)
      BY <1>7, AfterReadBatch, AfterReadPartners
    <2> QED BY <1>1, <1>2, <1>5, <2>1, ReadyFrame DEF RefReady, Ready
  <1>8. CASE NextInvoice(s)
    <2>1. pc'[s] = "find" /\ kind'[s] = "invoices"
      BY <1>8, AfterNextInvoice
    <2>2. ~ d'[s].ok
      <3>1. \E i \in d[s].todo : d'[s] = [d[s] EXCEPT !.todo = @ \ {i}, !.ok = FALSE]
        BY <1>1, <1>8, AfterNextInvoice
      <3> QED BY <1>1, <3>1 DEF Batch
    <2> QED BY <1>5, <2>1, <2>2 DEF RefReady, Ready
  <1>9. CASE NextLine(s) \/ NextPartner(s)
    <2> DEFINE q == IF kind[s] = "lines" THEN d[s].staging ELSE NoRow
    <2>1. pc'[s] = "find" /\ kind' = kind /\ kind[s] # "invoices"
      BY <1>9, AfterNextOther
    <2>2. PICK x \in d[s].mine :
            /\ d' = [d EXCEPT ![s] = [d[s] EXCEPT !.mine = @ \ {x}]]
            /\ w' = [w EXCEPT ![s] = InHand(w[s], x, d[s].vers[x], q)]
      BY <1>9, AfterNextOther
    <2>3. d'[s].mine \subseteq d[s].mine /\ d'[s].staging = d[s].staging /\ d'[s].ok = d[s].ok
      BY <1>1, <2>2 DEF Batch
    <2>4. x \in Keys /\ d[s].vers[x] \in Nat /\ q \in Nat \cup {NoRow}
      BY <1>1, <2>2 DEF Batch
    <2> HIDE DEF q
    <2>5. w'[s].item = x /\ w'[s].holding = w[s].holding /\ w'[s].ref = q
      BY <1>1, <2>2, <2>4, InHandType
    <2>6. Ready(s)'
      BY <1>1, <1>2, <2>1, <2>3, <2>5 DEF Ready, RefersTo
    <2>7. kind[s] = "lines" => q = d[s].staging /\ RefersTo(d[s].staging, MoveOf[x], w[s].holding)
      BY <1>1, <2>2 DEF Ready, q
    <2>8. RefReady(s)'
      BY <1>2, <2>1, <2>5, <2>7 DEF RefReady, RefersTo
    <2> QED BY <1>5, <2>6, <2>8
  <1>10. CASE ReadLines(s)
    <2>1. pc[s] = "report" /\ pc'[s] = "page" /\ kind[s] = "invoices" /\ d[s].ok
      BY <1>10, AfterReadLines
    <2>2. CASE kind' = kind
      BY <1>5, <2>1, <2>2 DEF RefReady, Ready
    <2>3. CASE /\ d' = [d EXCEPT ![s] = [d[s] EXCEPT !.mine = LinesOf(s), !.vers = ReadNow(@, LinesOf(s))]]
               /\ kind'[s] = "lines" /\ w' = w
      <3>1. d'[s].mine = LinesOf(s) /\ d'[s].staging = d[s].staging
        BY <1>1, <2>3 DEF Batch
      <3>2. \A l \in LinesOf(s) : MoveOf[l] = w[s].item
        BY DEF LinesOf
      <3>3. Ready(s)'
        BY <1>1, <1>2, <2>1, <2>3, <3>1, <3>2 DEF Ready, RefersTo
      <3> QED BY <1>5, <2>1, <3>3 DEF RefReady
    <2> QED BY <1>10, <2>2, <2>3, AfterReadLines
  <1> QED BY <1>6, <1>7, <1>8, <1>9, <1>10 DEF Own

LEMMA DirectRefsStep == DirectTypeInv /\ RowsInv /\ DirectRefs /\ [DirectNext]_directVars => DirectRefs'
  <1> SUFFICES ASSUME DirectTypeInv, RowsInv, DirectRefs, [DirectNext]_directVars PROVE DirectRefs'
    OBVIOUS
  <1>1. /\ TypeInv /\ RefsInv /\ d \in [Sessions -> Batch] /\ w \in [Sessions -> Local]
        /\ pc \in [Sessions -> Control]
        /\ \A t \in Direct : Requests(t) /\ Ready(t) /\ t \in Sessions /\ d[t] \in Batch /\ w[t] \in Local
    BY DirectAssumption DEF DirectTypeInv, DirectRefs, TypeInv, TypeOK
  <1>2. [Next]_vars => RefsInv'
    BY <1>1, RefsStep
  <1>3. ASSUME NEW s \in Direct, DirectSave(s) PROVE DirectRefs'
    <2>1. [Next]_vars /\ s \in Sessions /\ SaveReady(s)
      BY <1>1, <1>3 DEF DirectSave, Next, Step, RowsInv
    <2>2. \A t \in Sessions : t # s => pc'[t] = pc[t] /\ kind'[t] = kind[t] /\ w'[t] = w[t]
      BY <1>1, <1>3, <2>1, OthersKept DEF DirectSave, Step
    <2>3. \A t \in Sessions : t # s => d'[t] = d[t]
      BY <1>1, <1>3 DEF DirectSave
    <2>4. \A t \in Direct : t # s => Ready(t)'
      BY <1>1, <2>1, <2>2, <2>3, ReadyFrame
    <2>5. /\ pc[s] = "save" /\ pc'[s] = "report" /\ kind' = kind
          /\ w'[s] = [w[s] EXCEPT !.saved = @ + 1] \/ w'[s] = [w[s] EXCEPT !.errs = @ + 1]
      BY <1>1, <1>3, AfterSave
    <2>6. w'[s].item = w[s].item /\ w'[s].holding = w[s].holding /\ w[s].saved \in Nat
      BY <1>1, <2>5 DEF Local
    <2>7. CASE kind[s] # "invoices"
      <3>1. d' = d
        BY <1>3, <2>7, AfterSave
      <3>2. Ready(s)'
        BY <1>1, <2>1, <2>5, <2>6, <2>7, <3>1, ReadyFrame
      <3> QED BY <1>2, <2>1, <2>4, <3>2 DEF DirectRefs
    <2>8. CASE kind[s] = "invoices"
      <3>1. d'[s].staging = SavedId(s) /\ (d'[s].ok <=> w'[s].saved > w[s].saved)
        <4> DEFINE e == w'[s].saved > w[s].saved
        <4> HIDE DEF e
        <4>1. d' = [d EXCEPT ![s] = [d[s] EXCEPT !.ok = e, !.staging = SavedId(s)]]
          BY <1>3, <2>8, AfterSave DEF e
        <4>2. d'[s] = [d[s] EXCEPT !.ok = e, !.staging = SavedId(s)]
          BY <1>1, <4>1
        <4>3. d'[s].staging = SavedId(s) /\ d'[s].ok = e
          BY <1>1, <4>2 DEF Batch
        <4> QED BY <4>3 DEF e
      <3>2. CASE Write(s)
        <4>1. \E r \in stg'["invoices"] :
                r.id = SavedId(s) /\ r.key = w[s].item /\ r.holding = w[s].holding
          BY <1>1, <2>1, <2>5, <2>8, <3>2, SavedRow
        <4> QED BY <1>2, <2>1, <2>4, <2>5, <2>6, <2>8, <3>1, <4>1 DEF Ready, RefersTo, DirectRefs
      <3>3. CASE w'[s] = [w[s] EXCEPT !.errs = @ + 1]
        <4>1. ~ (w'[s].saved > w[s].saved)
          BY <1>1, <3>3 DEF Local
        <4> QED BY <1>2, <2>1, <2>4, <2>5, <2>8, <3>1, <4>1 DEF Ready, DirectRefs
      <3> QED BY <1>1, <1>3, <3>2, <3>3, AfterSave
    <2> QED BY <2>7, <2>8
  <1>4. ASSUME NEW s \in Direct, FindExisting(s), UNCHANGED d PROVE DirectRefs'
    <2>1. [Next]_vars /\ s \in Sessions
      BY <1>1, <1>4 DEF Next, Step
    <2>2. \A t \in Sessions : t # s => pc'[t] = pc[t] /\ kind'[t] = kind[t] /\ w'[t] = w[t]
      BY <1>1, <1>4, <2>1, OthersKept DEF Step
    <2>3. /\ kind' = kind /\ UNCHANGED stg
          /\ \/ w'[s] = [w[s] EXCEPT !.errs = @ + 1]
             \/ \E r \in StgRow \cup {NoRow} : w'[s] = [w[s] EXCEPT !.row = r]
          /\ pc'[s] = "report" => w'[s] = [w[s] EXCEPT !.errs = @ + 1]
      BY <1>1, <1>4, AfterFind
    <2>4. w'[s].item = w[s].item /\ w'[s].holding = w[s].holding
      BY <1>1, <2>3 DEF Local
    <2>5. kind[s] = "invoices" => ~ d[s].ok
      BY <1>1, <1>4, AfterFind DEF Ready
    <2>6. Ready(s)'
      BY <1>1, <1>4, <2>1, <2>3, <2>4, <2>5, AfterFind, ReadyFrame
    <2>7. \A t \in Direct : t # s => Ready(t)'
      BY <1>1, <1>4, <2>1, <2>2, ReadyFrame
    <2> QED BY <1>2, <2>1, <2>6, <2>7 DEF DirectRefs
  <1>5. ASSUME NEW s \in Sessions \ Direct, StartAsyncInvoiceSync(s) \/ Step(s), UNCHANGED d
        PROVE  DirectRefs'
    <2>1. [Next]_vars
      BY <1>5 DEF Next
    <2> QED BY <1>1, <1>2, <1>5, <2>1, OthersKept, ReadyFrame DEF DirectRefs
  <1>6. CASE Crash /\ UNCHANGED d
    <2>1. [Next]_vars /\ kind' = kind
      BY <1>6 DEF Next, Crash
    <2>2. \A t \in Direct : /\ w'[t].holding = w[t].holding
                            /\ pc'[t] = "dead" \/ (pc'[t] = pc[t] /\ w'[t] = w[t])
      BY <1>1, <1>6 DEF Crash, Fresh
    <2> QED BY <1>1, <1>2, <1>6, <2>1, <2>2, ReadyFrame DEF DirectRefs
  <1>7. CASE UNCHANGED <<taskVars, d>> /\ [Next]_vars
    BY <1>1, <1>2, <1>7, ReadyFrame DEF DirectRefs, taskVars
  <1> QED
    BY <1>3, <1>4, <1>5, <1>6, <1>7, Movers, OwnRefs
    DEF Next, OdooPosts, OdooReverses, OdooEdits, directVars, vars, taskVars

(* A line that is staged, by a job or by a request, refers to a staged row *)
(* of the very invoice it belongs to.                                      *)
THEOREM DirectLinesReferToTheirInvoice == DirectSpec => []LineRefsInvoice
  <1>1. DirectInit => RowsInv /\ DirectRefs
    <2> SUFFICES ASSUME DirectInit PROVE RowsInv /\ DirectRefs
      OBVIOUS
    <2>1. RowsInv /\ RefsInv
      BY DEF DirectInit, Init, RowsInv, IdsUnique, ActiveOverlap, Active, DuplicatesNeedOverlap, SaveReady,
             RefsInv, LineRefsInvoice, RefReady, Kinds
    <2>2. ASSUME NEW s \in Direct PROVE Ready(s)
      BY DirectAssumption DEF DirectInit, Init, Ready
    <2> QED BY <2>1, <2>2 DEF DirectRefs
  <1>2. DirectRefs => LineRefsInvoice
    BY DEF DirectRefs, RefsInv
  <1> QED
    BY <1>1, <1>2, DirectTypeInit, DirectTypeStep, DirectRowsStep, DirectRefsStep, PTL DEF DirectSpec
-----------------------------------------------------------------------------
(* Versions.  What a request has read and not saved yet is as new as what  *)
(* is staged of it, but for sessions that overlap.                         *)
Read(s, k, x) ==
  /\ d[s].vers[x] <= ver[x]
  /\ \A r \in stg[k] : r.key = x /\ r.holding = w[s].holding => r.ver <= d[s].vers[x] \/ Shared(s)

Recent(s) ==
  Active(s) =>
    /\ \A i \in d[s].todo : Read(s, "invoices", i)
    /\ \A x \in d[s].mine : Read(s, kind[s], x)
    /\ pc[s] \in HandStates => /\ kind[s] = "invoices" => w[s].item \notin d[s].todo
                               /\ kind[s] # "invoices" => w[s].item \notin d[s].mine

DirectVers == VersInv /\ \A s \in Direct : Recent(s)

(* A record just read is as Odoo has it, which nothing staged is newer than. *)
LEMMA ReadNowRead ==
  ASSUME TypeInv, VersInv, NEW k \in Kinds, NEW x \in Keys
  PROVE  /\ ver[x] \in Nat /\ ver[x] <= ver[x]
         /\ \A r \in stg[k] : r.key = x => r.ver <= ver[x]
  <1>1. ver \in [Keys -> Nat]
    BY DEF TypeInv, TypeOK
  <1> QED BY <1>1 DEF VersInv

(* A session's own steps leave what it and the others have read as recent. *)
LEMMA RecentFrame ==
  ASSUME DirectTypeInv, RowsInv, [Next]_vars, \A x \in Keys : ver[x] <= ver'[x],
         NEW t \in Direct, Recent(t), Active(t)' => Active(t), kind'[t] = kind[t],
         w'[t].holding = w[t].holding, d'[t].vers = d[t].vers, d'[t].todo = d[t].todo,
         d'[t].mine = d[t].mine, overlap \subseteq overlap', ver' \in [Keys -> Nat],
         pc'[t] \in HandStates => pc[t] \in HandStates /\ w'[t].item = w[t].item
  PROVE  Recent(t)'
  <1> SUFFICES ASSUME Active(t), Active(t)' PROVE Recent(t)'
    BY DEF Recent
  <1>1. /\ t \in Sessions /\ TypeInv /\ d[t] \in Batch /\ ver \in [Keys -> Nat] /\ kind[t] \in Kinds
        /\ stg \in [Kinds -> SUBSET StgRow] /\ w[t] \in Local /\ Requests(t)
        /\ Kinds = {"partners", "invoices", "lines"}
    BY DirectAssumption DEF DirectTypeInv, TypeInv, TypeOK, Kinds
  <1>2. Shared(t) => Shared(t)'
    BY HoldingKept, <1>1 DEF Shared
  <1>3. ASSUME NEW k \in Kinds, NEW x \in Keys, Read(t, k, x),
               pc[t] = "save" /\ k = kind[t] => x # w[t].item
        PROVE  Read(t, k, x)'
    <2>1. d[t].vers[x] \in Nat /\ ver[x] \in Nat /\ ver'[x] \in Nat
      BY <1>1 DEF Batch
    <2>2. d'[t].vers[x] <= ver'[x]
      BY <1>3, <2>1 DEF Read
    <2>3. ASSUME NEW r \in stg'[k], r.key = x, r.holding = w[t].holding
          PROVE  r.ver <= d[t].vers[x] \/ Shared(t)'
      <3>1. CASE r \in stg[k]
        BY <1>2, <1>3, <2>3, <3>1 DEF Read
      <3>2. ASSUME NEW s \in Sessions, Save(s), Write(s), r \notin stg[k] PROVE Shared(t)'
        <4>1. pc[s] = "save" /\ SaveReady(s) /\ Active(s)
          BY <3>2 DEF Save, RowsInv, Active
        <4>2. k = kind[s] /\ r.key = w[s].item /\ r.holding = w[s].holding
          BY <1>1, <3>2, <4>1, WriteVers
        <4>3. s # t
          BY <1>3, <2>3, <4>1, <4>2
        <4>4. <<t, s>> \in overlap
          BY <1>1, <4>1, <4>3 DEF RowsInv, ActiveOverlap
        <4> QED BY <1>2, <2>3, <4>2, <4>4 DEF Shared
      <3> QED BY <3>1, <3>2, OnlySavesWrite DEF Save
    <2> QED BY <2>2, <2>3 DEF Read
  <1>4. ASSUME NEW i \in d[t].todo PROVE Read(t, "invoices", i)'
    <2>1. i \in Keys /\ Read(t, "invoices", i)
      BY <1>1, <1>4 DEF Batch, Keys, Recent
    <2>2. pc[t] = "save" /\ "invoices" = kind[t] => i # w[t].item
      BY <1>4 DEF Recent, HandStates
    <2> QED BY <1>1, <1>3, <2>1, <2>2
  <1>5. ASSUME NEW x \in d[t].mine PROVE Read(t, kind[t], x)'
    <2>1. x \in Keys /\ Read(t, kind[t], x) /\ kind[t] # "invoices"
      BY <1>1, <1>5 DEF Batch, Recent, Requests
    <2>2. pc[t] = "save" => x # w[t].item
      BY <1>5, <2>1 DEF Recent, HandStates
    <2> QED BY <1>1, <1>3, <2>1, <2>2
  <1> QED BY <1>4, <1>5 DEF Recent, Read

(* The steps of a request's own write no table: what they take in hand was *)
(* read before.                                                            *)
LEMMA OwnVers ==
  ASSUME DirectTypeInv, RowsInv, DirectVers, NEW s \in Direct, Own(s)
  PROVE  DirectVers'
  <1>1. /\ s \in Sessions /\ TypeInv /\ VersInv /\ d[s] \in Batch /\ w[s] \in Local /\ Requests(s) /\ Recent(s)
        /\ w \in [Sessions -> Local] /\ d \in [Sessions -> Batch] /\ (\A t \in Direct : t \in Sessions)
        /\ pc \in [Sessions -> Control] /\ kind \in [Sessions -> Kinds] /\ ver \in [Keys -> Nat]
        /\ Kinds = {"partners", "invoices", "lines"} /\ kind[s] \in Kinds
    BY DirectAssumption DEF DirectTypeInv, TypeInv, TypeOK, DirectVers, Kinds
  <1>2. /\ UNCHANGED <<stg, ver>> /\ overlap \subseteq overlap'
        /\ \A t \in Sessions : t # s =>
             pc'[t] = pc[t] /\ kind'[t] = kind[t] /\ w'[t] = w[t] /\ d'[t] = d[t]
    BY OwnKept
  <1>3. pc'[s] \in OwnLabels /\ w'[s].holding = w[s].holding
    <2>1. \E label \in OwnLabels, l \in Local :
            pc' = [pc EXCEPT ![s] = label] /\ w' = [w EXCEPT ![s] = l] /\ l.holding = w[s].holding
      BY OwnMoves DEF OwnMove
    <2> QED BY <1>1, <2>1
  <1>4. \A t \in Sessions : w'[t].holding = w[t].holding
    BY <1>2, <1>3
  <1>5. \A t \in Sessions : Shared(t) => Shared(t)'
    BY <1>2, <1>4 DEF Shared
  <1>6. ASSUME NEW t \in Sessions, t # s PROVE HandFresh(t)' /\ (t \in Direct => Recent(t)')
    <2>1. HandFresh(t)'
      BY <1>1, <1>2, <1>5, <1>6 DEF VersInv, HandFresh
    <2>2. ASSUME t \in Direct PROVE Recent(t)'
      <3>1. /\ pc'[t] = pc[t] /\ kind'[t] = kind[t] /\ w'[t] = w[t] /\ d'[t] = d[t]
            /\ stg' = stg /\ ver' = ver /\ (Shared(t) => Shared(t)')
        BY <1>2, <1>5, <1>6
      <3>2. \A k, x : Read(t, k, x) => Read(t, k, x)'
        BY <3>1 DEF Read
      <3>3. Recent(t)
        BY <2>2 DEF DirectVers
      <3>4. SUFFICES ASSUME Active(t) PROVE Recent(t)'
        BY <3>1 DEF Recent, Active
      <3>5. /\ \A i \in d'[t].todo : Read(t, "invoices", i)'
            /\ \A x \in d'[t].mine : Read(t, kind[t], x)'
        BY <3>1, <3>2, <3>3, <3>4 DEF Recent
      <3> QED BY <3>1, <3>3, <3>4, <3>5 DEF Recent, Read
    <2> QED BY <2>1, <2>2
  <1>7. ASSUME HandFresh(s)', Recent(s)' PROVE DirectVers'
    <2>1. \A k \in Kinds : \A r \in stg'[k] : r.ver <= ver'[r.key]
      BY <1>1, <1>2 DEF VersInv
    <2> QED BY <1>1, <1>6, <1>7, <2>1 DEF DirectVers, VersInv, HandFresh
  <1>8. CASE SyncInvoices(s) \/ GoOn(s) \/ Answer(s)
    <2>1. pc'[s] \notin HandStates /\ UNCHANGED <<kind, w, d>>
      BY <1>1, <1>8 DEF SyncInvoices, GoOn, Answer, Goto, HandStates
    <2>2. Active(s)' /\ ~ Active(s) => d[s].todo = {} /\ d[s].mine = {}
      <3>1. SyncInvoices(s) => pc[s] = "idle"
        BY DEF SyncInvoices
      <3>2. GoOn(s) \/ Answer(s) => Active(s)
        BY DEF GoOn, Answer, Active
      <3> QED BY <1>1, <1>8, <3>1, <3>2 DEF Requests, NoBatch
    <2> QED BY <1>1, <1>2, <1>5, <1>7, <2>1, <2>2 DEF HandFresh, Recent, Read
  <1>9. CASE ReadBatch(s)
    <2>1. pc'[s] \notin HandStates /\ (pc'[s] = "rejected" => ~ Active(s)')
      BY <1>1, <1>9, AfterReadBatch DEF HandStates, Active
    <2>2. ASSUME NEW b \in Batch, d' = [d EXCEPT ![s] = b], b.vers = ReadNow(NoBatch.vers, b.invs),
                 b.todo = b.invs, b.mine = {}
          PROVE  Recent(s)'
      <3>1. ASSUME NEW i \in b.todo PROVE Read(s, "invoices", i)'
        <4>1. i \in Keys /\ d'[s] = b
          BY <1>1, <2>2, <3>1 DEF Batch, Keys
        <4>2. b.vers[i] = ver[i]
          BY <2>2, <3>1, <4>1 DEF ReadNow, ReadVersion
        <4> QED BY <1>1, <1>2, <4>1, <4>2, ReadNowRead DEF Read
      <3>2. d'[s].todo = b.todo /\ d'[s].mine = {}
        BY <1>1, <2>2
      <3> QED BY <2>1, <3>1, <3>2 DEF Recent, Read
    <2>3. Recent(s)'
      BY <1>9, <2>1, <2>2, AfterReadBatch DEF Recent
    <2> QED BY <1>7, <2>1, <2>3 DEF HandFresh
  <1>10. CASE NextInvoice(s)
    <2>1. /\ pc[s] = "page" /\ pc'[s] = "find" /\ kind'[s] = "invoices" /\ Active(s)
      BY <1>10, AfterNextInvoice DEF Active
    <2>2. PICK i \in d[s].todo :
            /\ d' = [d EXCEPT ![s] = [d[s] EXCEPT !.todo = @ \ {i}, !.ok = FALSE]]
            /\ w' = [w EXCEPT ![s] = InHand(w[s], i, d[s].vers[i], NoRow)]
      BY <1>10, AfterNextInvoice
    <2>3. /\ i \in Keys /\ d'[s].todo = d[s].todo \ {i} /\ d'[s].mine = d[s].mine
          /\ d'[s].vers = d[s].vers /\ d[s].vers[i] \in Nat /\ d[s].mine = {}
      BY <1>1, <1>10, <2>2, AfterNextInvoice DEF Batch, Keys
    <2>4. w'[s].item = i /\ w'[s].ver = d[s].vers[i]
      <3>1. NoRow \in Nat \cup {NoRow}
        OBVIOUS
      <3> QED BY <1>1, <2>2, <2>3, <3>1, InHandType
    <2>5. Read(s, "invoices", i)
      BY <1>1, <2>1 DEF Recent
    <2>6. HandFresh(s)'
      BY <1>2, <1>3, <1>5, <2>1, <2>4, <2>5, <1>1 DEF HandFresh, Read
    <2>7. \A j \in d'[s].todo : Read(s, "invoices", j)'
      BY <1>1, <1>2, <1>3, <1>5, <2>1, <2>3 DEF Recent, Read
    <2>8. Recent(s)'
      BY <2>1, <2>3, <2>4, <2>7 DEF Recent, Read
    <2> QED BY <1>7, <2>6, <2>8
  <1>11. CASE NextLine(s) \/ NextPartner(s)
    <2> DEFINE q == IF kind[s] = "lines" THEN d[s].staging ELSE NoRow
    <2>1. /\ pc[s] = "page" /\ pc'[s] = "find" /\ kind' = kind /\ kind[s] # "invoices" /\ Active(s)
      BY <1>11, AfterNextOther DEF Active
    <2>2. PICK x \in d[s].mine :
            /\ d' = [d EXCEPT ![s] = [d[s] EXCEPT !.mine = @ \ {x}]]
            /\ w' = [w EXCEPT ![s] = InHand(w[s], x, d[s].vers[x], q)]
      BY <1>11, AfterNextOther
    <2>3. /\ x \in Keys /\ d'[s].todo = d[s].todo /\ d'[s].mine = d[s].mine \ {x}
          /\ d'[s].vers = d[s].vers /\ d[s].vers[x] \in Nat /\ q \in Nat \cup {NoRow}
      BY <1>1, <2>2 DEF Batch
    <2> HIDE DEF q
    <2>4. w'[s].item = x /\ w'[s].ver = d[s].vers[x]
      BY <1>1, <2>2, <2>3, InHandType
    <2>5. Read(s, kind[s], x)
      BY <1>1, <2>1 DEF Recent
    <2>6. HandFresh(s)'
      BY <1>2, <1>3, <1>5, <2>1, <2>4, <2>5, <1>1 DEF HandFresh, Read
    <2>7. /\ \A j \in d'[s].todo : Read(s, "invoices", j)'
          /\ \A y \in d'[s].mine : Read(s, kind[s], y)'
      BY <1>1, <1>2, <1>3, <1>5, <2>1, <2>3 DEF Recent, Read
    <2>8. Recent(s)'
      BY <2>1, <2>3, <2>4, <2>7 DEF Recent, Read
    <2> QED BY <1>7, <2>6, <2>8
  (* A batch that is read anew is as recent as can be. *)
  <1>12. ASSUME NEW b \in Batch, d'[s] = b, b.vers = ReadNow(d[s].vers, b.mine), b.todo = d[s].todo,
                Active(s), w' = w, pc'[s] = "page", NEW k \in Kinds, kind'[s] = k
         PROVE  DirectVers'
    <2>1. ASSUME NEW x \in b.mine PROVE Read(s, k, x)'
      <3>1. x \in Keys
        BY <2>1 DEF Batch
      <3>2. b.vers[x] = ver[x]
        BY <1>12, <2>1, <3>1 DEF ReadNow, ReadVersion
      <3> QED BY <1>1, <1>2, <1>12, <3>1, <3>2, ReadNowRead DEF Read
    <2>2. ASSUME NEW i \in b.todo PROVE Read(s, "invoices", i)'
      <3>1. i \in Keys /\ Read(s, "invoices", i)
        BY <1>1, <1>12, <2>2 DEF Batch, Keys, Recent
      <3>2. b.vers[i] = IF i \in b.mine THEN ver[i] ELSE d[s].vers[i]
        BY <1>12, <3>1 DEF ReadNow, ReadVersion
      <3>3. CASE i \in b.mine
        BY <1>1, <1>2, <1>12, <3>1, <3>2, <3>3, ReadNowRead DEF Read
      <3>4. CASE i \notin b.mine
        BY <1>2, <1>5, <1>1, <1>12, <3>1, <3>2, <3>4 DEF Read
      <3> QED BY <3>3, <3>4
    <2>3. Recent(s)'
      BY <1>12, <2>1, <2>2 DEF Recent, Read, HandStates
    <2> QED BY <1>7, <1>12, <2>3 DEF HandFresh, HandStates
  <1>13. d'[s] \in Batch
    BY <1>1, OwnTypes DEF DirectTypeInv
  <1>14. CASE ReadLines(s)
    <2>1. pc[s] = "report" /\ pc'[s] = "page" /\ kind[s] = "invoices" /\ Active(s)
      BY <1>14, AfterReadLines DEF Active
    <2>2. CASE d' = d /\ kind' = kind
      <3>1. Recent(s)'
        BY <1>1, <1>2, <1>3, <1>5, <2>1, <2>2 DEF Recent, Read, HandStates
      <3> QED BY <1>7, <2>1, <3>1 DEF HandFresh, HandStates
    <2>3. CASE /\ d' = [d EXCEPT ![s] = [d[s] EXCEPT !.mine = LinesOf(s), !.vers = ReadNow(@, LinesOf(s))]]
               /\ kind'[s] = "lines" /\ w' = w
      <3>1. /\ d'[s] \in Batch /\ d'[s].mine = LinesOf(s) /\ d'[s].todo = d[s].todo
            /\ d'[s].vers = ReadNow(d[s].vers, LinesOf(s))
        BY <1>1, <2>3, <1>13 DEF Batch
      <3> QED BY <1>1, <1>12, <2>1, <2>3, <3>1
    <2> QED BY <1>14, <2>2, <2>3, AfterReadLines
  <1>15. CASE ReadPartners(s)
    <2>1. /\ pc[s] = "page" /\ pc'[s] \in {"page", "done"} /\ kind'[s] = "partners" /\ Active(s) /\ w' = w
          /\ d[s].mine = {} /\ d[s].todo = {}
      BY <1>15, AfterReadPartners DEF Active
    <2>2. CASE pc'[s] = "done"
      BY <1>7, <2>2 DEF Recent, HandFresh, HandStates, Active
    <2>3. CASE d' = [d EXCEPT ![s] = [d[s] EXCEPT !.errors = w[s].errs]]
      <3>1. d'[s].mine = {} /\ d'[s].todo = {}
        BY <1>1, <2>1, <2>3 DEF Batch
      <3> QED BY <1>7, <2>1, <3>1 DEF Recent, HandFresh, HandStates
    <2>4. ASSUME pc'[s] = "page", NEW named \in SUBSET Partners,
                 d' = [d EXCEPT ![s] = [d[s] EXCEPT !.errors = w[s].errs, !.mine = named,
                                                    !.vers = ReadNow(@, named)]]
          PROVE  DirectVers'
      <3>1. /\ d'[s] \in Batch /\ d'[s].mine = named /\ d'[s].todo = d[s].todo
            /\ d'[s].vers = ReadNow(d[s].vers, named)
        BY <1>1, <2>4, <1>13 DEF Batch
      <3> QED BY <1>1, <1>12, <2>1, <2>4, <3>1
    <2> QED BY <1>15, <2>1, <2>2, <2>3, <2>4, AfterReadPartners
  <1> QED BY <1>8, <1>9, <1>10, <1>11, <1>14, <1>15 DEF Own

(* Odoo's versions only grow, and the sessions that overlap only get more. *)
LEMMA VersionsGrow ==
  ASSUME TypeInv, [Next]_vars
  PROVE  ver' \in [Keys -> Nat] /\ (\A x \in Keys : ver[x] <= ver'[x]) /\ overlap \subseteq overlap'
  <1>1. ver \in [Keys -> Nat] /\ \A x \in Keys : ver[x] <= ver[x]
    BY DEF TypeInv, TypeOK
  <1>2. ASSUME NEW x \in Keys, OdooEdits(x)
        PROVE  ver' \in [Keys -> Nat] /\ (\A y \in Keys : ver[y] <= ver'[y]) /\ overlap' = overlap
    BY <1>1, <1>2 DEF OdooEdits, taskVars
  <1>3. ver' = ver \/ \E x \in Keys : OdooEdits(x)
    BY DEF Next, Step, StartAsyncInvoiceSync, SaveJobRow, Respond, Begin, List, Nothing, SetTotal,
           NextPage, LookupInvoice, FindExisting, Save, Report, Finish, Fail, Crash, OdooPosts,
           OdooReverses, odooVars, vars
  <1>4. overlap \subseteq overlap'
    BY DEF Next, Step, StartAsyncInvoiceSync, SaveJobRow, Respond, Begin, List, Nothing, SetTotal,
           NextPage, LookupInvoice, FindExisting, Save, CountError, Report, Finish, Fail, NextJob, Crash,
           OdooPosts, OdooReverses, OdooEdits, vars, taskVars
  <1> QED BY <1>1, <1>2, <1>3, <1>4

LEMMA DirectVersStep == DirectTypeInv /\ RowsInv /\ DirectVers /\ [DirectNext]_directVars => DirectVers'
  <1> SUFFICES ASSUME DirectTypeInv, RowsInv, DirectVers, [DirectNext]_directVars PROVE DirectVers'
    OBVIOUS
  <1>1. /\ TypeInv /\ VersInv /\ d \in [Sessions -> Batch] /\ w \in [Sessions -> Local]
        /\ pc \in [Sessions -> Control]
        /\ \A t \in Direct : Recent(t) /\ t \in Sessions /\ d[t] \in Batch /\ w[t] \in Local
    BY DirectAssumption DEF DirectTypeInv, DirectVers, TypeInv, TypeOK
  (* A step of OdooSync that leaves a request as it was, or stops it. *)
  <1>2. ASSUME [Next]_vars, NEW t \in Direct, Active(t)' => Active(t), kind'[t] = kind[t],
               d'[t].vers = d[t].vers, d'[t].todo = d[t].todo, d'[t].mine = d[t].mine,
               pc'[t] \in HandStates => pc[t] \in HandStates /\ w'[t].item = w[t].item
        PROVE  Recent(t)'
    <2>1. w'[t].holding = w[t].holding
      BY <1>1, <1>2, HoldingKept
    <2> QED BY <1>1, <1>2, <2>1, VersionsGrow, RecentFrame
  <1>3. ASSUME [Next]_vars, \A t \in Direct : Recent(t)' PROVE DirectVers'
    BY <1>1, <1>3, VersStep DEF DirectVers
  <1>4. ASSUME NEW s \in Direct, DirectSave(s) PROVE DirectVers'
    <2>1. [Next]_vars /\ s \in Sessions
      BY <1>1, <1>4 DEF DirectSave, Next, Step
    <2>2. \A t \in Sessions : t # s => pc'[t] = pc[t] /\ kind'[t] = kind[t] /\ w'[t] = w[t] /\ d'[t] = d[t]
      BY <1>1, <1>4, <2>1, OthersKept DEF DirectSave, Step
    <2>3. /\ Active(s) /\ kind' = kind /\ pc'[s] \notin HandStates
      BY <1>1, <1>4, AfterSave DEF Active, HandStates
    <2>4. d'[s].vers = d[s].vers /\ d'[s].todo = d[s].todo /\ d'[s].mine = d[s].mine
      <3> DEFINE e == w'[s].saved > w[s].saved
      <3> HIDE DEF e
      <3>1. d' = d \/ d' = [d EXCEPT ![s] = [d[s] EXCEPT !.ok = e, !.staging = SavedId(s)]]
        BY <1>4, AfterSave DEF e
      <3>2. d'[s] = d[s] \/ d'[s] = [d[s] EXCEPT !.ok = e, !.staging = SavedId(s)]
        BY <1>1, <2>1, <3>1
      <3> QED BY <1>1, <3>2 DEF Batch
    <2>5. Recent(s)'
      BY <1>2, <2>1, <2>3, <2>4
    <2>6. \A t \in Direct : t # s => Recent(t)'
      BY <1>1, <1>2, <2>1, <2>2 DEF Active
    <2> QED BY <1>3, <2>1, <2>5, <2>6
  <1>5. ASSUME NEW s \in Direct, FindExisting(s), UNCHANGED d PROVE DirectVers'
    <2>1. [Next]_vars /\ s \in Sessions
      BY <1>1, <1>5 DEF Next, Step
    <2>2. \A t \in Sessions : t # s => pc'[t] = pc[t] /\ kind'[t] = kind[t] /\ w'[t] = w[t]
      BY <1>1, <1>5, <2>1, OthersKept DEF Step
    <2>3. Active(s) /\ pc[s] \in HandStates /\ kind' = kind
      BY <1>5, AfterFind DEF Active, HandStates
    <2>4. w'[s].item = w[s].item
      <3>1. \/ w' = [w EXCEPT ![s] = [w[s] EXCEPT !.errs = @ + 1]]
            \/ \E r \in StgRow \cup {NoRow} : w' = [w EXCEPT ![s] = [w[s] EXCEPT !.row = r]]
        BY <1>5, AfterFind
      <3> QED BY <1>1, <2>1, <3>1 DEF Local
    <2>5. Recent(s)'
      BY <1>2, <1>5, <2>1, <2>3, <2>4
    <2>6. \A t \in Direct : t # s => Recent(t)'
      BY <1>1, <1>2, <1>5, <2>1, <2>2 DEF Active
    <2> QED BY <1>3, <2>1, <2>5, <2>6
  <1>6. ASSUME NEW s \in Sessions \ Direct, StartAsyncInvoiceSync(s) \/ Step(s), UNCHANGED d
        PROVE  DirectVers'
    <2>1. [Next]_vars
      BY <1>6 DEF Next
    <2>2. \A t \in Direct : pc'[t] = pc[t] /\ kind'[t] = kind[t] /\ w'[t] = w[t]
      BY <1>1, <1>6, OthersKept
    <2> QED BY <1>2, <1>3, <1>6, <2>1, <2>2 DEF Active
  <1>7. CASE Crash /\ UNCHANGED d
    <2>1. [Next]_vars /\ kind' = kind
      BY <1>7 DEF Next, Crash
    <2>2. \A t \in Direct : pc'[t] \notin HandStates /\ (Active(t)' => Active(t))
      BY <1>1, <1>7 DEF Crash, Active, HandStates
    <2> QED BY <1>2, <1>3, <1>7, <2>1, <2>2
  <1>8. CASE UNCHANGED <<taskVars, d>> /\ [Next]_vars
    <2>1. UNCHANGED <<pc, kind, w, d>>
      BY <1>8 DEF taskVars
    <2>2. \A t \in Direct : Active(t)' => Active(t)
      BY <2>1 DEF Active
    <2> QED BY <1>2, <1>3, <1>8, <2>1, <2>2
  <1> QED
    BY <1>4, <1>5, <1>6, <1>7, <1>8, Movers, OwnVers
    DEF Next, OdooPosts, OdooReverses, OdooEdits, directVars, vars, taskVars

(* A save puts an older version over a newer one only if sessions of the   *)
(* record's holding overlapped, with requests beside the jobs as well: the *)
(* age of what a request read long ago is no worse than that.              *)
THEOREM DirectDataNeverGoesBack == DirectSpec => NoStaleOverwrite
  <1>1. DirectInit => RowsInv /\ DirectVers
    <2> SUFFICES ASSUME DirectInit PROVE RowsInv /\ DirectVers
      OBVIOUS
    <2>1. RowsInv /\ VersInv
      BY DEF DirectInit, Init, RowsInv, IdsUnique, ActiveOverlap, Active, DuplicatesNeedOverlap, SaveReady,
             VersInv, HandFresh, HandStates, Kinds
    <2>2. ASSUME NEW s \in Direct PROVE Recent(s)
      BY DirectAssumption DEF DirectInit, Init, Recent, Active
    <2> QED BY <2>1, <2>2 DEF DirectVers
  <1>2. DirectTypeInv /\ RowsInv /\ DirectVers /\ [DirectNext]_directVars =>
          [\A k \in Kinds : \A q \in stg[k], r \in stg'[k] :
             q.id = r.id /\ r.ver < q.ver =>
               \E s, t \in Sessions :
                 <<s, t>> \in overlap /\ w[s].holding = r.holding /\ w[t].holding = r.holding]_stg
    <2>1. DirectTypeInv /\ DirectVers => TypeInv /\ VersInv
      BY DEF DirectTypeInv, DirectVers
    <2>2. ASSUME DirectTypeInv, NEW s \in Direct, Own(s) PROVE UNCHANGED stg
      BY <2>2, OwnKept
    <2> QED BY <2>1, <2>2, OwnOrNext, OnlySavesWrite, SaveNotStale DEF Shared
  <1> QED
    BY <1>1, <1>2, DirectTypeInit, DirectTypeStep, DirectRowsStep, DirectVersStep, PTL
    DEF DirectSpec, NoStaleOverwrite
-----------------------------------------------------------------------------
(* The tables of module Staging.  Besides its saves a request touches them *)
(* only by being active.                                                   *)
LEMMA OwnHolding ==
  ASSUME DirectTypeInv, NEW s \in Direct, Own(s)
  PROVE  /\ UNCHANGED stg /\ \A t \in Sessions : w'[t].holding = w[t].holding
         /\ SyncInvoices(s) \/ overlap' = overlap
  <1>1. /\ DirectTypeInv' /\ s \in Sessions
    BY DirectAssumption, DirectTypeStep DEF DirectNext, DirectStep, Own
  <1>2. w'[s].holding = w[s].holding
    BY <1>1 DEF DirectTypeInv, Requests
  <1>3. UNCHANGED stg /\ \A t \in Sessions : t # s => w'[t] = w[t]
    BY OwnKept
  <1>4. SyncInvoices(s) \/ overlap' = overlap
    BY DEF Own, ReadBatch, NextInvoice, NextLine, NextPartner, TakeUp, ReadLines, GoOn, ReadPartners, Answer
  <1> QED BY <1>2, <1>3, <1>4

LEMMA DirectByHolding ==
  ASSUME DirectTypeInv, RowsInv, ByHolding, [DirectNext]_directVars
  PROVE  ByHolding'
  <1>1. TypeInv
    BY DEF DirectTypeInv
  <1>2. ASSUME NEW s \in Direct, Own(s) PROVE ByHolding'
    BY <1>1, <1>2, OwnHolding, ByHoldingKept
  <1>3. CASE [Next]_vars
    BY <1>1, <1>3, HoldingKept, OnlySavesWrite, ByHoldingKept
  <1> QED BY <1>2, <1>3, OwnOrNext

LEMMA DirectStagingStep ==
  ASSUME DirectTypeInv, RowsInv, DirectRefs, DirectVers, ByHolding, [DirectNext]_directVars
  PROVE  [ST!Next]_ST!stagingVars
  <1>1. TypeInv /\ RefsInv /\ VersInv
    BY DEF DirectTypeInv, DirectRefs, DirectVers
  <1>2. ASSUME NEW s \in Direct, Own(s) PROVE [ST!Next]_ST!stagingVars
    <2>1. s \in Sessions /\ UNCHANGED stg /\ \A t \in Sessions : w'[t].holding = w[t].holding
      BY <1>2, OwnHolding, DirectAssumption
    <2>2. CASE SyncInvoices(s)
      BY <1>1, <2>1, <2>2, StartContends DEF SyncInvoices
    <2>3. CASE overlap' = overlap
      BY <2>1, <2>3, ContendedKept DEF ST!stagingVars
    <2> QED BY <1>2, <2>2, <2>3, OwnHolding
  <1>3. CASE [Next]_vars
    BY <1>1, <1>3, StagingStep
  <1> QED BY <1>2, <1>3, OwnOrNext

(* Requests and jobs on the same tables copy records as module Staging     *)
(* says, however long a request holds what it read.                        *)
THEOREM DirectStagingImplemented == DirectSpec => ImplementsStaging
  <1>1. DirectInit => ST!Init /\ RowsInv /\ DirectRefs /\ DirectVers /\ ByHolding
    <2> SUFFICES ASSUME DirectInit PROVE ST!Init /\ RowsInv /\ DirectRefs /\ DirectVers /\ ByHolding
      OBVIOUS
    <2>1. RowsInv /\ RefsInv /\ VersInv
      BY DEF DirectInit, Init, RowsInv, IdsUnique, ActiveOverlap, Active, DuplicatesNeedOverlap, SaveReady,
             RefsInv, LineRefsInvoice, RefReady, VersInv, HandFresh, HandStates, Kinds
    <2>2. ASSUME NEW s \in Direct PROVE Ready(s) /\ Recent(s)
      BY DirectAssumption DEF DirectInit, Init, Ready, Recent, Active
    <2> QED BY <2>1, <2>2, StagingStart DEF DirectInit, DirectRefs, DirectVers
  <1> QED
    BY <1>1, DirectTypeInit, DirectTypeStep, DirectRowsStep, DirectRefsStep, DirectVersStep, DirectByHolding,
       DirectStagingStep, PTL
    DEF DirectSpec, ImplementsStaging, ST!Spec
-----------------------------------------------------------------------------
(* Completeness.  Every invoice and line of a request's page is staged, or *)
(* still to do, or in hand, unless an error was counted; the errors among  *)
(* partners are none of those.                                             *)
Errors(s) == IF kind[s] = "partners" THEN d[s].errors ELSE w[s].errs

InvoiceFollowed(s, i) ==
  \/ i \in KeysIn(stg["invoices"], DirectHolding)
  \/ kind[s] # "partners" /\ i \in d[s].todo
  \/ kind[s] = "invoices" /\ pc[s] \in {"find", "save"} /\ w[s].item = i

LineFollowed(s, l) ==
  \/ l \in KeysIn(stg["lines"], DirectHolding)
  \/ kind[s] # "partners" /\ MoveOf[l] \in d[s].todo
  \/ kind[s] = "invoices" /\ pc[s] \in {"find", "save", "report"} /\ w[s].item = MoveOf[l]
  \/ kind[s] = "lines" /\ (l \in d[s].mine \/ (pc[s] \in {"find", "save"} /\ w[s].item = l))

Followed(s) ==
  /\ pc[s] = "done" => kind[s] = "partners" \/ (d[s].lines = {} /\ d[s].invs = {})
  /\ pc[s] # "dead" /\ Errors(s) = 0 =>
       /\ \A i \in d[s].invs : InvoiceFollowed(s, i)
       /\ \A l \in d[s].lines : LineFollowed(s, l)
       /\ pc[s] = "report" /\ kind[s] = "invoices" => d[s].ok

DirectStaged == \A s \in Direct : Followed(s)

(* Nothing staged is lost, so a request left alone has followed its page.  *)
LEMMA FollowedFrame ==
  ASSUME DirectTypeInv, RowsInv, [Next]_vars, NEW t \in Direct, Followed(t),
         kind'[t] = kind[t], d'[t] = d[t], pc'[t] = "dead" \/ (pc'[t] = pc[t] /\ w'[t] = w[t])
  PROVE  Followed(t)'
  <1>1. /\ KeysIn(stg["invoices"], DirectHolding) \subseteq KeysIn(stg'["invoices"], DirectHolding)
        /\ KeysIn(stg["lines"], DirectHolding) \subseteq KeysIn(stg'["lines"], DirectHolding)
    BY StagedGrows DEF DirectTypeInv, Kinds
  <1>2. CASE pc'[t] = "dead"
    BY <1>2 DEF Followed
  <1>3. CASE pc'[t] = pc[t] /\ w'[t] = w[t]
    <2>1. /\ \A i : InvoiceFollowed(t, i) => InvoiceFollowed(t, i)'
          /\ \A l : LineFollowed(t, l) => LineFollowed(t, l)'
      BY <1>1, <1>3 DEF InvoiceFollowed, LineFollowed
    <2>2. Errors(t)' = Errors(t)
      BY <1>3 DEF Errors
    <2> QED BY <1>3, <2>1, <2>2 DEF Followed
  <1> QED BY <1>2, <1>3

(* A request's own steps only take from what is to do what they have in    *)
(* hand then.                                                              *)
LEMMA OwnFollowed ==
  ASSUME DirectTypeInv, DirectStaged, NEW s \in Direct, Own(s)
  PROVE  DirectStaged'
  <1>1. /\ s \in Sessions /\ d[s] \in Batch /\ w[s] \in Local /\ Requests(s) /\ Followed(s)
        /\ w \in [Sessions -> Local] /\ d \in [Sessions -> Batch] /\ (\A t \in Direct : t \in Sessions)
        /\ pc \in [Sessions -> Control] /\ kind \in [Sessions -> Kinds]
        /\ Kinds = {"partners", "invoices", "lines"} /\ kind[s] \in Kinds /\ w[s].errs \in Nat
    BY DirectAssumption DEF DirectTypeInv, TypeInv, TypeOK, DirectStaged, Kinds, Local
  <1>2. /\ stg' = stg
        /\ \A t \in Sessions : t # s =>
             pc'[t] = pc[t] /\ kind'[t] = kind[t] /\ w'[t] = w[t] /\ d'[t] = d[t]
    BY OwnKept
  <1>3. ASSUME NEW t \in Direct, t # s PROVE Followed(t)'
    <2>1. /\ pc'[t] = pc[t] /\ kind'[t] = kind[t] /\ w'[t] = w[t] /\ d'[t] = d[t] /\ Followed(t)
      BY <1>1, <1>2, <1>3 DEF DirectStaged
    <2>2. /\ \A i : InvoiceFollowed(t, i) => InvoiceFollowed(t, i)'
          /\ \A l : LineFollowed(t, l) => LineFollowed(t, l)'
      BY <1>2, <2>1 DEF InvoiceFollowed, LineFollowed
    <2>3. Errors(t)' = Errors(t)
      BY <2>1 DEF Errors
    <2> QED BY <2>1, <2>2, <2>3 DEF Followed
  <1>4. SUFFICES Followed(s)'
    BY <1>3 DEF DirectStaged
  <1>5. CASE SyncInvoices(s)
    <2>1. pc[s] = "idle" /\ d' = d /\ pc'[s] = "list"
      BY <1>1, <1>5 DEF SyncInvoices, Goto
    <2> QED BY <1>1, <2>1 DEF Followed, Requests, NoBatch
  <1>6. CASE ReadBatch(s)
    <2>1. CASE pc'[s] = "rejected" /\ d' = d /\ kind' = kind
      <3>1. pc[s] = "list"
        BY <1>6 DEF ReadBatch
      <3> QED BY <1>1, <2>1, <3>1 DEF Followed, Requests, NoBatch
    <2>2. ASSUME pc'[s] = IF d'[s].lines = {} THEN "done" ELSE "page", kind'[s] = "invoices",
                 NEW b \in Batch, d' = [d EXCEPT ![s] = b],
                 b.invs = {MoveOf[l] : l \in b.lines}, b.todo = b.invs
          PROVE  Followed(s)'
      <3>1. d'[s] = b
        BY <1>1, <2>2
      <3>2. \A i \in d'[s].invs : InvoiceFollowed(s, i)'
        BY <2>2, <3>1 DEF InvoiceFollowed
      <3>3. \A l \in d'[s].lines : LineFollowed(s, l)'
        BY <2>2, <3>1 DEF LineFollowed
      <3>4. pc'[s] = "done" => d'[s].lines = {} /\ d'[s].invs = {}
        BY <2>2, <3>1
      <3> QED BY <2>2, <3>2, <3>3, <3>4 DEF Followed
    <2> QED BY <1>6, <2>1, <2>2, AfterReadBatch
  <1>7. CASE NextInvoice(s)
    <2>1. /\ pc[s] = "page" /\ pc'[s] = "find" /\ kind[s] # "partners" /\ kind'[s] = "invoices"
          /\ d[s].mine = {}
      BY <1>7, AfterNextInvoice
    <2>2. PICK i \in d[s].todo :
            /\ d' = [d EXCEPT ![s] = [d[s] EXCEPT !.todo = @ \ {i}, !.ok = FALSE]]
            /\ w' = [w EXCEPT ![s] = InHand(w[s], i, d[s].vers[i], NoRow)]
      BY <1>7, AfterNextInvoice
    <2>3. /\ d'[s].todo = d[s].todo \ {i} /\ d'[s].invs = d[s].invs /\ d'[s].lines = d[s].lines
          /\ i \in Keys /\ d[s].vers[i] \in Nat /\ NoRow \in Nat \cup {NoRow}
      BY <1>1, <2>2 DEF Batch, Keys
    <2>4. w'[s].item = i /\ w'[s].errs = w[s].errs
      BY <1>1, <2>2, <2>3, InHandType
    <2>5. /\ \A j : InvoiceFollowed(s, j) => InvoiceFollowed(s, j)'
          /\ \A l : LineFollowed(s, l) => LineFollowed(s, l)'
      BY <1>2, <2>1, <2>3, <2>4 DEF InvoiceFollowed, LineFollowed
    <2>6. Errors(s)' = Errors(s)
      BY <2>1, <2>4 DEF Errors
    <2> QED BY <1>1, <2>1, <2>3, <2>5, <2>6 DEF Followed
  <1>8. CASE NextLine(s) \/ NextPartner(s)
    <2> DEFINE q == IF kind[s] = "lines" THEN d[s].staging ELSE NoRow
    <2>1. pc[s] = "page" /\ pc'[s] = "find" /\ kind' = kind /\ kind[s] # "invoices"
      BY <1>8, AfterNextOther
    <2>2. PICK x \in d[s].mine :
            /\ d' = [d EXCEPT ![s] = [d[s] EXCEPT !.mine = @ \ {x}]]
            /\ w' = [w EXCEPT ![s] = InHand(w[s], x, d[s].vers[x], q)]
      BY <1>8, AfterNextOther
    <2>3. /\ d'[s].mine = d[s].mine \ {x} /\ d'[s].invs = d[s].invs /\ d'[s].lines = d[s].lines
          /\ d'[s].todo = d[s].todo /\ d'[s].errors = d[s].errors
          /\ x \in Keys /\ d[s].vers[x] \in Nat /\ q \in Nat \cup {NoRow}
      BY <1>1, <2>2 DEF Batch
    <2> HIDE DEF q
    <2>4. w'[s].item = x /\ w'[s].errs = w[s].errs
      BY <1>1, <2>2, <2>3, InHandType
    <2>5. /\ \A j : InvoiceFollowed(s, j) => InvoiceFollowed(s, j)'
          /\ \A l : LineFollowed(s, l) => LineFollowed(s, l)'
      BY <1>2, <2>1, <2>3, <2>4 DEF InvoiceFollowed, LineFollowed
    <2>6. Errors(s)' = Errors(s)
      BY <2>1, <2>3, <2>4 DEF Errors
    <2> QED BY <1>1, <2>1, <2>3, <2>5, <2>6 DEF Followed
  <1>9. CASE ReadLines(s)
    <2>1. pc[s] = "report" /\ pc'[s] = "page" /\ kind[s] = "invoices" /\ d[s].ok
      BY <1>9, AfterReadLines
    <2>2. CASE d' = d /\ kind' = kind /\ w' = [w EXCEPT ![s] = [w[s] EXCEPT !.errs = @ + 1]]
      <3>1. w'[s].errs = w[s].errs + 1
        BY <1>1, <2>2 DEF Local
      <3>2. Errors(s)' # 0
        BY <1>1, <2>1, <2>2, <3>1 DEF Errors
      <3> QED BY <2>1, <3>2 DEF Followed
    <2>3. CASE /\ d' = [d EXCEPT ![s] = [d[s] EXCEPT !.mine = LinesOf(s), !.vers = ReadNow(@, LinesOf(s))]]
               /\ kind'[s] = "lines" /\ w' = w
      <3>1. /\ d'[s].mine = LinesOf(s) /\ d'[s].todo = d[s].todo
            /\ d'[s].lines = d[s].lines /\ d'[s].invs = d[s].invs
        BY <1>1, <2>3 DEF Batch
      <3>2. /\ \A j : InvoiceFollowed(s, j) => InvoiceFollowed(s, j)'
            /\ \A l \in d[s].lines : LineFollowed(s, l) => LineFollowed(s, l)'
        BY <1>2, <2>1, <2>3, <3>1 DEF InvoiceFollowed, LineFollowed, LinesOf
      <3>3. Errors(s)' = Errors(s)
        BY <2>1, <2>3 DEF Errors
      <3> QED BY <1>1, <2>1, <3>1, <3>2, <3>3 DEF Followed
    <2> QED BY <1>9, <2>2, <2>3, AfterReadLines
  <1>10. CASE GoOn(s)
    <2>1. /\ pc[s] = "report" /\ pc'[s] = "page" /\ ~ (kind[s] = "invoices" /\ d[s].ok)
          /\ UNCHANGED <<kind, w, d>>
      BY <1>1, <1>10 DEF GoOn, Goto
    <2>2. Errors(s)' = Errors(s)
      BY <2>1 DEF Errors
    <2>3. CASE kind[s] # "invoices"
      <3>1. /\ \A j : InvoiceFollowed(s, j) => InvoiceFollowed(s, j)'
            /\ \A l : LineFollowed(s, l) => LineFollowed(s, l)'
        BY <1>2, <2>1, <2>3 DEF InvoiceFollowed, LineFollowed
      <3> QED BY <1>1, <2>1, <2>2, <3>1 DEF Followed
    <2>4. CASE kind[s] = "invoices"
      <3>1. Errors(s) # 0
        BY <1>1, <2>1, <2>4 DEF Followed
      <3> QED BY <2>1, <2>2, <3>1 DEF Followed
    <2> QED BY <2>3, <2>4
  <1>11. CASE ReadPartners(s)
    <2>1. /\ pc[s] = "page" /\ pc'[s] \in {"page", "done"} /\ kind[s] # "partners" /\ kind'[s] = "partners"
          /\ d[s].mine = {} /\ d[s].todo = {} /\ w' = w
      BY <1>11, AfterReadPartners
    <2>2. d'[s].errors = w[s].errs /\ d'[s].lines = d[s].lines /\ d'[s].invs = d[s].invs
      <3>1. CASE d' = [d EXCEPT ![s] = [d[s] EXCEPT !.errors = w[s].errs]]
        BY <1>1, <3>1 DEF Batch
      <3>2. ASSUME NEW named \in SUBSET Partners,
                   d' = [d EXCEPT ![s] = [d[s] EXCEPT !.errors = w[s].errs, !.mine = named,
                                                      !.vers = ReadNow(@, named)]]
            PROVE  d'[s].errors = w[s].errs /\ d'[s].lines = d[s].lines /\ d'[s].invs = d[s].invs
        BY <1>1, <3>2 DEF Batch
      <3> QED BY <1>11, <3>1, <3>2, AfterReadPartners
    <2>3. /\ \A j : InvoiceFollowed(s, j) => InvoiceFollowed(s, j)'
          /\ \A l : LineFollowed(s, l) => LineFollowed(s, l)'
      BY <1>2, <2>1 DEF InvoiceFollowed, LineFollowed
    <2>4. Errors(s)' = Errors(s)
      BY <2>1, <2>2 DEF Errors
    <2> QED BY <1>1, <2>1, <2>2, <2>3, <2>4 DEF Followed
  <1>12. CASE Answer(s)
    <2>1. pc[s] = "page" /\ pc'[s] = "done" /\ kind[s] = "partners" /\ UNCHANGED <<kind, w, d>>
      BY <1>1, <1>12 DEF Answer, Goto
    <2>2. /\ \A j : InvoiceFollowed(s, j) => InvoiceFollowed(s, j)'
          /\ \A l : LineFollowed(s, l) => LineFollowed(s, l)'
      BY <1>2, <2>1 DEF InvoiceFollowed, LineFollowed
    <2>3. Errors(s)' = Errors(s)
      BY <2>1 DEF Errors
    <2> QED BY <1>1, <2>1, <2>2, <2>3 DEF Followed
  <1> QED BY <1>5, <1>6, <1>7, <1>8, <1>9, <1>10, <1>11, <1>12 DEF Own

LEMMA DirectStagedStep == DirectTypeInv /\ RowsInv /\ DirectStaged /\ [DirectNext]_directVars => DirectStaged'
  <1> SUFFICES ASSUME DirectTypeInv, RowsInv, DirectStaged, [DirectNext]_directVars PROVE DirectStaged'
    OBVIOUS
  <1>1. /\ TypeInv /\ d \in [Sessions -> Batch] /\ w \in [Sessions -> Local] /\ pc \in [Sessions -> Control]
        /\ Kinds = {"partners", "invoices", "lines"}
        /\ \A t \in Direct : /\ Followed(t) /\ Requests(t) /\ t \in Sessions /\ d[t] \in Batch
                             /\ w[t] \in Local /\ w[t].errs \in Nat /\ kind[t] \in Kinds
    BY DirectAssumption DEF DirectTypeInv, DirectStaged, TypeInv, TypeOK, Kinds, Local
  <1>2. ASSUME [Next]_vars
        PROVE  /\ KeysIn(stg["invoices"], DirectHolding) \subseteq KeysIn(stg'["invoices"], DirectHolding)
               /\ KeysIn(stg["lines"], DirectHolding) \subseteq KeysIn(stg'["lines"], DirectHolding)
    BY <1>1, <1>2, StagedGrows
  <1>3. ASSUME NEW s \in Direct, DirectSave(s) PROVE DirectStaged'
    <2>1. [Next]_vars /\ s \in Sessions /\ SaveReady(s) /\ w[s].holding = DirectHolding /\ Followed(s)
      BY <1>1, <1>3 DEF DirectSave, Next, Step, RowsInv, Requests
    <2>2. \A t \in Sessions : t # s => pc'[t] = pc[t] /\ kind'[t] = kind[t] /\ w'[t] = w[t] /\ d'[t] = d[t]
      BY <1>1, <1>3, <2>1, OthersKept DEF DirectSave, Step
    <2>3. \A t \in Direct : t # s => Followed(t)'
      BY <1>1, <2>1, <2>2, FollowedFrame
    <2>4. pc[s] = "save" /\ pc'[s] = "report" /\ kind' = kind
      BY <1>3, AfterSave
    <2>5. /\ d'[s].todo = d[s].todo /\ d'[s].mine = d[s].mine /\ d'[s].invs = d[s].invs
          /\ d'[s].lines = d[s].lines /\ d'[s].errors = d[s].errors
          /\ kind[s] = "invoices" => (d'[s].ok <=> w'[s].saved > w[s].saved)
      <3> DEFINE e == w'[s].saved > w[s].saved
      <3> HIDE DEF e
      <3>1. IF kind[s] = "invoices"
            THEN d' = [d EXCEPT ![s] = [d[s] EXCEPT !.ok = e, !.staging = SavedId(s)]]
            ELSE d' = d
        BY <1>3, AfterSave DEF e
      <3>2. IF kind[s] = "invoices"
            THEN d'[s] = [d[s] EXCEPT !.ok = e, !.staging = SavedId(s)]
            ELSE d'[s] = d[s]
        BY <1>1, <2>1, <3>1
      <3>3. /\ d'[s].todo = d[s].todo /\ d'[s].mine = d[s].mine /\ d'[s].invs = d[s].invs
            /\ d'[s].lines = d[s].lines /\ d'[s].errors = d[s].errors
            /\ kind[s] = "invoices" => d'[s].ok = e
        BY <1>1, <3>2 DEF Batch
      <3> QED BY <3>3 DEF e
    <2>6. CASE kind[s] = "partners"
      <3>1. /\ \A j : InvoiceFollowed(s, j) => InvoiceFollowed(s, j)'
            /\ \A l : LineFollowed(s, l) => LineFollowed(s, l)'
        BY <1>2, <2>1, <2>4, <2>6 DEF InvoiceFollowed, LineFollowed
      <3>2. Errors(s)' = Errors(s)
        BY <2>4, <2>5, <2>6 DEF Errors
      <3>3. Followed(s)'
        BY <2>1, <2>4, <2>5, <2>6, <3>1, <3>2 DEF Followed
      <3> QED BY <2>3, <3>3 DEF DirectStaged
    <2>7. CASE kind[s] # "partners" /\ w' = [w EXCEPT ![s] = [w[s] EXCEPT !.errs = @ + 1]]
      <3>1. w'[s].errs = w[s].errs + 1
        BY <1>1, <2>1, <2>7 DEF Local
      <3>2. Errors(s)' # 0
        BY <1>1, <2>4, <2>7, <3>1 DEF Errors
      <3>3. Followed(s)'
        BY <2>4, <3>2 DEF Followed
      <3> QED BY <2>3, <3>3 DEF DirectStaged
    <2>8. CASE /\ kind[s] # "partners" /\ Write(s)
               /\ w' = [w EXCEPT ![s] = [w[s] EXCEPT !.saved = @ + 1]]
      <3>1. /\ w'[s].item = w[s].item /\ w'[s].errs = w[s].errs
            /\ w'[s].saved = w[s].saved + 1 /\ w[s].saved \in Nat
        BY <1>1, <2>1, <2>8 DEF Local
      <3>2. w[s].item \in KeysIn(stg'[kind[s]], DirectHolding)
        BY <1>1, <2>1, <2>4, <2>8, WriteStages
      <3>3. /\ \A j : InvoiceFollowed(s, j) => InvoiceFollowed(s, j)'
            /\ \A l : LineFollowed(s, l) => LineFollowed(s, l)'
        BY <1>2, <2>1, <2>4, <2>5, <2>8, <3>1, <3>2 DEF InvoiceFollowed, LineFollowed
      <3>4. Errors(s)' = Errors(s)
        BY <2>4, <2>8, <3>1 DEF Errors
      <3>5. kind[s] = "invoices" => d'[s].ok
        BY <2>5, <3>1
      <3>6. Followed(s)'
        BY <2>1, <2>4, <2>5, <2>8, <3>3, <3>4, <3>5 DEF Followed
      <3> QED BY <2>3, <3>6 DEF DirectStaged
    <2> QED BY <1>3, <2>6, <2>7, <2>8, AfterSave
  <1>4. ASSUME NEW s \in Direct, FindExisting(s), UNCHANGED d PROVE DirectStaged'
    <2>1. [Next]_vars /\ s \in Sessions /\ Followed(s)
      BY <1>1, <1>4 DEF Next, Step
    <2>2. \A t \in Sessions : t # s => pc'[t] = pc[t] /\ kind'[t] = kind[t] /\ w'[t] = w[t]
      BY <1>1, <1>4, <2>1, OthersKept DEF Step
    <2>3. \A t \in Direct : t # s => Followed(t)'
      BY <1>1, <1>4, <2>1, <2>2, FollowedFrame
    <2>4. pc[s] = "find" /\ pc'[s] \in {"save", "report"} /\ kind' = kind /\ stg' = stg
      BY <1>4, AfterFind
    <2>5. CASE kind[s] = "partners"
      <3>1. /\ \A j : InvoiceFollowed(s, j) => InvoiceFollowed(s, j)'
            /\ \A l : LineFollowed(s, l) => LineFollowed(s, l)'
        BY <2>4, <2>5 DEF InvoiceFollowed, LineFollowed
      <3>2. Errors(s)' = Errors(s)
        BY <1>4, <2>4, <2>5 DEF Errors
      <3>3. Followed(s)'
        BY <1>4, <2>1, <2>4, <2>5, <3>1, <3>2 DEF Followed
      <3> QED BY <2>3, <3>3 DEF DirectStaged
    <2>6. CASE kind[s] # "partners" /\ w' = [w EXCEPT ![s] = [w[s] EXCEPT !.errs = @ + 1]]
      <3>1. w'[s].errs = w[s].errs + 1
        BY <1>1, <2>1, <2>6 DEF Local
      <3>2. Errors(s)' # 0
        BY <1>1, <2>4, <2>6, <3>1 DEF Errors
      <3>3. Followed(s)'
        BY <2>4, <3>2 DEF Followed
      <3> QED BY <2>3, <3>3 DEF DirectStaged
    <2>7. ASSUME kind[s] # "partners", pc'[s] = "save", NEW r, w' = [w EXCEPT ![s] = [w[s] EXCEPT !.row = r]]
          PROVE  DirectStaged'
      <3>1. w'[s].item = w[s].item /\ w'[s].errs = w[s].errs
        BY <1>1, <2>1, <2>7 DEF Local
      <3>2. /\ \A j : InvoiceFollowed(s, j) => InvoiceFollowed(s, j)'
            /\ \A l : LineFollowed(s, l) => LineFollowed(s, l)'
        BY <1>4, <2>4, <2>7, <3>1 DEF InvoiceFollowed, LineFollowed
      <3>3. Errors(s)' = Errors(s)
        BY <1>4, <2>4, <3>1 DEF Errors
      <3>4. Followed(s)'
        BY <1>4, <2>1, <2>4, <2>7, <3>2, <3>3 DEF Followed
      <3> QED BY <2>3, <3>4 DEF DirectStaged
    <2> QED BY <1>4, <2>5, <2>6, <2>7, AfterFind
  <1>5. ASSUME NEW s \in Sessions \ Direct, StartAsyncInvoiceSync(s) \/ Step(s), UNCHANGED d
        PROVE  DirectStaged'
    <2>1. [Next]_vars
      BY <1>5 DEF Next
    <2>2. \A t \in Direct : pc'[t] = pc[t] /\ kind'[t] = kind[t] /\ w'[t] = w[t]
      BY <1>1, <1>5, OthersKept
    <2> QED BY <1>1, <1>5, <2>1, <2>2, FollowedFrame DEF DirectStaged
  <1>6. CASE Crash /\ UNCHANGED d
    <2>1. [Next]_vars /\ kind' = kind
      BY <1>6 DEF Next, Crash
    <2>2. \A t \in Direct : pc'[t] = "dead" \/ (pc'[t] = pc[t] /\ w'[t] = w[t])
      BY <1>1, <1>6 DEF Crash
    <2> QED BY <1>1, <1>6, <2>1, <2>2, FollowedFrame DEF DirectStaged
  <1>7. CASE UNCHANGED <<taskVars, d>> /\ [Next]_vars
    <2>1. UNCHANGED <<pc, kind, w, d>>
      BY <1>7 DEF taskVars
    <2> QED BY <1>1, <1>7, <2>1, FollowedFrame DEF DirectStaged
  <1> QED
    BY <1>3, <1>4, <1>5, <1>6, <1>7, Movers, OwnFollowed
    DEF Next, OdooPosts, OdooReverses, OdooEdits, directVars, vars, taskVars

(* A request that answers that it met no error has staged every line of    *)
(* its page and every invoice of these, whatever ran beside it.            *)
THEOREM RequestsAreComplete == DirectSpec => []BatchStaged
  <1>1. DirectInit => RowsInv /\ DirectStaged
    <2> SUFFICES ASSUME DirectInit PROVE RowsInv /\ DirectStaged
      OBVIOUS
    <2>1. RowsInv
      BY DEF DirectInit, Init, RowsInv, IdsUnique, ActiveOverlap, Active, DuplicatesNeedOverlap, SaveReady,
             Kinds
    <2>2. ASSUME NEW s \in Direct PROVE Followed(s)
      <3>1. pc[s] = "idle" /\ d[s] = NoBatch
        BY DirectAssumption DEF DirectInit, Init
      <3> QED BY <3>1 DEF Followed, NoBatch
    <2> QED BY <2>1, <2>2 DEF DirectStaged
  <1>2. DirectTypeInv /\ DirectStaged => BatchStaged
    <2> SUFFICES ASSUME DirectTypeInv, DirectStaged, NEW s \in Direct, pc[s] = "done", d[s].errors = 0
                 PROVE  /\ d[s].lines \subseteq StagedKeys("lines", DirectHolding)
                        /\ d[s].invs \subseteq StagedKeys("invoices", DirectHolding)
      BY DEF BatchStaged
    <2>1. Followed(s)
      BY DEF DirectStaged
    <2>2. CASE kind[s] = "partners"
      <3>1. Errors(s) = 0
        BY <2>2 DEF Errors
      <3>2. /\ \A i \in d[s].invs : i \in KeysIn(stg["invoices"], DirectHolding)
            /\ \A l \in d[s].lines : l \in KeysIn(stg["lines"], DirectHolding)
        BY <2>1, <2>2, <3>1 DEF Followed, InvoiceFollowed, LineFollowed
      <3> QED BY <3>2 DEF KeysIn, StagedKeys
    <2>3. CASE kind[s] # "partners"
      <3>1. d[s].lines = {} /\ d[s].invs = {}
        BY <2>1, <2>3 DEF Followed, Errors
      <3> QED BY <3>1
    <2> QED BY <2>2, <2>3
  <1> QED
    BY <1>1, <1>2, DirectTypeInit, DirectTypeStep, DirectRowsStep, DirectStagedStep, PTL
    DEF DirectSpec
=============================================================================
