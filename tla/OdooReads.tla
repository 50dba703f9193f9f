------------------------------ MODULE OdooReads ------------------------------
(***************************************************************************)
(* The requests that only read Odoo: getCompanies, getProducts and         *)
(* countRecords.  Each asks Odoo several times, and Odoo changes meanwhile:*)
(* what one call found may be gone when the next reads it.  All answers    *)
(* come through the codec, for which an empty list is no list.  Requests of*)
(* this kind do not influence each other: there is one.                    *)
(***************************************************************************)
EXTENDS JsValues, FiniteSets

CONSTANTS
  Products, Companies,   \* ids of records, all different
  Taxes,                 \* ids of taxes
  SaleTaxes, PurchaseTaxes, \* of each of these, the ids of its taxes
  Invoices,              \* ids of invoices in the range of dates
  Lines, InvoiceOf,      \* product lines and the invoice of each
  PartnerOf, CommercialOf, NameOf, \* the two partners and the name of each
  ProductLimit,          \* 100
  Samples,               \* values a call may answer
  MaxOdoo, MaxOutages,   \* bounds on changes and failing calls
  Received(_)            \* what the codec makes of an answer

(* A company has at most one tax of each sort.                             *)
ASSUME ReadsAssumption ==
  /\ Products \cup Companies \cup Taxes \cup Invoices \subseteq Nat \ {0}
  /\ Products \cap Companies = {}
  /\ \A S \in {Products, Companies, Taxes, Invoices, Lines} : IsFiniteSet(S)
  /\ SaleTaxes \in [Products \cup Companies -> SUBSET Taxes]
  /\ PurchaseTaxes \in [Products \cup Companies -> SUBSET Taxes]
  /\ \A c \in Companies : \A S \in {SaleTaxes[c], PurchaseTaxes[c]} : \A t, u \in S : t = u
  /\ InvoiceOf \in [Lines -> Invoices]
  /\ PartnerOf \in [Invoices -> Nat] /\ CommercialOf \in [Invoices -> Nat]
  /\ ProductLimit \in Nat \ {0} /\ MaxOdoo \in Nat /\ MaxOutages \in Nat

VARIABLES
  posted,   \* Odoo: the invoices posted and not reversed
  shelf,    \* Odoo: per product, whether it is active, archived or gone
  taxes,    \* Odoo: the taxes that exist
  request,  \* the request: what it is, where it is and its local variables
  before,   \* history: what was posted when the request began
  events,   \* history: what happened in Odoo since
  stayed,   \* history: products active ever since
  outages   \* failing calls so far

readVars == <<posted, shelf, taxes, request, before, events, stayed, outages>>

ReadKinds == {"companies", "products", "count", "call"}

NewRead(kind) ==
  [kind |-> kind, at |-> "ready", ids |-> Nil, rows |-> {}, details |-> {}, sapira |-> "none",
   lines |-> 0, invoices |-> 0, partners |-> 0, bare |-> 0, names |-> <<>>, sent |-> Nil, got |-> Nil]
-----------------------------------------------------------------------------
(* What Odoo answers: lists of ids, and tables of rows with a field each.  *)
Ints(S) == LET ids == SetToSeq(S) IN Array([n \in DOMAIN ids |-> Number(ids[n])])

Table(ids, row) == LET seq == SetToSeq(ids) IN Array([n \in DOMAIN seq |-> row[seq[n]]])

(* A field many2one is the id with a name, or false.                       *)
ManyToOne(S) == IF S = {} THEN Bool(FALSE) ELSE Array(<<Number(CHOOSE t \in S : TRUE), Text("a tax")>>)

ProductRow(p, active, existing) ==
  Object([id |-> Number(p), active |-> active,
          sale |-> Ints(SaleTaxes[p] \cap existing), purchase |-> Ints(PurchaseTaxes[p] \cap existing)])

CompanyRow(c, existing) ==
  Object([id |-> Number(c), sale |-> ManyToOne(SaleTaxes[c] \cap existing),
          purchase |-> ManyToOne(PurchaseTaxes[c] \cap existing)])

PartnerRow == [i \in Invoices |-> Object([id |-> Number(i), partner |-> Array(<<Number(PartnerOf[i]), Text("a partner")>>)])]

NameRow == [i \in Invoices |-> Object([id |-> Number(i), name |-> Text(NameOf[i])])]

ProductRows == {[p \in Products |-> ProductRow(p, Bool(p \in A), T)] : A \in SUBSET Products, T \in SUBSET Taxes}

CompanyRows == {[c \in Companies |-> CompanyRow(c, T)] : T \in SUBSET Taxes}

ListsSent ==
  {Ints(S) : S \in UNION {SUBSET Products, SUBSET Companies, SUBSET Invoices, SUBSET Taxes}}
  \cup {Table(S, row) : S \in SUBSET Products, row \in ProductRows}
  \cup {Table(S, row) : S \in SUBSET Companies, row \in CompanyRows}
  \cup {Table(S, row) : S \in SUBSET Invoices, row \in {PartnerRow, NameRow}}

(* All of this with its parts.                                             *)
Elements == UNION {ToSet(v.items) : v \in ListsSent}

Fields == UNION {{v.fields[f] : f \in DOMAIN v.fields} : v \in {w \in Elements : w.is = "object"}}

Answers == ListsSent \cup Elements \cup Fields \cup UNION {ToSet(v.items) : v \in {w \in Fields : IsList(w)}}

(* Of the codec: numbers and truth values stay, texts are typed, an empty  *)
(* list is an object, other lists and objects are read part by part.       *)
ASSUME CodecAssumption ==
  \A v \in Answers :
    CASE v.is = "text"   -> Received(v) = Typed(v)
      [] v.is = "array"  -> IF v.items = <<>> THEN Received(v).is = "object"
                            ELSE Received(v) = Array([n \in DOMAIN v.items |-> Received(v.items[n])])
      [] v.is = "object" -> Received(v) = Object([f \in DOMAIN v.fields |-> Received(v.fields[f])])
      [] OTHER           -> Received(v) = v
-----------------------------------------------------------------------------
Active == {p \in Products : shelf[p] = "active"}

ReadsInit ==
  /\ posted \in SUBSET Invoices
  /\ shelf \in [Products -> {"active", "archived"}]
  /\ taxes = Taxes
  /\ \E kind \in ReadKinds : request = NewRead(kind)
  /\ before = posted /\ events = <<>> /\ outages = 0
  /\ stayed = Active

Is(kind, at) == request.kind = kind /\ request.at = at

GoOn(r) == request' = r

OdooRests == UNCHANGED <<posted, shelf, taxes, before, events, stayed>>

Quiet == OdooRests /\ UNCHANGED outages

Outage == outages < MaxOutages /\ outages' = outages + 1

(* A call that fails, which only the queries of taxes and of Sapira's own  *)
(* tables survive.                                                         *)
CallFails ==
  /\ request.at \notin {"ready", "done", "failed", "taxes", "sapira"}
  /\ Outage /\ GoOn([request EXCEPT !.at = "failed"])
  /\ OdooRests

FirstOf == [companies |-> "search", products |-> "search", count |-> "lines", call |-> "call"]

(* The connection and its authentication. *)
Authenticate ==
  /\ request.at = "ready"
  /\ \E at \in {FirstOf[request.kind], "failed"} : GoOn([request EXCEPT !.at = at])
  /\ Quiet

(* Any method, with any answer. *)
MethodCall ==
  /\ Is("call", "call")
  /\ \E v \in Samples : GoOn([request EXCEPT !.at = "done", !.sent = v, !.got = Received(v)])
  /\ Quiet
-----------------------------------------------------------------------------
IntsIn(items) == {v.n : v \in {w \in ToSet(items) : w.is = "int"}}

SearchCatalogue ==
  /\ request.at = "search"
  /\ \E S \in SUBSET (IF request.kind = "products" THEN Active ELSE Companies) :
       /\ IF request.kind = "products"
          THEN Cardinality(S) = IF Cardinality(Active) < ProductLimit THEN Cardinality(Active) ELSE ProductLimit
          ELSE S = Companies
       /\ GoOn([request EXCEPT !.at = "read", !.ids = Received(Ints(S))])
  /\ Quiet

There(ids) == {p \in ids : p \in Products => shelf[p] # "gone"}

Catalogue(ids) ==
  IF request.kind = "products" THEN Table(There(ids), [p \in Products |-> ProductRow(p, Bool(p \in Active), taxes)])
  ELSE Table(There(ids), [c \in Companies |-> CompanyRow(c, taxes)])

(* The only filter of products is made here.                               *)
Kept(rows) == {row \in ToSet(rows) : request.kind = "products" => row.fields["active"] = Bool(TRUE)}

(* read leaves out what is gone, or fails; it refuses what is no list.     *)
ReadCatalogue ==
  /\ request.at = "read"
  /\ LET rows == Received(Catalogue(IntsIn(ListOf(request.ids))))
     IN  IF IsList(request.ids) /\ IsList(rows)
         THEN \/ GoOn([request EXCEPT !.at = IF request.kind = "products" THEN "taxes" ELSE "sapira",
                                      !.rows = Kept(rows.items)])
              \/ /\ There(IntsIn(request.ids.items)) # IntsIn(request.ids.items)
                 /\ GoOn([request EXCEPT !.at = "failed"])
         ELSE GoOn([request EXCEPT !.at = "failed"])
  /\ Quiet

(* The ids in a field of taxes, which is a list of them for a product and  *)
(* many2one for a company.                                                 *)
TaxIds(field) ==
  IF ~IsList(field) THEN IntsIn(<<field>>)
  ELSE IF request.kind = "products" THEN IntsIn(field.items) ELSE IntsIn(<<field.items[1]>>)

MutTaxesOf(row) == TaxIds(row.fields["sale"])
TaxesOf(row) == TaxIds(row.fields["sale"]) \cup TaxIds(row.fields["purchase"])

AllTaxIds == UNION {TaxesOf(row) : row \in request.rows}

AfterTaxes(details) ==
  GoOn([request EXCEPT !.details = details,
                       !.at = IF request.kind = "products" THEN "sapira" ELSE "done"])

(* The details of all taxes in one call: if it fails, or returns none, the *)
(* answer goes without any.                                                *)
GetTaxDetails ==
  /\ request.at = "taxes"
  /\ \/ AfterTaxes(AllTaxIds \cap taxes) /\ UNCHANGED outages
     \/ ~(AllTaxIds \subseteq taxes) /\ AfterTaxes({}) /\ UNCHANGED outages
     \/ AllTaxIds # {} /\ Outage /\ AfterTaxes({})
  /\ OdooRests

(* The companies or products that Sapira has, or none if that fails.       *)
GetSapira(kind, next) ==
  /\ Is(kind, "sapira")
  /\ \/ GoOn([request EXCEPT !.at = next, !.sapira = "rows"]) /\ UNCHANGED outages
     \/ GoOn([request EXCEPT !.at = next]) /\ Outage
  /\ OdooRests

GetSapiraCompanies == GetSapira("companies", "taxes")

GetSapiraProducts == GetSapira("products", "done")
-----------------------------------------------------------------------------
LineCount(S) == Cardinality({l \in Lines : InvoiceOf[l] \in S})

Bare(S) == {i \in S : \A l \in Lines : InvoiceOf[l] # i}

CountLines ==
  /\ Is("count", "lines")
  /\ GoOn([request EXCEPT !.at = "invoices", !.lines = LineCount(posted)])
  /\ Quiet

CountInvoices ==
  /\ Is("count", "invoices")
  /\ GoOn([request EXCEPT !.at = IF posted = {} THEN "done" ELSE "ids", !.invoices = Cardinality(posted)])
  /\ Quiet

FindInvoices ==
  /\ Is("count", "ids")
  /\ LET ids == Received(Ints(posted))
     IN  GoOn([request EXCEPT !.at = IF IsList(ids) THEN "partners" ELSE "bare", !.ids = ids])
  /\ Quiet

MutUniquePartners(rows) == Len(rows)
UniquePartners(rows) == Cardinality({row.fields["partner"].items[1] : row \in ToSet(rows)})

CountPartners ==
  /\ Is("count", "partners")
  /\ LET rows == Received(Table(IntsIn(request.ids.items), PartnerRow))
     IN  GoOn([request EXCEPT !.at = "bare", !.partners = UniquePartners(rows.items)])
  /\ Quiet

CountBare ==
  /\ Is("count", "bare")
  /\ GoOn([request EXCEPT !.bare = Cardinality(Bare(posted)),
                          !.at = IF Bare(posted) = {} THEN "done" ELSE "find bare"])
  /\ Quiet

FindBare ==
  /\ Is("count", "find bare")
  /\ LET ids == Received(Ints(Bare(posted)))
     IN  GoOn([request EXCEPT !.at = IF IsList(ids) THEN "names" ELSE "done", !.ids = ids])
  /\ Quiet

(* A name that is empty is replaced.                                       *)
NameShown(name) == IF Truthy(name) THEN name ELSE Text("Sin nombre")

ReadNames ==
  /\ Is("count", "names")
  /\ LET rows == Received(Table(IntsIn(request.ids.items), NameRow))
     IN  GoOn([request EXCEPT !.at = "done", !.names = [n \in DOMAIN rows.items |-> NameShown(rows.items[n].fields["name"])]])
  /\ Quiet
-----------------------------------------------------------------------------
(* Odoo's users. *)
Happens(event) == Len(events) < MaxOdoo /\ events' = Append(events, event)

PostOrReverse ==
  /\ request.kind = "count"
  /\ \E i \in Invoices :
       \/ i \notin posted /\ posted' = posted \cup {i} /\ Happens("posted")
       \/ i \in posted /\ posted' = posted \ {i} /\ Happens("reversed")
  /\ UNCHANGED <<shelf, taxes, request, before, stayed, outages>>

ChangeProduct ==
  /\ request.kind = "products"
  /\ \E p \in Products, to \in {"active", "archived", "gone"} :
       /\ shelf[p] \notin {"gone", to} /\ shelf' = [shelf EXCEPT ![p] = to]
       /\ stayed' = stayed \ {p}
       /\ Happens(to)
  /\ UNCHANGED <<posted, taxes, request, before, outages>>

DeleteTax ==
  /\ request.kind \in {"products", "companies"}
  /\ \E t \in taxes : taxes' = taxes \ {t} /\ Happens("tax deleted")
  /\ UNCHANGED <<posted, shelf, request, before, stayed, outages>>

ReadsNext ==
  \/ Authenticate \/ MethodCall \/ CallFails
  \/ SearchCatalogue \/ ReadCatalogue \/ GetTaxDetails
  \/ GetSapiraCompanies \/ GetSapiraProducts
  \/ CountLines \/ CountInvoices \/ FindInvoices \/ CountPartners
  \/ CountBare \/ FindBare \/ ReadNames
  \/ PostOrReverse \/ ChangeProduct \/ DeleteTax

ReadsSpec == ReadsInit /\ [][ReadsNext]_readVars
-----------------------------------------------------------------------------
Happened == ToSet(events)

Between(n, low, high) == low <= n /\ n <= high

(* A count tells what is in Odoo, if nothing changed; and if invoices were *)
(* only posted, each number lies between what was right when it began and  *)
(* when it ended, and there is a name for each invoice counted as bare.    *)
(* The partners counted are among those the synchronisation would copy.    *)
CountsAgree ==
  request.kind = "count" /\ request.at = "done" /\ "reversed" \notin Happened =>
    LET Partners(S) == {PartnerOf[i] : i \in S}
    IN  /\ Between(request.lines, LineCount(before), LineCount(posted))
        /\ Between(request.invoices, Cardinality(before), Cardinality(posted))
        /\ Between(request.partners, IF request.invoices = 0 THEN 0 ELSE Cardinality(Partners(before)),
                   Cardinality(Partners(posted) \cup {CommercialOf[i] : i \in posted}))
        /\ Between(Len(request.names), request.bare, Cardinality(Bare(posted)))
        /\ \A n \in DOMAIN request.names : \E i \in Bare(posted) : request.names[n] = NameShown(Typed(Text(NameOf[i])))

Listed == {row.fields["id"].n : row \in request.rows}

DetailsOf(r) == (SaleTaxes[r] \cup PurchaseTaxes[r]) \cap request.details

(* A list of products has all that stayed active, as far as its limit goes,*)
(* and each listed product or company has the details of all its taxes,    *)
(* sale and purchase, that exist: unless a tax was deleted or a call failed*)
(* meanwhile, when either all have them or none has any.                   *)
ListsComplete ==
  request.kind \in {"products", "companies"} /\ request.at = "done" =>
    /\ request.kind = "companies" => Listed = Companies
    /\ request.kind = "products" => stayed \subseteq Listed \/ Len(request.ids.items) = ProductLimit
    /\ \/ \A r \in Listed : (SaleTaxes[r] \cup PurchaseTaxes[r]) \cap taxes \subseteq DetailsOf(r)
       \/ request.details = {} /\ (outages > 0 \/ "tax deleted" \in Happened)
=============================================================================
