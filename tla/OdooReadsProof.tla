--------------------------- MODULE OdooReadsProof ---------------------------
(***************************************************************************)
(* What OdooReads promises of counts, companies and products, for any      *)
(* records, any number of changes in Odoo and of failing calls, and any    *)
(* codec that reads the answers as CodecAssumption says.                   *)
(***************************************************************************)
EXTENDS OdooReads, FiniteSetTheorems, TLAPS

Slots == {"kind", "at", "ids", "rows", "details", "sapira", "lines", "invoices", "partners", "bare",
          "names", "sent", "got"}

CatalogueSteps == {"search", "read", "taxes", "sapira"}

CountSteps == {"lines", "invoices", "ids", "partners", "bare", "find bare", "names"}

StepsOf(kind) ==
  {"ready", "failed", "done"} \cup
    (IF kind = "count" THEN CountSteps ELSE IF kind = "call" THEN {"call"} ELSE CatalogueSteps)

EventsSeen == {"posted", "reversed", "active", "archived", "gone", "tax deleted"}

ReadsType ==
  /\ posted \subseteq Invoices /\ before \subseteq Invoices
  /\ shelf \in [Products -> {"active", "archived", "gone"}]
  /\ taxes \subseteq Taxes
  /\ stayed \subseteq Active
  /\ events \in Seq(EventsSeen)
  /\ outages \in Nat
  /\ DOMAIN request = Slots
  /\ request.kind \in ReadKinds /\ request.at \in StepsOf(request.kind)

PartnersOf(S) == {PartnerOf[i] : i \in S}

MayCopy(S) == PartnersOf(S) \cup {CommercialOf[i] : i \in S}

ShownName(i) == NameShown(Typed(Text(NameOf[i])))

(* What a count has so far, if no invoice was reversed.                    *)
LinesRight == request.lines \in Nat /\ Between(request.lines, LineCount(before), LineCount(posted))

InvoicesRight ==
  request.invoices \in Nat /\ Between(request.invoices, Cardinality(before), Cardinality(posted))

IdsRight ==
  \E S \in SUBSET posted :
    /\ S # {} /\ before \subseteq S
    /\ request.ids = Ints(S)

PartnersRight ==
  /\ request.partners \in Nat
  /\ Between(request.partners, IF request.invoices = 0 THEN 0 ELSE Cardinality(PartnersOf(before)),
             Cardinality(MayCopy(posted)))

BareRight == request.bare \in Nat \ {0} /\ request.bare <= Cardinality(Bare(posted))

BareIdsRight ==
  \E S \in SUBSET Bare(posted) :
    /\ S # {} /\ request.bare <= Cardinality(S)
    /\ request.ids = Ints(S)

NamesRight ==
  /\ Len(request.names) \in Nat
  /\ Between(Len(request.names), request.bare, Cardinality(Bare(posted)))
  /\ \A n \in DOMAIN request.names : \E i \in Bare(posted) : request.names[n] = ShownName(i)

CountSoFar ==
  /\ before \subseteq posted
  /\ request.at \notin {"ready", "failed", "lines"} => LinesRight
  /\ request.at \notin {"ready", "failed", "lines", "invoices"} => InvoicesRight
  /\ request.at \in {"ids", "partners", "bare", "find bare", "names"} => posted # {}
  /\ request.at \in {"ready", "lines", "invoices", "ids", "partners"} => request.partners = 0
  /\ request.at = "partners" => IdsRight
  /\ request.at \in {"bare", "find bare", "names", "done"} => PartnersRight
  /\ request.at \notin {"find bare", "names", "done", "failed"} => request.bare = 0
  /\ request.at \in {"find bare", "names"} => BareRight
  /\ request.at = "names" => BareIdsRight
  /\ request.at \notin {"done", "failed"} => request.names = <<>>
  /\ request.at = "done" => NamesRight

CountInv == request.kind = "count" /\ "reversed" \notin Happened => CountSoFar

(* The ids a search found: they are a list unless there are none.          *)
FoundIn(S) ==
  /\ IF request.kind = "products" THEN S \subseteq Products ELSE S = Companies
  /\ request.kind = "products" => stayed \subseteq S \/ Cardinality(S) = ProductLimit
  /\ request.ids = Received(Ints(S))

(* The rows of a catalogue that was read, and their taxes.                 *)
RowsRight ==
  /\ request.kind = "companies" => Listed = Companies
  /\ request.kind = "products" => stayed \subseteq Listed \/ Len(request.ids.items) = ProductLimit
  /\ AllTaxIds \subseteq Taxes
  /\ \A r \in Listed : (SaleTaxes[r] \cup PurchaseTaxes[r]) \cap taxes \subseteq AllTaxIds

DetailsRight ==
  \/ \A r \in Listed : (SaleTaxes[r] \cup PurchaseTaxes[r]) \cap taxes \subseteq DetailsOf(r)
  \/ request.details = {} /\ (outages > 0 \/ "tax deleted" \in Happened)

CatalogueInv ==
  request.kind \in {"companies", "products"} =>
    /\ taxes = Taxes \/ "tax deleted" \in Happened
    /\ request.at = "read" => \E S \in SUBSET (Products \cup Companies) : FoundIn(S)
    /\ request.at \in {"taxes", "sapira", "done"} => RowsRight
    /\ request.at = "done" \/ Is("products", "sapira") => DetailsRight

ReadsInv == ReadsType /\ CountInv /\ CatalogueInv
-----------------------------------------------------------------------------
(* LISTS AND TABLES *)

(* A finite set as a sequence: each of its members once.                   *)
LEMMA SequenceOf ==
  ASSUME NEW S, IsFiniteSet(S)
  PROVE  /\ Cardinality(S) \in Nat
         /\ SetToSeq(S) \in [1 .. Cardinality(S) -> S]
         /\ \A x \in S : \E n \in 1 .. Cardinality(S) : SetToSeq(S)[n] = x
         /\ S # {} <=> 1 .. Cardinality(S) # {}
<1> DEFINE D == 1 .. Cardinality(S)
<1>1. Cardinality(S) \in Nat /\ ExistsBijection(D, S)
  BY FS_CardinalityType
<1>2. \E f \in [D -> S] : IsInjective(f)
  BY <1>1 DEF ExistsBijection, Bijection, Injection
<1>3. SetToSeq(S) \in [D -> S] /\ IsInjective(SetToSeq(S))
  BY <1>2 DEF SetToSeq
<1>4. SetToSeq(S) \in Injection(D, S)
  BY <1>3 DEF Injection
<1>5. Cardinality(D) = Cardinality(S)
  <2>1. Cardinality(D) = IF 1 > Cardinality(S) THEN 0 ELSE Cardinality(S) - 1 + 1
    BY <1>1, FS_Interval
  <2> QED BY <2>1, <1>1
<1>6. SetToSeq(S) \in Surjection(D, S)
  BY <1>4, <1>5, FS_Injection
<1>7. \A x \in S : \E n \in D : SetToSeq(S)[n] = x
  BY <1>6 DEF Surjection
<1>8. S # {} <=> D # {}
  <2>1. Cardinality(S) = 0 <=> S = {}
    BY FS_EmptySet
  <2> QED BY <2>1, <1>1
<1> QED BY <1>1, <1>3, <1>7, <1>8

LEMMA ListOfInts ==
  ASSUME NEW S, IsFiniteSet(S)
  PROVE  /\ Ints(S).is = "array"
         /\ DOMAIN Ints(S).items = 1 .. Cardinality(S)
         /\ Len(Ints(S).items) = Cardinality(S)
         /\ \A n \in 1 .. Cardinality(S) : \E i \in S : Ints(S).items[n] = Number(i)
         /\ \A i \in S : \E n \in 1 .. Cardinality(S) : Ints(S).items[n] = Number(i)
         /\ ToSet(Ints(S).items) = {Number(i) : i \in S}
         /\ IntsIn(Ints(S).items) = S
         /\ S # {} <=> Ints(S).items # <<>>
<1> DEFINE q == SetToSeq(S)
           D == 1 .. Cardinality(S)
           items == [n \in DOMAIN q |-> Number(q[n])]
<1>1. /\ Cardinality(S) \in Nat
      /\ q \in [D -> S]
      /\ \A x \in S : \E n \in D : q[n] = x
      /\ S # {} <=> D # {}
  BY SequenceOf
<1>2. Ints(S) = Array(items)
  BY DEF Ints
<1>3. DOMAIN items = D /\ \A n \in D : items[n] = Number(q[n]) /\ q[n] \in S
  BY <1>1
<1> HIDE DEF q, items
<1>4. Ints(S).is = "array" /\ Ints(S).items = items
  BY <1>2 DEF Array
<1>5. Len(items) = Cardinality(S)
  <2>1. items \in Seq({Number(i) : i \in S})
    <3>1. items = [n \in 1 .. Cardinality(S) |-> items[n]]
      BY <1>3 DEF items
    <3> QED BY <3>1, <1>1, <1>3
  <2> QED BY <2>1, <1>1, <1>3
<1>6. ToSet(items) = {Number(i) : i \in S}
  BY <1>1, <1>3 DEF ToSet
<1>7. IntsIn(items) = S
  <2>1. \A i : Number(i).is = "int" /\ Number(i).n = i
    BY DEF Number
  <2>2. {w \in ToSet(items) : w.is = "int"} = {Number(i) : i \in S}
    BY <1>6, <2>1
  <2>3. {v.n : v \in {Number(i) : i \in S}} = S
    BY <2>1
  <2> QED BY <2>2, <2>3 DEF IntsIn
<1>8. S # {} <=> items # <<>>
  BY <1>1, <1>3
<1> QED BY <1>1, <1>3, <1>4, <1>5, <1>6, <1>7, <1>8

LEMMA TableOf ==
  ASSUME NEW S, IsFiniteSet(S), NEW row
  PROVE  /\ Table(S, row).is = "array"
         /\ DOMAIN Table(S, row).items = 1 .. Cardinality(S)
         /\ \A n \in 1 .. Cardinality(S) : \E i \in S : Table(S, row).items[n] = row[i]
         /\ \A i \in S : \E n \in 1 .. Cardinality(S) : Table(S, row).items[n] = row[i]
         /\ S # {} <=> Table(S, row).items # <<>>
<1> DEFINE q == SetToSeq(S)
           D == 1 .. Cardinality(S)
           items == [n \in DOMAIN q |-> row[q[n]]]
<1>1. /\ Cardinality(S) \in Nat
      /\ q \in [D -> S]
      /\ \A x \in S : \E n \in D : q[n] = x
      /\ S # {} <=> D # {}
  BY SequenceOf
<1>2. Table(S, row) = Array(items)
  BY DEF Table
<1>3. DOMAIN items = D /\ \A n \in D : items[n] = row[q[n]] /\ q[n] \in S
  BY <1>1
<1> HIDE DEF q, items
<1>4. Table(S, row).is = "array" /\ Table(S, row).items = items
  BY <1>2 DEF Array
<1>5. S # {} <=> items # <<>>
  BY <1>1, <1>3
<1> QED BY <1>1, <1>3, <1>4, <1>5
-----------------------------------------------------------------------------
(* THE CODEC *)

(* Sets of ids are finite, and their lists are among what Odoo answers.    *)
IdSets == UNION {SUBSET Products, SUBSET Companies, SUBSET Invoices, SUBSET Taxes}

LEMMA IdsFinite ==
  ASSUME NEW S \in IdSets
  PROVE  IsFiniteSet(S) /\ Ints(S) \in ListsSent
<1>1. PICK T \in {Products, Companies, Invoices, Taxes} : S \in SUBSET T
  BY DEF IdSets
<1>2. IsFiniteSet(T)
  BY ReadsAssumption
<1>3. IsFiniteSet(S)
  BY <1>1, <1>2, FS_Subset
<1>4. Ints(S) \in ListsSent
  BY DEF ListsSent, IdSets
<1> QED BY <1>3, <1>4

(* What the assumption says of each kind of answer.                        *)
LEMMA CodecAtom ==
  ASSUME NEW v \in Answers, v.is \in {"int", "bool"}
  PROVE  Received(v) = v
BY CodecAssumption

LEMMA CodecText ==
  ASSUME NEW v \in Answers, v.is = "text"
  PROVE  Received(v) = Typed(v)
BY CodecAssumption

LEMMA CodecList ==
  ASSUME NEW v \in Answers, v.is = "array"
  PROVE  /\ v.items = <<>> => Received(v).is = "object"
         /\ v.items # <<>> => Received(v) = Array([n \in DOMAIN v.items |-> Received(v.items[n])])
<1>1. IF v.items = <<>> THEN Received(v).is = "object"
      ELSE Received(v) = Array([n \in DOMAIN v.items |-> Received(v.items[n])])
  BY CodecAssumption
<1> QED BY <1>1

LEMMA CodecObject ==
  ASSUME NEW v \in Answers, v.is = "object"
  PROVE  Received(v) = Object([f \in DOMAIN v.fields |-> Received(v.fields[f])])
BY CodecAssumption

(* Of a list, and of its elements and what they hold.                      *)
LEMMA PartsAnswered ==
  /\ \A v \in ListsSent : v \in Answers /\ \A n \in DOMAIN v.items : v.items[n] \in Elements /\ v.items[n] \in Answers
  /\ \A v \in Elements : v.is = "object" =>
       \A f \in DOMAIN v.fields : v.fields[f] \in Fields /\ v.fields[f] \in Answers
  /\ \A v \in Fields : v.is = "array" => \A n \in DOMAIN v.items : v.items[n] \in Answers
<1>1. \A v \in ListsSent : v \in Answers /\ \A n \in DOMAIN v.items : v.items[n] \in Elements /\ v.items[n] \in Answers
  BY DEF Answers, Elements, ToSet
<1>2. \A v \in Elements : v.is = "object" =>
        \A f \in DOMAIN v.fields : v.fields[f] \in Fields /\ v.fields[f] \in Answers
  BY DEF Answers, Fields
<1>3. \A v \in Fields : v.is = "array" => \A n \in DOMAIN v.items : v.items[n] \in Answers
  <2> SUFFICES ASSUME NEW v \in Fields, v.is = "array", NEW n \in DOMAIN v.items
               PROVE  v.items[n] \in Answers
    OBVIOUS
  <2>1. v \in {w \in Fields : IsList(w)}
    BY DEF IsList
  <2>2. v.items[n] \in ToSet(v.items)
    BY DEF ToSet
  <2> QED BY <2>1, <2>2 DEF Answers
<1> QED BY <1>1, <1>2, <1>3

(* A list of ids is read as it was sent, an empty one is an object.        *)
LEMMA IdsReceived ==
  ASSUME NEW S \in IdSets
  PROVE  /\ S = {} => Received(Ints(S)).is = "object"
         /\ S # {} => Received(Ints(S)) = Ints(S)
<1>1. /\ Ints(S).is = "array"
      /\ DOMAIN Ints(S).items = 1 .. Cardinality(S)
      /\ \A n \in 1 .. Cardinality(S) : \E i \in S : Ints(S).items[n] = Number(i)
      /\ S # {} <=> Ints(S).items # <<>>
  BY IdsFinite, ListOfInts
<1>2. Ints(S) \in ListsSent /\ Ints(S) \in Answers
  BY IdsFinite, PartsAnswered
<1>3. \A n \in DOMAIN Ints(S).items : Received(Ints(S).items[n]) = Ints(S).items[n]
  <2> SUFFICES ASSUME NEW n \in DOMAIN Ints(S).items
               PROVE  Received(Ints(S).items[n]) = Ints(S).items[n]
    OBVIOUS
  <2>1. Ints(S).items[n] \in Answers
    BY <1>2, PartsAnswered
  <2>2. PICK i \in S : Ints(S).items[n] = Number(i)
    BY <1>1
  <2>3. Number(i).is = "int"
    BY DEF Number
  <2> QED BY <2>1, <2>2, <2>3, CodecAtom
<1>4. ASSUME S # {} PROVE Received(Ints(S)) = Ints(S)
  <2>1. Received(Ints(S)) = Array([n \in DOMAIN Ints(S).items |-> Received(Ints(S).items[n])])
    BY <1>1, <1>2, <1>4, CodecList
  <2> DEFINE q == SetToSeq(S)
             items == [n \in DOMAIN q |-> Number(q[n])]
  <2>2. Ints(S) = Array(items)
    BY DEF Ints
  <2>3. items = [n \in DOMAIN items |-> items[n]]
    OBVIOUS
  <2> HIDE DEF items
  <2>4. Ints(S).items = items
    BY <2>2 DEF Array
  <2>5. [n \in DOMAIN items |-> Received(items[n])] = items
    BY <1>3, <2>3, <2>4
  <2> QED BY <2>1, <2>2, <2>4, <2>5
<1>5. S = {} => Received(Ints(S)).is = "object"
  BY <1>1, <1>2, CodecList
<1> QED BY <1>4, <1>5

(* A table is read row by row.                                             *)
LEMMA TableReceived ==
  ASSUME NEW S \in IdSets, NEW row, Table(S, row) \in ListsSent
  PROVE  /\ S = {} => Received(Table(S, row)).is = "object"
         /\ S # {} =>
              /\ Received(Table(S, row)).is = "array"
              /\ DOMAIN Received(Table(S, row)).items = 1 .. Cardinality(S)
              /\ \A n \in 1 .. Cardinality(S) : \E i \in S : Received(Table(S, row)).items[n] = Received(row[i])
              /\ \A i \in S : \E n \in 1 .. Cardinality(S) : Received(Table(S, row)).items[n] = Received(row[i])
         /\ \A i \in S : row[i] \in Elements /\ row[i] \in Answers
<1> DEFINE v == Table(S, row)
<1>1. IsFiniteSet(S)
  BY IdsFinite
<1>2. /\ v.is = "array"
      /\ DOMAIN v.items = 1 .. Cardinality(S)
      /\ \A n \in 1 .. Cardinality(S) : \E i \in S : v.items[n] = row[i]
      /\ \A i \in S : \E n \in 1 .. Cardinality(S) : v.items[n] = row[i]
      /\ S # {} <=> v.items # <<>>
  BY <1>1, TableOf
<1>3. v \in ListsSent /\ v \in Answers /\ \A n \in DOMAIN v.items : v.items[n] \in Elements /\ v.items[n] \in Answers
  BY PartsAnswered
<1> HIDE DEF v
<1>4. /\ v.items = <<>> => Received(v).is = "object"
      /\ v.items # <<>> => Received(v) = Array([n \in DOMAIN v.items |-> Received(v.items[n])])
  BY <1>2, <1>3, CodecList
<1>5. S # {} => Received(v) = Array([n \in DOMAIN v.items |-> Received(v.items[n])])
  BY <1>2, <1>4
<1>6. \A i \in S : row[i] \in Elements /\ row[i] \in Answers
  BY <1>2, <1>3
<1>7. S = {} => Received(v).is = "object"
  BY <1>2, <1>4
<1>8. S # {} =>
        /\ Received(v).is = "array"
        /\ DOMAIN Received(v).items = 1 .. Cardinality(S)
        /\ \A n \in 1 .. Cardinality(S) : \E i \in S : Received(v).items[n] = Received(row[i])
        /\ \A i \in S : \E n \in 1 .. Cardinality(S) : Received(v).items[n] = Received(row[i])
  <2> SUFFICES ASSUME S # {}
               PROVE  /\ Received(v).is = "array"
                      /\ DOMAIN Received(v).items = 1 .. Cardinality(S)
                      /\ \A n \in 1 .. Cardinality(S) : \E i \in S : Received(v).items[n] = Received(row[i])
                      /\ \A i \in S : \E n \in 1 .. Cardinality(S) : Received(v).items[n] = Received(row[i])
    OBVIOUS
  <2>1. /\ Received(v).is = "array"
        /\ Received(v).items = [n \in DOMAIN v.items |-> Received(v.items[n])]
    BY <1>5 DEF Array
  <2>2. DOMAIN Received(v).items = 1 .. Cardinality(S)
    BY <2>1, <1>2
  <2>3. \A n \in 1 .. Cardinality(S) : Received(v).items[n] = Received(v.items[n])
    BY <2>1, <1>2
  <2> QED BY <2>1, <2>2, <2>3, <1>2
<1> QED BY <1>6, <1>7, <1>8 DEF v

(* The rows of products, companies and invoices.                           *)
LEMMA ProductReceived ==
  ASSUME NEW p, NEW a, NEW T, a.is = "bool", ProductRow(p, a, T) \in Elements
  PROVE  /\ Received(ProductRow(p, a, T)).fields["id"] = Number(p)
         /\ Received(ProductRow(p, a, T)).fields["active"] = a
<1> DEFINE sale == Ints(SaleTaxes[p] \cap T)
           purchase == Ints(PurchaseTaxes[p] \cap T)
           fields == [id |-> Number(p), active |-> a, sale |-> sale, purchase |-> purchase]
           v == ProductRow(p, a, T)
<1>1. v = Object(fields)
  BY DEF ProductRow
<1>2. /\ DOMAIN fields = {"id", "active", "sale", "purchase"}
      /\ fields["id"] = Number(p) /\ fields["active"] = a
      /\ fields["sale"] = sale /\ fields["purchase"] = purchase
  OBVIOUS
<1> HIDE DEF fields, sale, purchase, v
<1>3. v.is = "object" /\ v.fields = fields
  BY <1>1 DEF Object
<1>4. v \in Elements /\ v \in Answers
  BY DEF v, Answers
<1>5. Number(p) \in Answers /\ a \in Answers
  BY <1>2, <1>3, <1>4, PartsAnswered
<1>6. Received(Number(p)) = Number(p) /\ Received(a) = a
  <2>1. Number(p).is = "int"
    BY DEF Number
  <2> QED BY <1>5, <2>1, CodecAtom
<1>7. Received(v) = Object([f \in DOMAIN fields |-> Received(fields[f])])
  BY <1>3, <1>4, CodecObject
<1>8. Received(v).fields = [f \in DOMAIN fields |-> Received(fields[f])]
  BY <1>7 DEF Object
<1>9. /\ Received(v).fields["id"] = Number(p)
      /\ Received(v).fields["active"] = a
  BY <1>2, <1>6, <1>8
<1> QED BY <1>9 DEF v

LEMMA ProductTaxesReceived ==
  ASSUME NEW p, NEW a, NEW T, a.is = "bool", ProductRow(p, a, T) \in Elements
  PROVE  /\ Received(ProductRow(p, a, T)).fields["sale"] = Received(Ints(SaleTaxes[p] \cap T))
         /\ Received(ProductRow(p, a, T)).fields["purchase"] = Received(Ints(PurchaseTaxes[p] \cap T))
<1> DEFINE sale == Ints(SaleTaxes[p] \cap T)
           purchase == Ints(PurchaseTaxes[p] \cap T)
           fields == [id |-> Number(p), active |-> a, sale |-> sale, purchase |-> purchase]
           v == ProductRow(p, a, T)
<1>1. v = Object(fields)
  BY DEF ProductRow
<1>2. /\ DOMAIN fields = {"id", "active", "sale", "purchase"}
      /\ fields["id"] = Number(p) /\ fields["active"] = a
      /\ fields["sale"] = sale /\ fields["purchase"] = purchase
  OBVIOUS
<1> HIDE DEF fields, sale, purchase, v
<1>3. v.is = "object" /\ v.fields = fields
  BY <1>1 DEF Object
<1>4. v \in Elements /\ v \in Answers
  BY DEF v, Answers
<1>5. Received(v) = Object([f \in DOMAIN fields |-> Received(fields[f])])
  BY <1>3, <1>4, CodecObject
<1>6. Received(v).fields = [f \in DOMAIN fields |-> Received(fields[f])]
  BY <1>5 DEF Object
<1>7. /\ Received(v).fields["sale"] = Received(sale)
      /\ Received(v).fields["purchase"] = Received(purchase)
  BY <1>2, <1>6
<1> QED BY <1>7 DEF v, sale, purchase

LEMMA CompanyReceived ==
  ASSUME NEW c, NEW T, CompanyRow(c, T) \in Elements
  PROVE  /\ Received(CompanyRow(c, T)).fields["id"] = Number(c)
         /\ Received(CompanyRow(c, T)).fields["sale"] = Received(ManyToOne(SaleTaxes[c] \cap T))
         /\ Received(CompanyRow(c, T)).fields["purchase"] = Received(ManyToOne(PurchaseTaxes[c] \cap T))
         /\ ManyToOne(SaleTaxes[c] \cap T) \in Fields
         /\ ManyToOne(PurchaseTaxes[c] \cap T) \in Fields
<1> DEFINE sale == ManyToOne(SaleTaxes[c] \cap T)
           purchase == ManyToOne(PurchaseTaxes[c] \cap T)
           fields == [id |-> Number(c), sale |-> sale, purchase |-> purchase]
           v == CompanyRow(c, T)
<1>1. v = Object(fields)
  BY DEF CompanyRow
<1>2. /\ DOMAIN fields = {"id", "sale", "purchase"}
      /\ fields["id"] = Number(c)
      /\ fields["sale"] = sale /\ fields["purchase"] = purchase
  OBVIOUS
<1> HIDE DEF fields, sale, purchase, v
<1>3. v.is = "object" /\ v.fields = fields
  BY <1>1 DEF Object
<1>4. v \in Elements /\ v \in Answers
  BY DEF v, Answers
<1>5. Number(c) \in Answers /\ sale \in Fields /\ purchase \in Fields
  BY <1>2, <1>3, <1>4, PartsAnswered
<1>6. Received(Number(c)) = Number(c)
  <2>1. Number(c).is = "int"
    BY DEF Number
  <2> QED BY <1>5, <2>1, CodecAtom
<1>7. Received(v) = Object([f \in DOMAIN fields |-> Received(fields[f])])
  BY <1>3, <1>4, CodecObject
<1>8. Received(v).fields = [f \in DOMAIN fields |-> Received(fields[f])]
  BY <1>7 DEF Object
<1>9. /\ Received(v).fields["id"] = Number(c)
      /\ Received(v).fields["sale"] = Received(sale)
      /\ Received(v).fields["purchase"] = Received(purchase)
  BY <1>2, <1>6, <1>8
<1> QED BY <1>5, <1>9 DEF v, sale, purchase

(* A field many2one: the id of a tax is the first of two elements.         *)
LEMMA ManyToOneReceived ==
  ASSUME NEW S, ManyToOne(S) \in Fields
  PROVE  /\ S = {} => Received(ManyToOne(S)).is = "bool"
         /\ S # {} =>
              /\ Received(ManyToOne(S)).is = "array"
              /\ Received(ManyToOne(S)).items[1] = Number(CHOOSE t \in S : TRUE)
<1>1. ASSUME S = {} PROVE Received(ManyToOne(S)).is = "bool"
  <2>1. ManyToOne(S) = Bool(FALSE) /\ ManyToOne(S).is = "bool"
    BY <1>1 DEF ManyToOne, Bool
  <2>2. ManyToOne(S) \in Answers
    BY DEF Answers
  <2> QED BY <2>1, <2>2, CodecAtom
<1>2. ASSUME S # {}
      PROVE  /\ Received(ManyToOne(S)).is = "array"
             /\ Received(ManyToOne(S)).items[1] = Number(CHOOSE t \in S : TRUE)
  <2> DEFINE id == Number(CHOOSE t \in S : TRUE)
             items == <<id, Text("a tax")>>
             v == ManyToOne(S)
  <2>1. v = Array(items)
    BY <1>2 DEF ManyToOne
  <2>2. id.is = "int"
    BY DEF Number
  <2> HIDE DEF id
  <2>3. 1 \in DOMAIN items /\ items[1] = id /\ items # <<>>
    OBVIOUS
  <2> HIDE DEF items, v
  <2>4. v.is = "array" /\ v.items = items
    BY <2>1 DEF Array
  <2>5. v \in Fields /\ v \in Answers
    BY DEF v, Answers
  <2>6. id \in Answers
    BY <2>3, <2>4, <2>5, PartsAnswered
  <2>7. Received(id) = id
    BY <2>2, <2>6, CodecAtom
  <2>8. Received(v) = Array([n \in DOMAIN items |-> Received(items[n])])
    BY <2>3, <2>4, <2>5, CodecList
  <2>9. Received(v).is = "array" /\ Received(v).items = [n \in DOMAIN items |-> Received(items[n])]
    BY <2>8 DEF Array
  <2> QED BY <2>3, <2>7, <2>9 DEF v, id
<1> QED BY <1>1, <1>2

LEMMA PartnerReceived ==
  ASSUME NEW i \in Invoices, PartnerRow[i] \in Elements
  PROVE  Received(PartnerRow[i]).fields["partner"].items[1] = Number(PartnerOf[i])
<1> DEFINE id == Number(PartnerOf[i])
           items == <<id, Text("a partner")>>
           partner == Array(items)
           fields == [id |-> Number(i), partner |-> partner]
           v == PartnerRow[i]
<1>1. v = Object(fields)
  BY DEF PartnerRow
<1>2. id.is = "int"
  BY DEF Number
<1> HIDE DEF id
<1>3. 1 \in DOMAIN items /\ items[1] = id /\ items # <<>>
  OBVIOUS
<1> HIDE DEF items
<1>4. partner.is = "array" /\ partner.items = items
  BY DEF Array
<1> HIDE DEF partner
<1>5. DOMAIN fields = {"id", "partner"} /\ fields["partner"] = partner
  OBVIOUS
<1> HIDE DEF fields, v
<1>6. v.is = "object" /\ v.fields = fields
  BY <1>1 DEF Object
<1>7. v \in Elements /\ v \in Answers
  BY DEF v, Answers
<1>8. partner \in Fields /\ partner \in Answers
  BY <1>5, <1>6, <1>7, PartsAnswered
<1>9. id \in Answers
  BY <1>3, <1>4, <1>8, PartsAnswered
<1>10. Received(id) = id
  BY <1>2, <1>9, CodecAtom
<1>11. Received(partner) = Array([n \in DOMAIN items |-> Received(items[n])])
  BY <1>3, <1>4, <1>8, CodecList
<1>12. Received(partner).items = [n \in DOMAIN items |-> Received(items[n])]
  BY <1>11 DEF Array
<1>13. Received(partner).items[1] = id
  BY <1>3, <1>10, <1>12
<1>14. Received(v) = Object([f \in DOMAIN fields |-> Received(fields[f])])
  BY <1>6, <1>7, CodecObject
<1>15. Received(v).fields = [f \in DOMAIN fields |-> Received(fields[f])]
  BY <1>14 DEF Object
<1>16. Received(v).fields["partner"] = Received(partner)
  BY <1>5, <1>15
<1> QED BY <1>13, <1>16 DEF v, id

LEMMA NameReceived ==
  ASSUME NEW i \in Invoices, NameRow[i] \in Elements
  PROVE  Received(NameRow[i]).fields["name"] = Typed(Text(NameOf[i]))
<1> DEFINE name == Text(NameOf[i])
           fields == [id |-> Number(i), name |-> name]
           v == NameRow[i]
<1>1. v = Object(fields)
  BY DEF NameRow
<1>2. name.is = "text"
  BY DEF Text
<1> HIDE DEF name
<1>3. DOMAIN fields = {"id", "name"} /\ fields["name"] = name
  OBVIOUS
<1> HIDE DEF fields, v
<1>4. v.is = "object" /\ v.fields = fields
  BY <1>1 DEF Object
<1>5. v \in Elements /\ v \in Answers
  BY DEF v, Answers
<1>6. name \in Answers
  BY <1>3, <1>4, <1>5, PartsAnswered
<1>7. Received(name) = Typed(name)
  BY <1>2, <1>6, CodecText
<1>8. Received(v) = Object([f \in DOMAIN fields |-> Received(fields[f])])
  BY <1>4, <1>5, CodecObject
<1>9. Received(v).fields = [f \in DOMAIN fields |-> Received(fields[f])]
  BY <1>8 DEF Object
<1> QED BY <1>3, <1>7, <1>9 DEF v, name
-----------------------------------------------------------------------------
(* COUNTS *)

(* The image of a finite set.                                              *)
LEMMA ImageFinite ==
  ASSUME NEW S, NEW T, NEW f \in Surjection(S, T), IsFiniteSet(S)
  PROVE  IsFiniteSet(T) /\ Cardinality(T) <= Cardinality(S)
BY FS_Surjection

LEMMA PartnersFinite ==
  ASSUME NEW S \in SUBSET Invoices
  PROVE  /\ IsFiniteSet(PartnersOf(S)) /\ IsFiniteSet(MayCopy(S))
         /\ PartnersOf(S) \subseteq MayCopy(S)
<1>1. IsFiniteSet(S)
  BY ReadsAssumption, FS_Subset
<1>2. IsFiniteSet(PartnersOf(S))
  <2> DEFINE f == [i \in S |-> PartnerOf[i]]
  <2>1. f \in Surjection(S, PartnersOf(S))
    BY DEF Surjection, PartnersOf
  <2> QED BY <1>1, <2>1, ImageFinite
<1> DEFINE C == {CommercialOf[i] : i \in S}
<1>3. IsFiniteSet(C)
  <2> DEFINE f == [i \in S |-> CommercialOf[i]]
  <2>1. f \in Surjection(S, C)
    BY DEF Surjection
  <2> HIDE DEF C, f
  <2> QED BY <1>1, <2>1, ImageFinite
<1>4. IsFiniteSet(PartnersOf(S) \cup C)
  <2> HIDE DEF C
  <2> QED BY <1>2, <1>3, FS_Union
<1> QED BY <1>2, <1>4 DEF MayCopy

(* Whatever is counted only grows with the invoices that are posted.       *)
LEMMA Growing ==
  ASSUME NEW T \in SUBSET Invoices, NEW S \in SUBSET T
  PROVE  /\ IsFiniteSet(S) /\ Cardinality(S) \in Nat /\ Cardinality(T) \in Nat
         /\ Cardinality(S) <= Cardinality(T)
         /\ LineCount(S) \in Nat /\ LineCount(T) \in Nat /\ LineCount(S) <= LineCount(T)
         /\ Bare(S) \subseteq Bare(T) /\ Bare(T) \subseteq T
         /\ Cardinality(Bare(S)) \in Nat /\ Cardinality(Bare(T)) \in Nat
         /\ Cardinality(Bare(S)) <= Cardinality(Bare(T))
         /\ Cardinality(PartnersOf(S)) \in Nat /\ Cardinality(MayCopy(S)) \in Nat
         /\ Cardinality(MayCopy(T)) \in Nat
         /\ Cardinality(PartnersOf(S)) <= Cardinality(PartnersOf(T))
         /\ Cardinality(PartnersOf(S)) <= Cardinality(MayCopy(T))
         /\ Cardinality(MayCopy(S)) <= Cardinality(MayCopy(T))
<1>1. IsFiniteSet(T)
  BY ReadsAssumption, FS_Subset
<1>2. IsFiniteSet(S) /\ Cardinality(S) \in Nat /\ Cardinality(T) \in Nat /\ Cardinality(S) <= Cardinality(T)
  BY <1>1, FS_Subset, FS_CardinalityType
<1>3. LineCount(S) \in Nat /\ LineCount(T) \in Nat /\ LineCount(S) <= LineCount(T)
  <2> DEFINE LS == {l \in Lines : InvoiceOf[l] \in S}
             LT == {l \in Lines : InvoiceOf[l] \in T}
  <2>1. LS \in SUBSET LT /\ LT \in SUBSET Lines
    OBVIOUS
  <2>2. IsFiniteSet(Lines)
    BY ReadsAssumption
  <2> HIDE DEF LS, LT
  <2>3. IsFiniteSet(LT)
    BY <2>1, <2>2, FS_Subset
  <2>4. IsFiniteSet(LS) /\ Cardinality(LS) <= Cardinality(LT)
    BY <2>1, <2>3, FS_Subset
  <2>5. Cardinality(LS) \in Nat /\ Cardinality(LT) \in Nat
    BY <2>3, <2>4, FS_CardinalityType
  <2> QED BY <2>4, <2>5 DEF LineCount, LS, LT
<1>4. Bare(S) \subseteq Bare(T) /\ Bare(T) \subseteq T
  BY DEF Bare
<1>5. /\ Cardinality(Bare(S)) \in Nat /\ Cardinality(Bare(T)) \in Nat
      /\ Cardinality(Bare(S)) <= Cardinality(Bare(T))
  <2>1. IsFiniteSet(Bare(T))
    BY <1>1, <1>4, FS_Subset
  <2>2. IsFiniteSet(Bare(S)) /\ Cardinality(Bare(S)) <= Cardinality(Bare(T))
    BY <1>4, <2>1, FS_Subset
  <2> QED BY <2>1, <2>2, FS_CardinalityType
<1>6. PartnersOf(S) \subseteq PartnersOf(T) /\ MayCopy(S) \subseteq MayCopy(T)
  BY DEF PartnersOf, MayCopy
<1>7. /\ IsFiniteSet(PartnersOf(S)) /\ IsFiniteSet(MayCopy(S))
      /\ IsFiniteSet(PartnersOf(T)) /\ IsFiniteSet(MayCopy(T))
      /\ PartnersOf(S) \subseteq MayCopy(T)
  BY <1>6, PartnersFinite
<1>8. /\ Cardinality(PartnersOf(S)) <= Cardinality(PartnersOf(T))
      /\ Cardinality(PartnersOf(S)) <= Cardinality(MayCopy(T))
      /\ Cardinality(MayCopy(S)) <= Cardinality(MayCopy(T))
  BY <1>6, <1>7, FS_Subset
<1>9. /\ Cardinality(PartnersOf(S)) \in Nat /\ Cardinality(MayCopy(S)) \in Nat
      /\ Cardinality(MayCopy(T)) \in Nat
  BY <1>7, FS_CardinalityType
<1> QED BY <1>2, <1>3, <1>4, <1>5, <1>8, <1>9

LEMMA StillCounted ==
  ASSUME NEW T \in SUBSET Invoices, NEW S \in SUBSET T, NEW n \in Nat
  PROVE  /\ n <= Cardinality(Bare(S)) => n <= Cardinality(Bare(T))
         /\ n <= Cardinality(MayCopy(S)) => n <= Cardinality(MayCopy(T))
<1>1. ASSUME NEW a \in Nat, NEW b \in Nat, a <= b PROVE n <= a => n <= b
  BY <1>1
<1>2. n <= Cardinality(Bare(S)) => n <= Cardinality(Bare(T))
  <2>1. /\ Cardinality(Bare(S)) \in Nat /\ Cardinality(Bare(T)) \in Nat
        /\ Cardinality(Bare(S)) <= Cardinality(Bare(T))
    BY Growing
  <2> QED BY <1>1, <2>1
<1>3. n <= Cardinality(MayCopy(S)) => n <= Cardinality(MayCopy(T))
  <2>1. /\ Cardinality(MayCopy(S)) \in Nat /\ Cardinality(MayCopy(T)) \in Nat
        /\ Cardinality(MayCopy(S)) <= Cardinality(MayCopy(T))
    BY Growing
  <2> QED BY <1>1, <2>1
<1> QED BY <1>2, <1>3

(* The rows of a list of invoices have as many partners as the invoices.   *)
LEMMA PartnersCounted ==
  ASSUME NEW S \in SUBSET Invoices, S # {}
  PROVE  UniquePartners(Received(Table(S, PartnerRow)).items) = Cardinality(PartnersOf(S))
<1> DEFINE rows == Received(Table(S, PartnerRow)).items
           firsts == {row.fields["partner"].items[1] : row \in ToSet(rows)}
           numbers == {Number(p) : p \in PartnersOf(S)}
<1>1. S \in IdSets /\ Table(S, PartnerRow) \in ListsSent
  BY DEF IdSets, ListsSent
<1>2. /\ DOMAIN rows = 1 .. Cardinality(S)
      /\ \A n \in 1 .. Cardinality(S) : \E i \in S : rows[n] = Received(PartnerRow[i])
      /\ \A i \in S : \E n \in 1 .. Cardinality(S) : rows[n] = Received(PartnerRow[i])
      /\ \A i \in S : PartnerRow[i] \in Elements
  BY <1>1, TableReceived
<1> HIDE DEF rows
<1>3. ToSet(rows) = {Received(PartnerRow[i]) : i \in S}
  BY <1>2 DEF ToSet
<1>4. \A i \in S : Received(PartnerRow[i]).fields["partner"].items[1] = Number(PartnerOf[i])
  BY <1>2, PartnerReceived
<1>5. firsts = numbers
  <2>1. firsts = {Number(PartnerOf[i]) : i \in S}
    BY <1>3, <1>4
  <2> QED BY <2>1 DEF PartnersOf
<1>6. Cardinality(numbers) = Cardinality(PartnersOf(S))
  <2> DEFINE f == [p \in PartnersOf(S) |-> Number(p)]
  <2>1. \A p \in PartnersOf(S) : f[p].n = p
    BY DEF Number
  <2>2. f \in [PartnersOf(S) -> numbers] /\ \A v \in numbers : \E p \in PartnersOf(S) : f[p] = v
    OBVIOUS
  <2>3. \A p, q \in PartnersOf(S) : f[p] = f[q] => p = q
    BY <2>1
  <2> HIDE DEF f, numbers
  <2>4. f \in Bijection(PartnersOf(S), numbers)
    BY <2>2, <2>3 DEF Bijection, Injection, Surjection, IsInjective
  <2> QED BY <2>4, PartnersFinite, FS_Bijection DEF ExistsBijection
<1> QED BY <1>5, <1>6 DEF UniquePartners, rows

(* The names of a list of invoices are as many, each of one of them.       *)
LEMMA NamesListed ==
  ASSUME NEW S \in SUBSET Invoices, S # {}
  PROVE  LET rows == Received(Table(S, NameRow))
             names == [n \in DOMAIN rows.items |-> NameShown(rows.items[n].fields["name"])]
         IN  /\ Len(names) = Cardinality(S)
             /\ \A n \in DOMAIN names : \E i \in S : names[n] = ShownName(i)
<1> DEFINE rows == Received(Table(S, NameRow)).items
           names == [n \in DOMAIN rows |-> NameShown(rows[n].fields["name"])]
<1>1. S \in IdSets /\ Table(S, NameRow) \in ListsSent
  BY DEF IdSets, ListsSent
<1>2. /\ DOMAIN rows = 1 .. Cardinality(S)
      /\ \A n \in 1 .. Cardinality(S) : \E i \in S : rows[n] = Received(NameRow[i])
      /\ \A i \in S : NameRow[i] \in Elements
  BY <1>1, TableReceived
<1>3. Cardinality(S) \in Nat
  BY <1>1, IdsFinite, FS_CardinalityType
<1> HIDE DEF rows
<1>4. \A n \in DOMAIN names : \E i \in S : names[n] = ShownName(i)
  <2> SUFFICES ASSUME NEW n \in DOMAIN names PROVE \E i \in S : names[n] = ShownName(i)
    OBVIOUS
  <2>1. PICK i \in S : rows[n] = Received(NameRow[i])
    BY <1>2
  <2>2. rows[n].fields["name"] = Typed(Text(NameOf[i]))
    BY <1>2, <2>1, NameReceived
  <2> QED BY <2>2 DEF ShownName
<1>5. Len(names) = Cardinality(S)
  <2> DEFINE V == {names[n] : n \in DOMAIN names}
  <2>1. names = [n \in 1 .. Cardinality(S) |-> names[n]]
    BY <1>2
  <2>2. \A n \in 1 .. Cardinality(S) : names[n] \in V
    BY <1>2
  <2> HIDE DEF V
  <2>3. names \in Seq(V)
    BY <1>3, <2>1, <2>2
  <2> HIDE DEF names
  <2> QED BY <1>2, <1>3, <2>1, <2>3
<1> QED BY <1>4, <1>5 DEF rows
-----------------------------------------------------------------------------
(* CATALOGUES *)

LEMMA TaxesOfProduct ==
  ASSUME request.kind = "products", NEW p \in Products, NEW a, NEW T \in SUBSET Taxes, a.is = "bool",
         ProductRow(p, a, T) \in Elements
  PROVE  TaxesOf(Received(ProductRow(p, a, T))) = (SaleTaxes[p] \cup PurchaseTaxes[p]) \cap T
<1>1. ASSUME NEW S \in SUBSET Taxes PROVE TaxIds(Received(Ints(S))) = S
  <2>1. S \in IdSets
    BY DEF IdSets
  <2>2. /\ S = {} => Received(Ints(S)).is = "object"
        /\ S # {} => Received(Ints(S)) = Ints(S)
    BY <2>1, IdsReceived
  <2>3. Ints(S).is = "array" /\ IntsIn(Ints(S).items) = S
    BY <2>1, IdsFinite, ListOfInts
  <2>4. CASE S # {}
    <3>1. IsList(Received(Ints(S))) /\ Received(Ints(S)).items = Ints(S).items
      BY <2>2, <2>3, <2>4 DEF IsList
    <3> QED BY <2>3, <3>1 DEF TaxIds
  <2>5. CASE S = {}
    <3> DEFINE v == Received(Ints(S))
    <3>1. v.is = "object"
      BY <2>2, <2>5
    <3> HIDE DEF v
    <3>2. IntsIn(<<v>>) = {}
      <4>1. \A w \in ToSet(<<v>>) : w = v
        BY DEF ToSet
      <4> QED BY <3>1, <4>1 DEF IntsIn
    <3>3. TaxIds(v) = {}
      BY <3>1, <3>2 DEF TaxIds, IsList
    <3> QED BY <2>5, <3>3 DEF v
  <2> QED BY <2>4, <2>5
<1>2. SaleTaxes[p] \cap T \in SUBSET Taxes /\ PurchaseTaxes[p] \cap T \in SUBSET Taxes
  OBVIOUS
<1>3. TaxIds(Received(Ints(SaleTaxes[p] \cap T))) = SaleTaxes[p] \cap T
  BY <1>1, <1>2
<1>4. TaxIds(Received(Ints(PurchaseTaxes[p] \cap T))) = PurchaseTaxes[p] \cap T
  BY <1>1, <1>2
<1>5. /\ Received(ProductRow(p, a, T)).fields["sale"] = Received(Ints(SaleTaxes[p] \cap T))
      /\ Received(ProductRow(p, a, T)).fields["purchase"] = Received(Ints(PurchaseTaxes[p] \cap T))
  BY ProductTaxesReceived
<1>6. TaxesOf(Received(ProductRow(p, a, T))) = (SaleTaxes[p] \cap T) \cup (PurchaseTaxes[p] \cap T)
  BY <1>3, <1>4, <1>5 DEF TaxesOf
<1> QED BY <1>6

LEMMA TaxesOfCompany ==
  ASSUME request.kind = "companies", NEW c \in Companies, NEW T \in SUBSET Taxes,
         CompanyRow(c, T) \in Elements
  PROVE  TaxesOf(Received(CompanyRow(c, T))) = (SaleTaxes[c] \cup PurchaseTaxes[c]) \cap T
<1>1. ASSUME NEW S, ManyToOne(S) \in Fields, \A t, u \in S : t = u
      PROVE  TaxIds(Received(ManyToOne(S))) = S
  <2> DEFINE v == Received(ManyToOne(S))
  <2>1. /\ S = {} => v.is = "bool"
        /\ S # {} => v.is = "array" /\ v.items[1] = Number(CHOOSE t \in S : TRUE)
    BY <1>1, ManyToOneReceived
  <2> HIDE DEF v
  <2>2. \A w : IntsIn(<<w>>) = IF w.is = "int" THEN {w.n} ELSE {}
    <3> TAKE w
    <3>1. ToSet(<<w>>) = {w}
      BY DEF ToSet
    <3> QED BY <3>1 DEF IntsIn
  <2>3. CASE S = {}
    <3>1. TaxIds(v) = IntsIn(<<v>>)
      BY <2>1, <2>3 DEF TaxIds, IsList
    <3> QED BY <2>1, <2>2, <2>3, <3>1 DEF v
  <2>4. CASE S # {}
    <3>1. PICK t \in S : t = CHOOSE u \in S : TRUE
      BY <2>4
    <3>2. S = {t}
      BY <1>1, <3>1
    <3>3. TaxIds(v) = IntsIn(<<v.items[1]>>)
      BY <2>1, <2>4, <1>1 DEF TaxIds, IsList
    <3>4. v.items[1].is = "int" /\ v.items[1].n = t
      BY <2>1, <2>4, <3>1 DEF Number
    <3> QED BY <2>2, <3>2, <3>3, <3>4 DEF v
  <2> QED BY <2>3, <2>4
<1>2. /\ Received(CompanyRow(c, T)).fields["sale"] = Received(ManyToOne(SaleTaxes[c] \cap T))
      /\ Received(CompanyRow(c, T)).fields["purchase"] = Received(ManyToOne(PurchaseTaxes[c] \cap T))
      /\ ManyToOne(SaleTaxes[c] \cap T) \in Fields
      /\ ManyToOne(PurchaseTaxes[c] \cap T) \in Fields
  BY CompanyReceived
<1>3. /\ \A t, u \in SaleTaxes[c] \cap T : t = u
      /\ \A t, u \in PurchaseTaxes[c] \cap T : t = u
  BY ReadsAssumption
<1>4. TaxIds(Received(ManyToOne(SaleTaxes[c] \cap T))) = SaleTaxes[c] \cap T
  BY <1>1, <1>2, <1>3
<1>5. TaxIds(Received(ManyToOne(PurchaseTaxes[c] \cap T))) = PurchaseTaxes[c] \cap T
  BY <1>1, <1>2, <1>3
<1>6. TaxesOf(Received(CompanyRow(c, T))) = (SaleTaxes[c] \cap T) \cup (PurchaseTaxes[c] \cap T)
  BY <1>2, <1>4, <1>5 DEF TaxesOf
<1> QED BY <1>6

(* The rows that are kept of a table: one for each product that is active, *)
(* or each company, with all its taxes.                                    *)
LEMMA RowsKept ==
  ASSUME NEW S, FoundIn(S), request.kind \in {"products", "companies"}, ReadsType,
         IsList(Received(Catalogue(S)))
  PROVE  LET K == Kept(Received(Catalogue(S)).items)
         IN  /\ {row.fields["id"].n : row \in K} = IF request.kind = "products" THEN S \cap Active ELSE S
             /\ \A row \in K :
                  TaxesOf(row) =
                    (SaleTaxes[row.fields["id"].n] \cup PurchaseTaxes[row.fields["id"].n]) \cap taxes
<1> DEFINE K == Kept(Received(Catalogue(S)).items)
           Right(row, r) ==
             row.fields["id"].n = r /\ TaxesOf(row) = (SaleTaxes[r] \cup PurchaseTaxes[r]) \cap taxes
<1>0. \A r : Number(r).n = r
  BY DEF Number
<1>1. ASSUME request.kind = "products"
      PROVE  /\ \A row \in K : \E r \in S \cap Active : Right(row, r)
             /\ \A r \in S \cap Active : \E row \in K : Right(row, r)
  <2> DEFINE T == There(S)
             rowOf == [p \in Products |-> ProductRow(p, Bool(p \in Active), taxes)]
             tab == Table(T, rowOf)
             rows == Received(tab).items
  <2>1. S \subseteq Products /\ T \subseteq S /\ Active \subseteq Products
    BY <1>1 DEF FoundIn, There, Active
  <2>2. \A r \in S \cap Active : r \in T
    BY <1>1 DEF FoundIn, There, Active
  <2>3. T \in IdSets /\ tab \in ListsSent
    <3>1. taxes \in SUBSET Taxes
      BY DEF ReadsType
    <3>2. rowOf \in ProductRows
      BY <2>1, <3>1 DEF ProductRows
    <3>3. T \in SUBSET Products
      BY <2>1
    <3> HIDE DEF T, rowOf
    <3> QED BY <3>2, <3>3 DEF ListsSent, IdSets
  <2>4. Catalogue(S) = tab
    BY <1>1 DEF Catalogue
  <2> HIDE DEF tab
  <2>5. T # {}
    <3>1. IsList(Received(tab))
      BY <2>4
    <3>2. T = {} => Received(tab).is = "object"
      BY <2>3, TableReceived DEF tab
    <3> QED BY <3>1, <3>2 DEF IsList
  <2>6. /\ DOMAIN rows = 1 .. Cardinality(T)
        /\ \A n \in 1 .. Cardinality(T) : \E r \in T : rows[n] = Received(rowOf[r])
        /\ \A r \in T : \E n \in 1 .. Cardinality(T) : rows[n] = Received(rowOf[r])
        /\ \A r \in T : rowOf[r] \in Elements
    <3> HIDE DEF T, rowOf
    <3> QED BY <2>3, <2>5, TableReceived DEF tab
  <2> HIDE DEF rows
  <2>7. ToSet(rows) = {Received(rowOf[r]) : r \in T}
    <3> HIDE DEF rowOf, T
    <3> QED BY <2>6 DEF ToSet
  <2>8. ASSUME NEW r \in T
        PROVE  /\ Right(Received(rowOf[r]), r)
               /\ Received(rowOf[r]).fields["active"] = Bool(r \in Active)
    <3>1. r \in Products /\ rowOf[r] = ProductRow(r, Bool(r \in Active), taxes)
      BY <2>1
    <3>2. ProductRow(r, Bool(r \in Active), taxes) \in Elements
      BY <2>6, <3>1
    <3>3. /\ Received(rowOf[r]).fields["id"] = Number(r)
          /\ Received(rowOf[r]).fields["active"] = Bool(r \in Active)
      <4> DEFINE flag == Bool(r \in Active)
      <4>1. flag.is = "bool"
        BY DEF Bool
      <4>2. ProductRow(r, flag, taxes) \in Elements /\ rowOf[r] = ProductRow(r, flag, taxes)
        BY <3>1, <3>2
      <4> HIDE DEF flag, rowOf
      <4>3. /\ Received(ProductRow(r, flag, taxes)).fields["id"] = Number(r)
            /\ Received(ProductRow(r, flag, taxes)).fields["active"] = flag
        BY <4>1, <4>2, ProductReceived
      <4>4. /\ Received(rowOf[r]).fields["id"] = Number(r)
            /\ Received(rowOf[r]).fields["active"] = flag
        BY <4>2, <4>3
      <4> QED BY <4>4 DEF flag
    <3>4. taxes \in SUBSET Taxes
      BY DEF ReadsType
    <3>5. TaxesOf(Received(rowOf[r])) = (SaleTaxes[r] \cup PurchaseTaxes[r]) \cap taxes
      <4>1. Bool(r \in Active).is = "bool"
        BY DEF Bool
      <4> QED BY <1>1, <3>1, <3>2, <3>4, <4>1, TaxesOfProduct
    <3> QED BY <1>0, <3>3, <3>5
  <2>9. K = {row \in ToSet(rows) : row.fields["active"] = Bool(TRUE)}
    BY <1>1, <2>4 DEF Kept, rows
  <2>10. \A r : Bool(r \in Active) = Bool(TRUE) <=> r \in Active
    BY DEF Bool
  <2> HIDE DEF T, rowOf, Right, K
  <2>11. \A row \in K : \E r \in S \cap Active : Right(row, r)
    <3> SUFFICES ASSUME NEW row \in K PROVE \E r \in S \cap Active : Right(row, r)
      OBVIOUS
    <3>1. PICK r \in T : row = Received(rowOf[r])
      BY <2>7, <2>9
    <3> QED BY <3>1, <2>1, <2>8, <2>9, <2>10
  <2>12. \A r \in S \cap Active : \E row \in K : Right(row, r)
    BY <2>2, <2>7, <2>8, <2>9, <2>10
  <2> QED BY <2>11, <2>12
<1>2. ASSUME request.kind = "companies"
      PROVE  /\ \A row \in K : \E r \in S : Right(row, r)
             /\ \A r \in S : \E row \in K : Right(row, r)
  <2> DEFINE rowOf == [c \in Companies |-> CompanyRow(c, taxes)]
             tab == Table(S, rowOf)
             rows == Received(tab).items
  <2>1. S = Companies
    BY <1>2 DEF FoundIn
  <2>2. There(S) = S
    BY <2>1, ReadsAssumption DEF There
  <2>3. S \in IdSets /\ tab \in ListsSent
    <3>1. taxes \in SUBSET Taxes
      BY DEF ReadsType
    <3>2. rowOf \in CompanyRows
      BY <3>1 DEF CompanyRows
    <3>3. S \in SUBSET Companies
      BY <2>1
    <3> HIDE DEF rowOf
    <3> QED BY <3>2, <3>3 DEF ListsSent, IdSets
  <2>4. Catalogue(S) = tab
    BY <1>2, <2>2 DEF Catalogue
  <2> HIDE DEF tab
  <2>5. S # {}
    <3>1. IsList(Received(tab))
      BY <2>4
    <3>2. S = {} => Received(tab).is = "object"
      BY <2>3, TableReceived DEF tab
    <3> QED BY <3>1, <3>2 DEF IsList
  <2>6. /\ DOMAIN rows = 1 .. Cardinality(S)
        /\ \A n \in 1 .. Cardinality(S) : \E r \in S : rows[n] = Received(rowOf[r])
        /\ \A r \in S : \E n \in 1 .. Cardinality(S) : rows[n] = Received(rowOf[r])
        /\ \A r \in S : rowOf[r] \in Elements
    <3> HIDE DEF rowOf
    <3> QED BY <2>3, <2>5, TableReceived DEF tab
  <2> HIDE DEF rows
  <2>7. ToSet(rows) = {Received(rowOf[r]) : r \in S}
    <3> HIDE DEF rowOf
    <3> QED BY <2>6 DEF ToSet
  <2>8. ASSUME NEW r \in S
        PROVE  Right(Received(rowOf[r]), r)
    <3>1. r \in Companies /\ rowOf[r] = CompanyRow(r, taxes)
      BY <2>1
    <3>2. CompanyRow(r, taxes) \in Elements
      BY <2>6, <3>1
    <3>3. Received(rowOf[r]).fields["id"] = Number(r)
      BY <3>1, <3>2, CompanyReceived
    <3>4. taxes \in SUBSET Taxes
      BY DEF ReadsType
    <3>5. TaxesOf(Received(rowOf[r])) = (SaleTaxes[r] \cup PurchaseTaxes[r]) \cap taxes
      BY <1>2, <3>1, <3>2, <3>4, TaxesOfCompany
    <3> QED BY <1>0, <3>3, <3>5
  <2>9. K = ToSet(rows)
    BY <1>2, <2>4 DEF Kept, rows
  <2> HIDE DEF rowOf, Right, K
  <2> QED BY <2>7, <2>8, <2>9
<1>3. \A row, r : Right(row, r) => row.fields["id"].n = r
  OBVIOUS
<1>4. {row.fields["id"].n : row \in K} = IF request.kind = "products" THEN S \cap Active ELSE S
  <2> HIDE DEF Right, K
  <2> QED BY <1>1, <1>2, <1>3
<1>5. \A row \in K :
        TaxesOf(row) = (SaleTaxes[row.fields["id"].n] \cup PurchaseTaxes[row.fields["id"].n]) \cap taxes
  <2> SUFFICES ASSUME NEW row \in K
               PROVE  TaxesOf(row) =
                        (SaleTaxes[row.fields["id"].n] \cup PurchaseTaxes[row.fields["id"].n]) \cap taxes
    OBVIOUS
  <2>1. PICK r : Right(row, r)
    <3> HIDE DEF Right, K
    <3> QED BY <1>1, <1>2
  <2> HIDE DEF K
  <2> QED BY <2>1
<1> QED BY <1>4, <1>5
-----------------------------------------------------------------------------
(* THE INVARIANT *)

LEMMA TypeStart == ReadsInit => ReadsType
<1> SUFFICES ASSUME ReadsInit PROVE ReadsType
  OBVIOUS
<1>1. PICK kind \in ReadKinds : request = NewRead(kind)
  BY DEF ReadsInit
<1>2. DOMAIN request = Slots /\ request.kind = kind /\ request.at = "ready"
  BY <1>1 DEF NewRead, Slots
<1>3. events \in Seq(EventsSeen)
  BY DEF ReadsInit
<1> QED BY <1>2, <1>3, ReadsAssumption DEF ReadsInit, ReadsType, StepsOf

(* Steps that change the request keep the rest of its shape.               *)
LEMMA TypeStep ==
  ASSUME ReadsType, [ReadsNext]_readVars
  PROVE  ReadsType'
<1> USE DEF Slots, GoOn, Quiet, OdooRests, Outage, Is
<1>1. CASE UNCHANGED readVars
  BY <1>1 DEF readVars, ReadsType, Active
<1>0. ASSUME OdooRests, DOMAIN request' = Slots, request'.kind = request.kind,
             request'.at \in StepsOf(request.kind), outages' \in Nat
      PROVE  ReadsType'
  BY <1>0 DEF ReadsType, Active
<1>a. DOMAIN request = Slots /\ request.kind \in ReadKinds /\ request.at \in StepsOf(request.kind) /\ outages \in Nat
  BY DEF ReadsType
<1>b. request.at \in CatalogueSteps => request.kind \in {"products", "companies"}
  BY <1>a DEF StepsOf, CountSteps, CatalogueSteps, ReadKinds
<1> USE <1>a
<1>2. CASE Authenticate
  <2>1. FirstOf[request.kind] \in StepsOf(request.kind)
    <3>1. /\ FirstOf["companies"] = "search" /\ FirstOf["products"] = "search"
          /\ FirstOf["count"] = "lines" /\ FirstOf["call"] = "call"
      BY DEF FirstOf
    <3> HIDE DEF FirstOf
    <3> QED BY <3>1 DEF ReadKinds, StepsOf, CatalogueSteps, CountSteps
  <2> QED BY <1>0, <1>2, <2>1 DEF Authenticate, StepsOf
<1>3. CASE MethodCall
  BY <1>0, <1>3 DEF MethodCall, StepsOf
<1>4. CASE CallFails
  BY <1>0, <1>4 DEF CallFails, StepsOf
<1>5. CASE SearchCatalogue
  <2>1. request.kind \in {"products", "companies"}
    <3>1. request.at = "search"
      BY <1>5 DEF SearchCatalogue
    <3> QED BY <3>1, <1>b DEF CatalogueSteps
  <2> QED BY <1>0, <1>5, <2>1 DEF SearchCatalogue, StepsOf, CatalogueSteps
<1>6. CASE ReadCatalogue
  <2>1. request.kind \in {"products", "companies"}
    <3>1. request.at = "read"
      BY <1>6 DEF ReadCatalogue
    <3> QED BY <3>1, <1>b DEF CatalogueSteps
  <2> QED BY <1>0, <1>6, <2>1 DEF ReadCatalogue, StepsOf, CatalogueSteps
<1>7. CASE GetTaxDetails
  <2>1. request.kind \in {"products", "companies"}
    <3>1. request.at = "taxes"
      BY <1>7 DEF GetTaxDetails
    <3> QED BY <3>1, <1>b DEF CatalogueSteps
  <2>2. /\ OdooRests
        /\ \E details : AfterTaxes(details)
        /\ UNCHANGED outages \/ outages' = outages + 1
    BY <1>7 DEF GetTaxDetails
  <2>3. PICK details : AfterTaxes(details)
    BY <2>2
  <2>4. DOMAIN request' = Slots /\ request'.kind = request.kind /\ request'.at \in {"sapira", "done"}
    BY <2>3 DEF AfterTaxes
  <2> QED BY <1>0, <2>1, <2>2, <2>4 DEF StepsOf, CatalogueSteps
<1>8. CASE GetSapiraCompanies
  <2>1. /\ OdooRests /\ request.kind = "companies"
        /\ DOMAIN request' = Slots /\ request'.kind = request.kind /\ request'.at = "taxes"
        /\ UNCHANGED outages \/ outages' = outages + 1
    BY <1>8 DEF GetSapiraCompanies, GetSapira
  <2> QED BY <1>0, <2>1 DEF StepsOf, CatalogueSteps
<1>9. CASE GetSapiraProducts
  <2>1. /\ OdooRests /\ request.kind = "products"
        /\ DOMAIN request' = Slots /\ request'.kind = request.kind /\ request'.at = "done"
        /\ UNCHANGED outages \/ outages' = outages + 1
    BY <1>9 DEF GetSapiraProducts, GetSapira
  <2> QED BY <1>0, <2>1 DEF StepsOf, CatalogueSteps
<1>10. CASE CountLines
  BY <1>0, <1>10 DEF CountLines, StepsOf, CountSteps
<1>11. CASE CountInvoices
  BY <1>0, <1>11 DEF CountInvoices, StepsOf, CountSteps
<1>12. CASE FindInvoices
  BY <1>0, <1>12 DEF FindInvoices, StepsOf, CountSteps
<1>13. CASE CountPartners
  BY <1>0, <1>13 DEF CountPartners, StepsOf, CountSteps
<1>14. CASE CountBare
  BY <1>0, <1>14 DEF CountBare, StepsOf, CountSteps
<1>15. CASE FindBare
  BY <1>0, <1>15 DEF FindBare, StepsOf, CountSteps
<1>16. CASE ReadNames
  BY <1>0, <1>16 DEF ReadNames, StepsOf, CountSteps
<1>17. CASE PostOrReverse
  <2>1. \E e \in EventsSeen : events' = Append(events, e)
    BY <1>17 DEF PostOrReverse, Happens, EventsSeen
  <2>2. posted' \subseteq Invoices /\ UNCHANGED <<shelf, taxes, request, before, stayed, outages>>
    BY <1>17 DEF PostOrReverse, ReadsType
  <2> QED BY <2>1, <2>2 DEF ReadsType, Active
<1>18. CASE ChangeProduct
  <2>1. PICK p \in Products, to \in {"active", "archived", "gone"} :
          shelf' = [shelf EXCEPT ![p] = to] /\ stayed' = stayed \ {p} /\ events' = Append(events, to)
    BY <1>18 DEF ChangeProduct, Happens
  <2>2. UNCHANGED <<posted, taxes, request, before, outages>>
    BY <1>18 DEF ChangeProduct
  <2>3. events' \in Seq(EventsSeen)
    <3>1. to \in EventsSeen
      BY DEF EventsSeen
    <3> QED BY <2>1, <3>1 DEF ReadsType
  <2>4. shelf' \in [Products -> {"active", "archived", "gone"}] /\ \A q \in Products \ {p} : shelf'[q] = shelf[q]
    BY <2>1 DEF ReadsType
  <2>5. stayed' \subseteq Active'
    BY <2>1, <2>4 DEF ReadsType, Active
  <2> QED BY <2>2, <2>3, <2>4, <2>5 DEF ReadsType
<1>19. CASE DeleteTax
  <2>1. \E e \in EventsSeen : events' = Append(events, e)
    BY <1>19 DEF DeleteTax, Happens, EventsSeen
  <2>2. taxes' \subseteq Taxes /\ UNCHANGED <<posted, shelf, request, before, stayed, outages>>
    BY <1>19 DEF DeleteTax, ReadsType
  <2> QED BY <2>1, <2>2 DEF ReadsType, Active
<1> QED
  BY <1>1, <1>2, <1>3, <1>4, <1>5, <1>6, <1>7, <1>8, <1>9, <1>10, <1>11, <1>12, <1>13, <1>14, <1>15,
     <1>16, <1>17, <1>18, <1>19 DEF ReadsNext

(* What happened stays known.                                              *)
LEMMA Happening ==
  ASSUME ReadsType, NEW e \in EventsSeen, events' = Append(events, e)
  PROVE  Happened' = Happened \cup {e}
<1>1. events \in Seq(EventsSeen)
  BY DEF ReadsType
<1>2. /\ DOMAIN events = 1 .. Len(events) /\ Len(events) \in Nat
      /\ DOMAIN events' = 1 .. Len(events) + 1
      /\ events'[Len(events) + 1] = e
      /\ \A n \in 1 .. Len(events) : events'[n] = events[n]
  BY <1>1
<1>3. ToSet(events') = ToSet(events) \cup {e}
  BY <1>2 DEF ToSet
<1> QED BY <1>3 DEF Happened

(* A request that has not begun has found nothing yet.                     *)
LEMMA CountStart == ReadsInit => CountInv
<1> SUFFICES ASSUME ReadsInit PROVE CountSoFar
  BY DEF CountInv
<1>1. PICK kind \in ReadKinds : request = NewRead(kind)
  BY DEF ReadsInit
<1>2. request.at = "ready" /\ request.partners = 0 /\ request.bare = 0 /\ request.names = <<>>
  BY <1>1 DEF NewRead
<1> QED BY <1>2 DEF ReadsInit, CountSoFar

LEMMA CountStep ==
  ASSUME ReadsType, CountInv, [ReadsNext]_readVars
  PROVE  CountInv'
<1> SUFFICES ASSUME request'.kind = "count", "reversed" \notin Happened'
             PROVE  CountSoFar'
  BY DEF CountInv
<1> USE DEF GoOn, Quiet, OdooRests, Is
<1>a. /\ DOMAIN request = Slots
      /\ posted \in SUBSET Invoices /\ before \in SUBSET Invoices
      /\ Slots = {"kind", "at", "ids", "rows", "details", "sapira", "lines", "invoices", "partners",
                  "bare", "names", "sent", "got"}
  BY DEF ReadsType, Slots
<1>1. CASE UNCHANGED readVars
  BY <1>1 DEF readVars, CountInv, Happened, CountSoFar, LinesRight, InvoicesRight, IdsRight, PartnersRight,
     BareRight, BareIdsRight, NamesRight
<1>2. CASE OdooRests
  <2>1. request.kind = "count" => CountSoFar
    BY <1>2 DEF CountInv, Happened
  <2>2. CASE Authenticate
    <3>1. /\ request.kind = "count" /\ request.at = "ready"
          /\ request'.at \in {"lines", "failed"}
          /\ request' = [request EXCEPT !.at = request'.at]
      BY <2>2, <1>a DEF Authenticate, FirstOf
    <3> QED BY <1>2, <2>1, <3>1, <1>a DEF CountSoFar
  <2>3. CASE CallFails
    <3>1. /\ request.kind = "count" /\ request'.at = "failed"
      BY <2>3, <1>a DEF CallFails
    <3> QED BY <1>2, <2>1, <3>1 DEF CountSoFar
  <2>4. CASE CountLines
    <3>1. /\ request.at = "lines" /\ request.kind = "count"
          /\ request' = [request EXCEPT !.at = "invoices", !.lines = LineCount(posted)]
      BY <2>4 DEF CountLines
    <3>2. before \subseteq posted /\ request.partners = 0 /\ request.bare = 0 /\ request.names = <<>>
      BY <2>1, <3>1 DEF CountSoFar
    <3>3. LinesRight'
      BY <1>2, <1>a, <3>1, <3>2, Growing DEF LinesRight, Between
    <3> QED BY <1>2, <1>a, <3>1, <3>2, <3>3 DEF CountSoFar
  <2>5. CASE CountInvoices
    <3>1. /\ request.at = "invoices" /\ request.kind = "count"
          /\ request' = [request EXCEPT !.at = IF posted = {} THEN "done" ELSE "ids",
                                        !.invoices = Cardinality(posted)]
      BY <2>5 DEF CountInvoices
    <3>2. /\ before \subseteq posted /\ LinesRight
          /\ request.partners = 0 /\ request.bare = 0 /\ request.names = <<>>
      BY <2>1, <3>1 DEF CountSoFar
    <3>3. /\ request'.invoices = Cardinality(posted) /\ request'.lines = request.lines
          /\ request'.partners = 0 /\ request'.bare = 0 /\ request'.names = <<>>
          /\ request'.at = IF posted = {} THEN "done" ELSE "ids"
      BY <3>1, <3>2, <1>a
    <3>4. /\ Cardinality(posted) \in Nat /\ Cardinality(before) \in Nat /\ Cardinality(before) <= Cardinality(posted)
          /\ Cardinality(Bare(posted)) \in Nat /\ Cardinality(MayCopy(posted)) \in Nat
          /\ posted = {} <=> Cardinality(posted) = 0
      BY <1>a, <3>2, Growing, FS_EmptySet
    <3>5. LinesRight' /\ InvoicesRight'
      BY <1>2, <3>2, <3>3, <3>4 DEF LinesRight, InvoicesRight, Between
    <3>6. posted = {} => PartnersRight' /\ NamesRight'
      <4> SUFFICES ASSUME posted = {} PROVE PartnersRight' /\ NamesRight'
        OBVIOUS
      <4>1. PartnersRight'
        BY <1>2, <3>3, <3>4 DEF PartnersRight, Between
      <4>2. NamesRight'
        BY <1>2, <3>3, <3>4 DEF NamesRight, Between
      <4> QED BY <4>1, <4>2
    <3> QED BY <1>2, <3>2, <3>3, <3>5, <3>6 DEF CountSoFar
  <2>6. CASE FindInvoices
    <3> DEFINE ids == Received(Ints(posted))
    <3>1. /\ request.at = "ids" /\ request.kind = "count"
          /\ request' = [request EXCEPT !.at = IF IsList(ids) THEN "partners" ELSE "bare", !.ids = ids]
      BY <2>6 DEF FindInvoices
    <3>2. CountSoFar /\ posted # {}
      BY <2>1, <3>1 DEF CountSoFar
    <3>3. ids = Ints(posted) /\ IsList(ids)
      <4>1. posted \in IdSets
        BY <1>a DEF IdSets
      <4> QED BY <3>2, <4>1, IdsReceived, IdsFinite, ListOfInts DEF IsList
    <3> HIDE DEF ids
    <3>4. /\ request'.at = "partners" /\ request'.ids = Ints(posted) /\ request'.lines = request.lines
          /\ request'.invoices = request.invoices /\ request'.partners = request.partners
          /\ request'.bare = request.bare /\ request'.names = request.names
      BY <1>a, <3>1, <3>3
    <3>5. LinesRight' /\ InvoicesRight' /\ IdsRight'
      BY <1>2, <3>1, <3>2, <3>4 DEF CountSoFar, LinesRight, InvoicesRight, IdsRight
    <3> QED BY <1>2, <3>1, <3>2, <3>4, <3>5 DEF CountSoFar
  <2>7. CASE CountPartners
    <3> DEFINE rows == Received(Table(IntsIn(request.ids.items), PartnerRow))
    <3>1. /\ request.at = "partners" /\ request.kind = "count"
          /\ request' = [request EXCEPT !.at = "bare", !.partners = UniquePartners(rows.items)]
      BY <2>7 DEF CountPartners
    <3>2. CountSoFar
      BY <2>1, <3>1
    <3>3. PICK S \in SUBSET posted : S # {} /\ before \subseteq S /\ request.ids = Ints(S)
      BY <3>1, <3>2 DEF CountSoFar, IdsRight
    <3>4. S \in SUBSET Invoices /\ S \in IdSets
      BY <1>a, <3>3 DEF IdSets
    <3>5. IntsIn(request.ids.items) = S
      BY <3>3, <3>4, IdsFinite, ListOfInts
    <3>6. UniquePartners(rows.items) = Cardinality(PartnersOf(S))
      BY <3>3, <3>4, <3>5, PartnersCounted
    <3> HIDE DEF rows
    <3>7. /\ request'.at = "bare" /\ request'.partners = Cardinality(PartnersOf(S))
          /\ request'.lines = request.lines /\ request'.invoices = request.invoices
          /\ request'.bare = request.bare /\ request'.names = request.names
      BY <1>a, <3>1, <3>6
    <3>8. Cardinality(PartnersOf(before)) <= Cardinality(PartnersOf(S)) /\ Cardinality(PartnersOf(before)) \in Nat
      BY <3>3, <3>4, Growing
    <3>9. Cardinality(PartnersOf(S)) <= Cardinality(MayCopy(posted)) /\ Cardinality(PartnersOf(S)) \in Nat
      BY <1>a, <3>3, Growing
    <3>10. PartnersRight'
      BY <1>2, <3>7, <3>8, <3>9 DEF PartnersRight, Between
    <3>11. LinesRight' /\ InvoicesRight'
      BY <1>2, <3>1, <3>2, <3>7 DEF CountSoFar, LinesRight, InvoicesRight
    <3> QED BY <1>2, <3>1, <3>2, <3>7, <3>10, <3>11 DEF CountSoFar
  <2>8. CASE CountBare
    <3>1. /\ request.at = "bare" /\ request.kind = "count"
          /\ request' = [request EXCEPT !.bare = Cardinality(Bare(posted)),
                                        !.at = IF Bare(posted) = {} THEN "done" ELSE "find bare"]
      BY <2>8 DEF CountBare
    <3>2. CountSoFar
      BY <2>1, <3>1
    <3>3. /\ request'.at = IF Bare(posted) = {} THEN "done" ELSE "find bare"
          /\ request'.bare = Cardinality(Bare(posted))
          /\ request'.lines = request.lines /\ request'.invoices = request.invoices
          /\ request'.partners = request.partners /\ request'.names = request.names
      BY <1>a, <3>1
    <3>4. Cardinality(Bare(posted)) \in Nat /\ (Cardinality(Bare(posted)) = 0 <=> Bare(posted) = {})
      <4>1. Bare(posted) \in SUBSET Invoices
        BY <1>a DEF Bare
      <4> QED BY <1>a, <4>1, Growing, FS_EmptySet
    <3>5. LinesRight' /\ InvoicesRight' /\ PartnersRight'
      BY <1>2, <3>1, <3>2, <3>3 DEF CountSoFar, LinesRight, InvoicesRight, PartnersRight
    <3>6. Bare(posted) = {} => NamesRight'
      <4>1. request'.names = <<>>
        BY <3>1, <3>2, <3>3 DEF CountSoFar
      <4> QED BY <1>2, <3>3, <3>4, <4>1 DEF NamesRight, Between
    <3>7. ASSUME Bare(posted) # {} PROVE BareRight'
      <4>0. Cardinality(Bare(posted)) # 0
        BY <3>4, <3>7
      <4>1. request'.bare \in Nat \ {0} /\ request'.bare <= Cardinality(Bare(posted))
        <5> DEFINE m == Cardinality(Bare(posted))
        <5>1. m \in Nat /\ m # 0 /\ request'.bare = m
          BY <3>3, <3>4, <4>0
        <5> HIDE DEF m
        <5> QED BY <5>1 DEF m
      <4> QED BY <1>2, <4>1 DEF BareRight
    <3> QED BY <1>2, <3>1, <3>2, <3>3, <3>5, <3>6, <3>7 DEF CountSoFar
  <2>9. CASE FindBare
    <3> DEFINE ids == Received(Ints(Bare(posted)))
    <3>1. /\ request.at = "find bare" /\ request.kind = "count"
          /\ request' = [request EXCEPT !.at = IF IsList(ids) THEN "names" ELSE "done", !.ids = ids]
      BY <2>9 DEF FindBare
    <3>2. CountSoFar
      BY <2>1, <3>1
    <3>3. request.bare \in Nat \ {0} /\ request.bare <= Cardinality(Bare(posted))
      BY <3>1, <3>2 DEF CountSoFar, BareRight
    <3>4. Bare(posted) # {}
      BY <3>3, FS_EmptySet
    <3>5. ids = Ints(Bare(posted)) /\ IsList(ids)
      <4>1. Bare(posted) \in IdSets
        BY <1>a DEF IdSets, Bare
      <4> QED BY <3>4, <4>1, IdsReceived, IdsFinite, ListOfInts DEF IsList
    <3> HIDE DEF ids
    <3>6. /\ request'.at = "names" /\ request'.ids = Ints(Bare(posted))
          /\ request'.lines = request.lines /\ request'.invoices = request.invoices
          /\ request'.partners = request.partners /\ request'.names = request.names
          /\ request'.bare = request.bare
      BY <1>a, <3>1, <3>5
    <3>7. LinesRight' /\ InvoicesRight' /\ PartnersRight' /\ BareRight'
      BY <1>2, <3>1, <3>2, <3>3, <3>6 DEF CountSoFar, LinesRight, InvoicesRight, PartnersRight, BareRight
    <3>8. BareIdsRight'
      BY <1>2, <3>3, <3>4, <3>6 DEF BareIdsRight
    <3> QED BY <1>2, <3>1, <3>2, <3>6, <3>7, <3>8 DEF CountSoFar
  <2>10. CASE ReadNames
    <3> DEFINE rows == Received(Table(IntsIn(request.ids.items), NameRow))
               names == [n \in DOMAIN rows.items |-> NameShown(rows.items[n].fields["name"])]
    <3>1. /\ request.at = "names" /\ request.kind = "count"
          /\ request' = [request EXCEPT !.at = "done", !.names = names]
      BY <2>10 DEF ReadNames
    <3>2. CountSoFar
      BY <2>1, <3>1
    <3>3. PICK S \in SUBSET Bare(posted) :
            S # {} /\ request.bare <= Cardinality(S) /\ request.ids = Ints(S)
      BY <3>1, <3>2 DEF CountSoFar, BareIdsRight
    <3>4. S \in SUBSET Invoices /\ S \in IdSets /\ Bare(posted) \in SUBSET Invoices
      BY <1>a, <3>3 DEF IdSets, Bare
    <3>5. IntsIn(request.ids.items) = S
      BY <3>3, <3>4, IdsFinite, ListOfInts
    <3>6. /\ Len(names) = Cardinality(S)
          /\ \A n \in DOMAIN names : \E i \in S : names[n] = ShownName(i)
      BY <3>3, <3>4, <3>5, NamesListed
    <3> HIDE DEF names
    <3>7. /\ request'.at = "done" /\ request'.names = names
          /\ request'.lines = request.lines /\ request'.invoices = request.invoices
          /\ request'.partners = request.partners /\ request'.bare = request.bare
      BY <1>a, <3>1
    <3>8. Cardinality(S) <= Cardinality(Bare(posted)) /\ Cardinality(S) \in Nat
      BY <3>3, <3>4, Growing
    <3>9. NamesRight'
      BY <1>2, <3>3, <3>6, <3>7, <3>8 DEF NamesRight, Between
    <3>10. LinesRight' /\ InvoicesRight' /\ PartnersRight'
      BY <1>2, <3>1, <3>2, <3>7 DEF CountSoFar, LinesRight, InvoicesRight, PartnersRight
    <3> QED BY <1>2, <3>1, <3>2, <3>7, <3>9, <3>10 DEF CountSoFar
  <2>11. CASE MethodCall \/ SearchCatalogue \/ ReadCatalogue \/ GetTaxDetails
                \/ GetSapiraCompanies \/ GetSapiraProducts
    <3>1. request'.kind = request.kind
      BY <2>11, <1>a DEF MethodCall, SearchCatalogue, ReadCatalogue, GetTaxDetails, AfterTaxes,
         GetSapiraCompanies, GetSapiraProducts, GetSapira
    <3>2. request.kind # "count"
      <4>1. request.at \in CatalogueSteps \/ request.kind # "count"
        BY <2>11 DEF MethodCall, SearchCatalogue, ReadCatalogue, GetTaxDetails, GetSapiraCompanies,
           GetSapiraProducts, GetSapira, CatalogueSteps
      <4> QED BY <4>1 DEF ReadsType, StepsOf, CatalogueSteps, CountSteps
    <3> QED BY <3>1, <3>2
  <2>12. ~PostOrReverse /\ ~ChangeProduct /\ ~DeleteTax
    <3>1. ASSUME NEW e \in EventsSeen, events' = Append(events, e) PROVE events' # events
      BY <3>1 DEF ReadsType
    <3>2. PostOrReverse => \E e \in EventsSeen : events' = Append(events, e)
      BY DEF PostOrReverse, Happens, EventsSeen
    <3>3. ChangeProduct => \E e \in EventsSeen : events' = Append(events, e)
      BY DEF ChangeProduct, Happens, EventsSeen
    <3>4. DeleteTax => \E e \in EventsSeen : events' = Append(events, e)
      BY DEF DeleteTax, Happens, EventsSeen
    <3> QED BY <1>2, <3>1, <3>2, <3>3, <3>4
  <2> QED
    <3>1. CASE UNCHANGED readVars
      BY <1>1, <3>1
    <3>2. CASE ReadsNext
      BY <3>2, <2>2, <2>3, <2>4, <2>5, <2>6, <2>7, <2>8, <2>9, <2>10, <2>11, <2>12 DEF ReadsNext
    <3> QED BY <3>1, <3>2
<1>3. CASE PostOrReverse
  <2>1. request.kind = "count" /\ UNCHANGED <<request, before>>
    BY <1>3 DEF PostOrReverse
  <2>2. PICK e \in EventsSeen : events' = Append(events, e) /\ (e = "reversed" \/ posted \subseteq posted')
    BY <1>3 DEF PostOrReverse, Happens, EventsSeen
  <2>3. Happened' = Happened \cup {e}
    BY <2>2, Happening
  <2>4. CountSoFar /\ posted \subseteq posted'
    BY <2>1, <2>2, <2>3 DEF CountInv
  <2>5. posted' \in SUBSET Invoices
    BY <1>3, <1>a DEF PostOrReverse
  <2>6. /\ IsFiniteSet(posted) /\ Cardinality(posted) \in Nat /\ Cardinality(posted') \in Nat
        /\ Cardinality(posted) <= Cardinality(posted')
        /\ LineCount(posted) \in Nat /\ LineCount(posted') \in Nat /\ LineCount(posted) <= LineCount(posted')
        /\ Bare(posted) \subseteq Bare(posted')
        /\ Cardinality(Bare(posted)) \in Nat /\ Cardinality(Bare(posted')) \in Nat
        /\ Cardinality(Bare(posted)) <= Cardinality(Bare(posted'))
        /\ Cardinality(MayCopy(posted)) \in Nat /\ Cardinality(MayCopy(posted')) \in Nat
        /\ Cardinality(MayCopy(posted)) <= Cardinality(MayCopy(posted'))
    BY <2>4, <2>5, Growing
  <2>7. request.at \notin {"ready", "failed", "lines"} => LinesRight'
    <3> SUFFICES ASSUME request.at \notin {"ready", "failed", "lines"} PROVE LinesRight'
      OBVIOUS
    <3>1. request.lines \in Nat /\ Between(request.lines, LineCount(before), LineCount(posted))
      BY <2>4 DEF CountSoFar, LinesRight
    <3>2. Between(request.lines, LineCount(before), LineCount(posted'))
      BY <2>6, <3>1 DEF Between
    <3> QED BY <2>1, <3>1, <3>2 DEF LinesRight
  <2>8. request.at \notin {"ready", "failed", "lines", "invoices"} => InvoicesRight'
    <3> SUFFICES ASSUME request.at \notin {"ready", "failed", "lines", "invoices"} PROVE InvoicesRight'
      OBVIOUS
    <3>1. request.invoices \in Nat /\ Between(request.invoices, Cardinality(before), Cardinality(posted))
      BY <2>4 DEF CountSoFar, InvoicesRight
    <3>2. Between(request.invoices, Cardinality(before), Cardinality(posted'))
      BY <2>6, <3>1 DEF Between
    <3> QED BY <2>1, <3>1, <3>2 DEF InvoicesRight
  <2>9. request.at = "partners" => IdsRight'
    BY <2>1, <2>4 DEF CountSoFar, IdsRight
  <2>10. request.at \in {"bare", "find bare", "names", "done"} => PartnersRight'
    <3> SUFFICES ASSUME request.at \in {"bare", "find bare", "names", "done"} PROVE PartnersRight'
      OBVIOUS
    <3> DEFINE low == IF request.invoices = 0 THEN 0 ELSE Cardinality(PartnersOf(before))
    <3>1. request.partners \in Nat /\ Between(request.partners, low, Cardinality(MayCopy(posted)))
      BY <2>4 DEF CountSoFar, PartnersRight
    <3>2. low' = low
      BY <2>1
    <3> HIDE DEF low
    <3>3. Between(request.partners, low, Cardinality(MayCopy(posted')))
      <4>1. PICK n \in Nat : n = request.partners
        BY <3>1
      <4>2. low <= n /\ n <= Cardinality(MayCopy(posted))
        BY <3>1, <4>1 DEF Between
      <4>3. n <= Cardinality(MayCopy(posted'))
        BY <2>4, <2>5, <4>2, StillCounted
      <4> QED BY <4>1, <4>2, <4>3 DEF Between
    <3>4. Between(request.partners, low, Cardinality(MayCopy(posted)))'
      BY <2>1, <3>2, <3>3
    <3> QED BY <2>1, <3>1, <3>4 DEF PartnersRight, low
  <2>11. request.at \in {"find bare", "names"} => BareRight'
    <3> SUFFICES ASSUME request.at \in {"find bare", "names"} PROVE BareRight'
      OBVIOUS
    <3>1. request.bare \in Nat \ {0} /\ request.bare <= Cardinality(Bare(posted))
      BY <2>4 DEF CountSoFar, BareRight
    <3>2. request.bare <= Cardinality(Bare(posted'))
      <4>1. PICK n \in Nat : n = request.bare
        BY <3>1
      <4>2. n <= Cardinality(Bare(posted'))
        BY <2>4, <2>5, <3>1, <4>1, StillCounted
      <4> QED BY <4>1, <4>2
    <3> QED BY <2>1, <3>1, <3>2 DEF BareRight
  <2>12. request.at = "names" => BareIdsRight'
    BY <2>1, <2>4, <2>6 DEF CountSoFar, BareIdsRight
  <2>13. request.at = "done" => NamesRight'
    BY <2>1, <2>4, <2>6 DEF CountSoFar, NamesRight, Between
  <2> QED BY <2>1, <2>4, <2>7, <2>8, <2>9, <2>10, <2>11, <2>12, <2>13 DEF CountSoFar
<1>4. CASE ChangeProduct \/ DeleteTax
  BY <1>4, <1>a DEF ChangeProduct, DeleteTax
<1> QED
  BY <1>1, <1>2, <1>3, <1>4 DEF ReadsNext, Authenticate, MethodCall, CallFails, SearchCatalogue, ReadCatalogue,
     GetTaxDetails, GetSapiraCompanies, GetSapiraProducts, GetSapira, CountLines, CountInvoices,
     FindInvoices, CountPartners, CountBare, FindBare, ReadNames

LEMMA CatalogueStart == ReadsInit => CatalogueInv
<1> SUFFICES ASSUME ReadsInit PROVE CatalogueInv
  OBVIOUS
<1>1. PICK kind \in ReadKinds : request = NewRead(kind)
  BY DEF ReadsInit
<1>2. request.at = "ready"
  BY <1>1 DEF NewRead
<1> QED BY <1>2 DEF ReadsInit, CatalogueInv, Is

(* Only a request that is read changes what it lists.                      *)
LEMMA ListsKept ==
  ASSUME request'.kind = request.kind, request'.rows = request.rows
  PROVE  Listed' = Listed /\ AllTaxIds' = AllTaxIds
BY DEF Listed, AllTaxIds, TaxesOf, TaxIds

LEMMA CatalogueStep ==
  ASSUME ReadsType, CatalogueInv, [ReadsNext]_readVars
  PROVE  CatalogueInv'
<1> SUFFICES ASSUME request'.kind \in {"companies", "products"} PROVE CatalogueInv'
  BY DEF CatalogueInv
<1> USE DEF GoOn, Quiet, OdooRests, Is
<1>a. /\ DOMAIN request = Slots /\ taxes \subseteq Taxes /\ stayed \subseteq Active /\ Active \subseteq Products
      /\ outages \in Nat
      /\ Slots = {"kind", "at", "ids", "rows", "details", "sapira", "lines", "invoices", "partners",
                  "bare", "names", "sent", "got"}
  BY DEF ReadsType, Slots, Active
(* What was found and read stays right while Odoo changes.                 *)
<1>b. ASSUME request'.kind = request.kind, request'.ids = request.ids, stayed' \subseteq stayed,
             NEW S, FoundIn(S)
      PROVE  FoundIn(S)'
  BY <1>b DEF FoundIn
<1>c. ASSUME request'.kind = request.kind, request'.ids = request.ids, request'.rows = request.rows,
             stayed' \subseteq stayed, taxes' \subseteq taxes, RowsRight
      PROVE  RowsRight'
  <2>1. Listed' = Listed /\ AllTaxIds' = AllTaxIds
    BY <1>c, ListsKept
  <2> HIDE DEF Listed, AllTaxIds
  <2> QED BY <1>c, <2>1 DEF RowsRight
<1>d. ASSUME request'.kind = request.kind, request'.rows = request.rows, request'.details = request.details,
             taxes' \subseteq taxes, outages' >= outages, outages' \in Nat, Happened \subseteq Happened', DetailsRight
      PROVE  DetailsRight'
  <2>1. Listed' = Listed
    BY <1>d, ListsKept
  <2>2. \A r : DetailsOf(r)' = DetailsOf(r)
    BY <1>d DEF DetailsOf
  <2>3. outages > 0 => outages' > 0
    BY <1>d, <1>a
  <2>4. CASE \A r \in Listed : (SaleTaxes[r] \cup PurchaseTaxes[r]) \cap taxes \subseteq DetailsOf(r)
    BY <1>d, <2>1, <2>2, <2>4 DEF DetailsRight
  <2>5. CASE request.details = {} /\ (outages > 0 \/ "tax deleted" \in Happened)
    BY <1>d, <2>3, <2>5 DEF DetailsRight
  <2> QED BY <1>d, <2>4, <2>5 DEF DetailsRight
<1>1. CASE UNCHANGED readVars
  <2>1. request' = request /\ stayed' = stayed /\ taxes' = taxes /\ outages' = outages /\ events' = events
    BY <1>1 DEF readVars
  <2>2. \A S : FoundIn(S) => FoundIn(S)'
    BY <2>1, <1>b
  <2>3. RowsRight => RowsRight'
    BY <2>1, <1>c
  <2>4. DetailsRight => DetailsRight'
    BY <2>1, <1>a, <1>d DEF Happened
  <2> QED BY <2>1, <2>2, <2>3, <2>4 DEF CatalogueInv, Happened
<1>2. CASE OdooRests
  <2>0. /\ taxes' = taxes /\ stayed' = stayed /\ Happened' = Happened
        /\ Active' = Active
    BY <1>2 DEF Happened, Active
  <2>1. taxes = Taxes \/ "tax deleted" \in Happened
       \/ request.kind \notin {"companies", "products"}
    BY DEF CatalogueInv
  <2>2. CASE Authenticate
    <3>1. /\ request'.kind = request.kind /\ request'.at \in {"search", "failed"}
      BY <2>2, <1>a DEF Authenticate, FirstOf
    <3> QED BY <2>0, <2>1, <3>1 DEF CatalogueInv
  <2>3. CASE CallFails
    <3>1. request'.kind = request.kind /\ request'.at = "failed"
      BY <2>3, <1>a DEF CallFails
    <3> QED BY <2>0, <2>1, <3>1 DEF CatalogueInv
  <2>4. CASE MethodCall
    <3>1. request'.kind = request.kind /\ request.kind = "call"
      BY <2>4, <1>a DEF MethodCall
    <3> QED BY <3>1
  <2>5. CASE SearchCatalogue
    <3>1. PICK S \in SUBSET (IF request.kind = "products" THEN Active ELSE Companies) :
            /\ IF request.kind = "products"
               THEN Cardinality(S) = IF Cardinality(Active) < ProductLimit THEN Cardinality(Active) ELSE ProductLimit
               ELSE S = Companies
            /\ request' = [request EXCEPT !.at = "read", !.ids = Received(Ints(S))]
      BY <2>5 DEF SearchCatalogue
    <3>2. request'.kind = request.kind /\ request'.at = "read" /\ request'.ids = Received(Ints(S))
      BY <3>1, <1>a
    <3>3. request.kind = "products" => stayed \subseteq S \/ Cardinality(S) = ProductLimit
      <4> SUFFICES ASSUME request.kind = "products", Cardinality(S) # ProductLimit
                   PROVE  stayed \subseteq S
        OBVIOUS
      <4>1. S \in SUBSET Active /\ Cardinality(S) = Cardinality(Active)
        BY <3>1
      <4>2. IsFiniteSet(Active)
        BY <1>a, ReadsAssumption, FS_Subset
      <4>3. S = Active
        BY <4>1, <4>2, FS_Subset
      <4> QED BY <4>3, <1>a
    <3>4. IF request.kind = "products" THEN S \subseteq Products ELSE S = Companies
      BY <3>1, <1>a
    <3>5. FoundIn(S)'
      BY <2>0, <3>2, <3>3, <3>4 DEF FoundIn
    <3>6. S \in SUBSET (Products \cup Companies)
      BY <3>4
    <3> QED BY <2>0, <2>1, <3>2, <3>5, <3>6 DEF CatalogueInv
  <2>6. CASE ReadCatalogue
    <3>1. request.at = "read" /\ request'.kind = request.kind
      BY <2>6, <1>a DEF ReadCatalogue
    <3>2. PICK S \in SUBSET (Products \cup Companies) : FoundIn(S)
      BY <3>1 DEF CatalogueInv
    <3>3. S \in IdSets /\ (request.kind = "products" => S \subseteq Products) /\ (request.kind = "companies" => S = Companies)
      BY <3>1, <3>2 DEF FoundIn, IdSets
    <3>4. CASE request'.at = "failed"
      BY <2>0, <2>1, <3>1, <3>4 DEF CatalogueInv
    <3>5. CASE request'.at # "failed"
      <4> DEFINE rows == Received(Catalogue(IntsIn(ListOf(request.ids))))
      <4>1. /\ IsList(request.ids) /\ IsList(rows)
            /\ request' = [request EXCEPT !.at = IF request.kind = "products" THEN "taxes" ELSE "sapira",
                                          !.rows = Kept(rows.items)]
        BY <2>6, <3>5, <1>a DEF ReadCatalogue
      <4>2. S # {} /\ request.ids = Ints(S)
        BY <3>2, <3>3, <4>1, IdsReceived DEF FoundIn, IsList
      <4>3. IntsIn(ListOf(request.ids)) = S /\ Len(request.ids.items) = Cardinality(S)
        BY <3>3, <4>1, <4>2, IdsFinite, ListOfInts DEF ListOf
      <4> HIDE DEF rows
      <4>4. rows = Received(Catalogue(S))
        BY <4>3 DEF rows
      <4> DEFINE K == Kept(rows.items)
      <4>5. /\ {row.fields["id"].n : row \in K} = IF request.kind = "products" THEN S \cap Active ELSE S
            /\ \A row \in K :
                 TaxesOf(row) = (SaleTaxes[row.fields["id"].n] \cup PurchaseTaxes[row.fields["id"].n]) \cap taxes
        BY <3>1, <3>2, <4>1, <4>4, RowsKept
      <4> HIDE DEF K
      <4>6. /\ request'.rows = K /\ request'.ids = request.ids /\ request'.kind = request.kind
            /\ request'.at = IF request.kind = "products" THEN "taxes" ELSE "sapira"
        BY <4>1, <1>a DEF K
      <4>7. Listed' = {row.fields["id"].n : row \in K}
        BY <4>6 DEF Listed
      <4>8. AllTaxIds' = UNION {TaxesOf(row) : row \in K}
        BY <4>6 DEF AllTaxIds, TaxesOf, TaxIds
      <4>9. AllTaxIds' \subseteq Taxes
        BY <1>a, <4>5, <4>8
      <4>10. \A r \in Listed' : (SaleTaxes[r] \cup PurchaseTaxes[r]) \cap taxes \subseteq AllTaxIds'
        <5> SUFFICES ASSUME NEW row \in K
                     PROVE  (SaleTaxes[row.fields["id"].n] \cup PurchaseTaxes[row.fields["id"].n]) \cap taxes
                              \subseteq AllTaxIds'
          BY <4>7
        <5>1. TaxesOf(row) \subseteq AllTaxIds'
          BY <4>8
        <5> QED BY <4>5, <5>1
      <4>11. request.kind = "companies" => Listed' = Companies
        BY <3>3, <4>5, <4>7
      <4>12. request.kind = "products" => stayed \subseteq Listed' \/ Len(request.ids.items) = ProductLimit
        BY <1>a, <3>2, <4>3, <4>5, <4>7 DEF FoundIn
      <4>13. RowsRight'
        BY <2>0, <4>6, <4>9, <4>10, <4>11, <4>12 DEF RowsRight
      <4> QED BY <2>0, <2>1, <4>6, <4>13 DEF CatalogueInv
    <3> QED BY <3>4, <3>5
  <2>7. CASE GetTaxDetails
    <3>1. PICK details : AfterTaxes(details) /\
            \/ details = AllTaxIds \cap taxes /\ UNCHANGED outages
            \/ ~(AllTaxIds \subseteq taxes) /\ details = {} /\ UNCHANGED outages
            \/ details = {} /\ outages' = outages + 1
      <4>1. \/ AfterTaxes(AllTaxIds \cap taxes) /\ UNCHANGED outages
            \/ ~(AllTaxIds \subseteq taxes) /\ AfterTaxes({}) /\ UNCHANGED outages
            \/ AfterTaxes({}) /\ outages' = outages + 1
        BY <2>7 DEF GetTaxDetails, Outage
      <4>2. CASE AfterTaxes(AllTaxIds \cap taxes) /\ UNCHANGED outages
        <5> DEFINE D == AllTaxIds \cap taxes
        <5>1. D = AllTaxIds \cap taxes /\ AfterTaxes(D)
          BY <4>2
        <5> HIDE DEF D
        <5> QED BY <4>2, <5>1
      <4> QED BY <4>1, <4>2
    <3>2. /\ request'.details = details /\ request'.kind = request.kind /\ request'.ids = request.ids
          /\ request'.rows = request.rows
          /\ request'.at = IF request.kind = "products" THEN "sapira" ELSE "done"
      BY <3>1, <1>a DEF AfterTaxes
    <3>3. request.at = "taxes" /\ RowsRight
      BY <2>7, <3>2 DEF GetTaxDetails, CatalogueInv
    <3>4. RowsRight'
      BY <2>0, <3>2, <3>3, <1>c
    <3>5. Listed' = Listed /\ \A r : DetailsOf(r)' = (SaleTaxes[r] \cup PurchaseTaxes[r]) \cap details
      BY <3>2, ListsKept DEF DetailsOf
    <3>6. DetailsRight'
      <4>1. CASE details = AllTaxIds \cap taxes
        <5>1. \A r \in Listed : (SaleTaxes[r] \cup PurchaseTaxes[r]) \cap taxes
                                  \subseteq (SaleTaxes[r] \cup PurchaseTaxes[r]) \cap details
          BY <3>3, <4>1 DEF RowsRight
        <5> QED BY <2>0, <3>5, <5>1 DEF DetailsRight
      <4>2. CASE ~(AllTaxIds \subseteq taxes) /\ details = {}
        <5>1. "tax deleted" \in Happened
          BY <2>1, <3>2, <3>3, <4>2 DEF RowsRight
        <5> QED BY <2>0, <3>2, <4>2, <5>1 DEF DetailsRight
      <4>3. CASE details = {} /\ outages' = outages + 1
        <5>1. outages' > 0
          BY <1>a, <4>3
        <5> QED BY <3>2, <4>3, <5>1 DEF DetailsRight
      <4> QED BY <3>1, <4>1, <4>2, <4>3
    <3> QED BY <2>0, <2>1, <3>2, <3>4, <3>6 DEF CatalogueInv
  <2>8. CASE GetSapiraCompanies
    <3>1. /\ request.kind = "companies" /\ request.at = "sapira"
          /\ request'.kind = request.kind /\ request'.ids = request.ids /\ request'.rows = request.rows
          /\ request'.at = "taxes"
      BY <2>8, <1>a DEF GetSapiraCompanies, GetSapira
    <3>2. RowsRight'
      BY <2>0, <3>1, <1>c DEF CatalogueInv
    <3> QED BY <2>0, <2>1, <3>1, <3>2 DEF CatalogueInv
  <2>9. CASE GetSapiraProducts
    <3>1. /\ request.kind = "products" /\ request.at = "sapira"
          /\ request'.kind = request.kind /\ request'.ids = request.ids /\ request'.rows = request.rows
          /\ request'.details = request.details /\ request'.at = "done"
          /\ UNCHANGED outages \/ outages' = outages + 1
      BY <2>9, <1>a DEF GetSapiraProducts, GetSapira, Outage
    <3>2. RowsRight'
      BY <2>0, <3>1, <1>c DEF CatalogueInv
    <3>3. DetailsRight
      BY <3>1 DEF CatalogueInv
    <3>4. outages' >= outages /\ outages' \in Nat
      BY <3>1, <1>a
    <3>5. DetailsRight'
      BY <2>0, <3>1, <3>3, <3>4, <1>d
    <3> QED BY <2>0, <2>1, <3>1, <3>2, <3>5 DEF CatalogueInv
  <2>10. CASE CountLines \/ CountInvoices \/ FindInvoices \/ CountPartners \/ CountBare \/ FindBare \/ ReadNames
    <3>1. request'.kind = request.kind /\ request.kind = "count"
      BY <2>10, <1>a DEF CountLines, CountInvoices, FindInvoices, CountPartners, CountBare, FindBare, ReadNames
    <3> QED BY <3>1
  <2>11. ~PostOrReverse /\ ~ChangeProduct /\ ~DeleteTax
    <3>1. ASSUME NEW e \in EventsSeen, events' = Append(events, e) PROVE events' # events
      BY <3>1 DEF ReadsType
    <3>2. PostOrReverse => \E e \in EventsSeen : events' = Append(events, e)
      BY DEF PostOrReverse, Happens, EventsSeen
    <3>3. ChangeProduct => \E e \in EventsSeen : events' = Append(events, e)
      BY DEF ChangeProduct, Happens, EventsSeen
    <3>4. DeleteTax => \E e \in EventsSeen : events' = Append(events, e)
      BY DEF DeleteTax, Happens, EventsSeen
    <3> QED BY <1>2, <3>1, <3>2, <3>3, <3>4
  <2> QED
    <3>1. CASE UNCHANGED readVars
      BY <1>1, <3>1
    <3>2. CASE ReadsNext
      BY <3>2, <2>2, <2>3, <2>4, <2>5, <2>6, <2>7, <2>8, <2>9, <2>10, <2>11 DEF ReadsNext
    <3> QED BY <3>1, <3>2
<1>3. CASE PostOrReverse
  BY <1>3, <1>a DEF PostOrReverse
<1>4. CASE ChangeProduct \/ DeleteTax
  <2>1. PICK e \in EventsSeen : events' = Append(events, e) /\ (DeleteTax => e = "tax deleted")
    BY <1>4 DEF ChangeProduct, DeleteTax, Happens, EventsSeen
  <2>2. Happened' = Happened \cup {e}
    BY <2>1, Happening
  <2>3. /\ UNCHANGED <<request, outages>> /\ stayed' \subseteq stayed /\ taxes' \subseteq taxes
        /\ taxes' = taxes \/ e = "tax deleted"
    BY <1>4, <2>1 DEF ChangeProduct, DeleteTax
  <2>4. \A S : FoundIn(S) => FoundIn(S)'
    BY <2>3, <1>b
  <2>5. RowsRight => RowsRight'
    BY <2>3, <1>c
  <2>6. ASSUME DetailsRight PROVE DetailsRight'
    <3>1. /\ request'.kind = request.kind /\ request'.rows = request.rows /\ request'.details = request.details
          /\ taxes' \subseteq taxes
      BY <2>3
    <3>0. outages' = outages
      BY <2>3
    <3>2. outages' >= outages /\ outages' \in Nat
      BY <3>0, <1>a
    <3>3. Happened \subseteq Happened'
      BY <2>2
    <3> QED BY <2>6, <3>1, <3>2, <3>3, <1>d
  <2> QED BY <2>2, <2>3, <2>4, <2>5, <2>6 DEF CatalogueInv
<1> QED
  BY <1>1, <1>2, <1>3, <1>4 DEF ReadsNext, Authenticate, MethodCall, CallFails, SearchCatalogue, ReadCatalogue,
     GetTaxDetails, GetSapiraCompanies, GetSapiraProducts, GetSapira, CountLines, CountInvoices,
     FindInvoices, CountPartners, CountBare, FindBare, ReadNames
-----------------------------------------------------------------------------
LEMMA ReadsInduction == ReadsSpec => []ReadsInv
<1>1. ReadsInit => ReadsInv
  BY TypeStart, CountStart, CatalogueStart DEF ReadsInv
<1>2. ReadsInv /\ [ReadsNext]_readVars => ReadsInv'
  BY TypeStep, CountStep, CatalogueStep DEF ReadsInv
<1> QED BY <1>1, <1>2, PTL DEF ReadsSpec

(* Whatever Odoo, its users and its failing calls do meanwhile, the state  *)
(* keeps its shape, and what is listed as active ever since is active.     *)
THEOREM ReadsTypesCorrect == ReadsSpec => []ReadsType
<1>1. ReadsInv => ReadsType
  BY DEF ReadsInv
<1> QED BY <1>1, ReadsInduction, PTL

(* countRecords: with no invoice reversed meanwhile, each of its numbers   *)
(* lies between what was right when it began and when it ended, and the    *)
(* names are those of invoices without a product line, one for each.       *)
THEOREM CountsBounded == ReadsSpec => []CountsAgree
<1>1. ReadsInv => CountsAgree
  <2> SUFFICES ASSUME ReadsInv, request.kind = "count", request.at = "done", "reversed" \notin Happened
               PROVE  LET Partners(S) == {PartnerOf[i] : i \in S}
                      IN  /\ Between(request.lines, LineCount(before), LineCount(posted))
                          /\ Between(request.invoices, Cardinality(before), Cardinality(posted))
                          /\ Between(request.partners,
                                     IF request.invoices = 0 THEN 0 ELSE Cardinality(Partners(before)),
                                     Cardinality(Partners(posted) \cup {CommercialOf[i] : i \in posted}))
                          /\ Between(Len(request.names), request.bare, Cardinality(Bare(posted)))
                          /\ \A n \in DOMAIN request.names :
                               \E i \in Bare(posted) : request.names[n] = NameShown(Typed(Text(NameOf[i])))
    BY DEF CountsAgree
  <2>1. LinesRight /\ InvoicesRight /\ PartnersRight /\ NamesRight
    BY DEF ReadsInv, CountInv, CountSoFar
  <2> QED BY <2>1 DEF LinesRight, InvoicesRight, PartnersRight, NamesRight, PartnersOf, MayCopy, ShownName
<1> QED BY <1>1, ReadsInduction, PTL

(* getCompanies and getProducts: a list of products has all that stayed    *)
(* active, up to its limit, and of the taxes of what is listed either all  *)
(* details that exist or none, after a tax was deleted or a call failed.   *)
THEOREM CataloguesComplete == ReadsSpec => []ListsComplete
<1>1. ReadsInv => ListsComplete
  <2> SUFFICES ASSUME ReadsInv, request.kind \in {"products", "companies"}, request.at = "done"
               PROVE  RowsRight /\ DetailsRight
    BY DEF ListsComplete, RowsRight, DetailsRight
  <2> QED BY DEF ReadsInv, CatalogueInv
<1> QED BY <1>1, ReadsInduction, PTL
=============================================================================
