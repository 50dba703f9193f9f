------------------------------ MODULE MCRecords ------------------------------
(* Instances of PinStore, AuditTrail and OdooReads, with the codec XmlRpc,  *)
(* for TLC: Init chooses a part, and a behaviour is one of it.              *)
EXTENDS Records, XmlRpc, TLC

CONSTANTS
  c1, c2, v1, v2, u1, a, b, z,   \* PinStore
  a1, a2, a3, a4, uu, uv         \* AuditTrail

(* Two creations and a validation about one code, a validation about the    *)
(* other, and a new global PIN.                                             *)
CodesAsked == (c1 :> a) @@ (c2 :> b) @@ (v1 :> a) @@ (v2 :> b) @@ (u1 :> a)

(* What requests of the audit trail are, together, and whose.  The fourth   *)
(* has no user yet.                                                         *)
Requested(p, q, r, s) == (a1 :> p) @@ (a2 :> q) @@ (a3 :> r) @@ (a4 :> s)

MixesSeen ==
  {Requested("none", "none", "none", "none"),
   Requested("login", "login", "login", "none"),
   Requested("login", "login", "purge", "none"),
   Requested("register", "register", "register", "list"),
   Requested("register", "register", "register", "search"),
   Requested("register", "register", "purge", "list"),
   Requested("operation", "purge", "none", "operation")}

Callers == (a1 :> uu) @@ (a2 :> uu) @@ (a3 :> uv) @@ (a4 :> NoUser)
-----------------------------------------------------------------------------
(* A number, one with zeros in front, a truth value and blanks.            *)
TextsChanged ==
  ("12" :> Number(12)) @@ ("007" :> Number(7)) @@ ("true" :> Bool(TRUE)) @@ (" " :> Text(""))

(* Three products with any number of taxes, one company with both.         *)
SaleTaxesOf == (1 :> {7}) @@ (2 :> {7, 8}) @@ (3 :> {}) @@ (5 :> {7})
PurchaseTaxesOf == (1 :> {}) @@ (2 :> {9}) @@ (3 :> {}) @@ (5 :> {9})

(* Three invoices: two without product lines, one of them with a name that *)
(* looks like a number; two of one partner.                                *)
InvoiceEach == [l \in {"l1", "l2"} |-> 1]
PartnerEach == (1 :> 4) @@ (2 :> 4) @@ (3 :> 6)
CommercialEach == (1 :> 4) @@ (2 :> 6) @@ (3 :> 6)
NameEach == (1 :> "INV1") @@ (2 :> "INV2") @@ (3 :> "12")

Atoms == {Nil, Number(0), Number(5), Bool(FALSE), Bool(TRUE), Text(""), Text("a"), Text("12")}

SeqsUpTo2(S) == {<<>>} \cup {<<v>> : v \in S} \cup (S \X S)

Containers(S) ==
  {Array(s) : s \in SeqsUpTo2(S)} \cup UNION {{Object(f) : f \in [D -> S]} : D \in SUBSET {"m", "n"}}

(* All values of depth one, and those of depth two over fewer.             *)
SampleValues == Atoms \cup Containers(Atoms) \cup Containers(Containers({Number(0), Text("12")}))

(* Any answer is read as Seen says: texts are typed, empty arrays and      *)
(* structs are objects, and everything else is what was sent.              *)
AnswersDecoded == Is("call", "done") => request.got = Seen(request.sent)
=============================================================================
