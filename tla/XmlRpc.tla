------------------------------- MODULE XmlRpc -------------------------------
(***************************************************************************)
(* What an answer of Odoo becomes on its way to OdooService: the XML-RPC   *)
(* value that the server writes, the XML parser of the library, and the    *)
(* extraction by XmlRpcClientHelper, which gets no types but the tags that *)
(* the parser left.  Requests are written by the same rules.               *)
(***************************************************************************)
EXTENDS JsValues

Simple == {"nil", "int", "bool", "text"}

(* An element of XML: a tag with a text, or with elements.                 *)
Leaf(tag, text) == [tag |-> tag, text |-> text, kids |-> <<>>]
Node(tag, kids) == [tag |-> tag, text |-> Empty, kids |-> kids]
-----------------------------------------------------------------------------
RECURSIVE ValueToXml(_)

Member(name, value) == Node("member", <<Leaf("name", Text(name)), ValueToXml(value)>>)

Members(fields) ==
  LET names == SetToSeq(DOMAIN fields)
  IN  [i \in DOMAIN names |-> Member(names[i], fields[names[i]])]

(* valueToXml, and how Odoo marshals what it answers.                      *)
ValueToXml(v) ==
  Node("value", <<
    CASE v.is = "nil"    -> Leaf("nil", Empty)
      [] v.is = "text"   -> Leaf("string", v)
      [] v.is = "int"    -> Leaf("int", v)
      [] v.is = "bool"   -> Leaf("boolean", Number(IF v.b THEN 1 ELSE 0))
      [] v.is = "array"  -> Node("array", <<Node("data", [i \in DOMAIN v.items |-> ValueToXml(v.items[i])])>>)
      [] v.is = "object" -> Node("struct", Members(v.fields)) >>)

RECURSIVE Parsed(_)

(* The parser: an element without content is an empty text; elements of one*)
(* tag are an array only if there are several.                             *)
Parsed(e) ==
  IF e.kids = <<>> THEN Typed(e.text)
  ELSE Object([tag \in {e.kids[i].tag : i \in DOMAIN e.kids} |->
                LET same == SelectSeq(e.kids, LAMBDA k : k.tag = tag)
                IN  IF Len(same) = 1 THEN Parsed(same[1])
                    ELSE Array([i \in DOMAIN same |-> Parsed(same[i])])])
-----------------------------------------------------------------------------
Has(v, field) == v.is = "object" /\ field \in DOMAIN v.fields

HasTruthy(v, field) == Has(v, field) /\ Truthy(v.fields[field])

MutMembersOf(struct) == IF IsList(struct.fields["member"]) THEN struct.fields["member"].items ELSE <<>>
MembersOf(struct) == ListOf(struct.fields["member"])

RECURSIVE ExtractXmlValue(_)

Extracted(items) == [i \in DOMAIN items |-> ExtractXmlValue(items[i])]

ExtractedMembers(members) ==
  LET named == {m \in ToSet(members) : HasTruthy(m, "name") /\ Has(m, "value")}
      NameIn(m) == m.fields["name"].s
  IN  Object([n \in {NameIn(m) : m \in named} |->
               ExtractXmlValue((CHOOSE m \in named : NameIn(m) = n).fields["value"])])

(* extractXmlValue: the tags are asked for in this order. *)
ExtractXmlValue(v) ==
  IF v.is \in Simple THEN v
  ELSE IF Has(v, "int") THEN v.fields["int"]
  ELSE IF Has(v, "string") THEN v.fields["string"]
  ELSE IF Has(v, "boolean") THEN Bool(v.fields["boolean"] = Number(1))
  ELSE IF Has(v, "nil") THEN Nil
  ELSE IF Has(v, "array") /\ HasTruthy(v.fields["array"], "data")
       THEN LET data == v.fields["array"].fields["data"]
            IN  Array(IF HasTruthy(data, "value") THEN Extracted(ListOf(data.fields["value"])) ELSE <<>>)
  ELSE IF Has(v, "struct") /\ HasTruthy(v.fields["struct"], "member")
       THEN ExtractedMembers(MembersOf(v.fields["struct"]))
  ELSE IF v.is = "array" THEN Array(Extracted(v.items))
  ELSE Object([f \in DOMAIN v.fields |-> ExtractXmlValue(v.fields[f])])

(* What methodCall returns when Odoo answers v. *)
Decoded(v) == ExtractXmlValue(Parsed(ValueToXml(v)))
-----------------------------------------------------------------------------
Only(field, v) == Object([f \in {field} |-> v])

RECURSIVE Seen(_)

(* What a reader of an answer has to expect: everything as it was sent, but*)
(* the texts that the parser changes, and empty arrays and structs, which  *)
(* become objects with the name of a tag.                                  *)
Seen(v) ==
  CASE v.is = "text" -> Typed(v)
    [] v.is = "array" -> IF v.items = <<>> THEN Only("array", Only("data", Empty))
                         ELSE Array([i \in DOMAIN v.items |-> Seen(v.items[i])])
    [] v.is = "object" -> IF DOMAIN v.fields = {} THEN Only("struct", Empty)
                          ELSE Object([f \in DOMAIN v.fields |-> Seen(v.fields[f])])
    [] OTHER -> v
=============================================================================
