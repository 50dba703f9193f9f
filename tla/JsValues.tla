------------------------------ MODULE JsValues ------------------------------
(***************************************************************************)
(* Values of JavaScript as XmlRpcClientHelper hands them over: records with*)
(* their kind; numbers are integers.                                       *)
(***************************************************************************)
EXTENDS Integers, Sequences, SequencesExt

CONSTANT ParsedAs   \* the texts the parser changes, with what they become

Nil == [is |-> "nil"]
Number(n) == [is |-> "int", n |-> n]
Bool(b) == [is |-> "bool", b |-> b]
Text(s) == [is |-> "text", s |-> s]
Array(items) == [is |-> "array", items |-> items]
Object(fields) == [is |-> "object", fields |-> fields]

Empty == Text("")

IsList(v) == v.is = "array"

Truthy(v) == v \notin {Nil, Empty, Number(0), Bool(FALSE)}

(* The parser: a text is trimmed and, if it looks like one, a number or a  *)
(* truth value.                                                            *)
Typed(text) == IF text.is = "text" /\ text.s \in DOMAIN ParsedAs THEN ParsedAs[text.s] ELSE text

(* What stands where one or several elements of a tag may be.              *)
ListOf(v) == IF IsList(v) THEN v.items ELSE <<v>>
=============================================================================
