---------------------------- MODULE MCOdooDirect ----------------------------
(* Instances of OdooDirect for TLC: one invoice with a line and a partner,  *)
(* and pages of one line.                                                   *)
EXTENDS OdooDirect

CONSTANTS p1

PartnersOne == [i \in Invoices |-> {p1}]
MoveSame == [l \in Lines |-> 1]
One == {1}
FirstPages == {<<0, 1>>, <<1, 1>>}
=============================================================================
