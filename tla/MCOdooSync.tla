----------------------------- MODULE MCOdooSync -----------------------------
(* Instances of OdooSync for TLC.  Invoices are numbered as in Odoo; which  *)
(* partners they name and which lines they have is fixed here.              *)
EXTENDS OdooSync, TLC

CONSTANTS p1, p2, l1, l2

(* Each invoice names its own partner and has one line. *)
PartnersEach == [i \in Invoices |-> IF i = 1 THEN {p1} ELSE {p2}]
MoveEach == [l \in Lines |-> IF l = l1 THEN 1 ELSE 2]

(* One partner in all invoices but the last, which has none. *)
PartnersOne == [i \in Invoices |-> IF i = 1 THEN {p1} ELSE {}]

(* All lines belong to invoice 1. *)
MoveSame == [l \in Lines |-> 1]

One == {1}
Two == {1, 2}

Symmetry == Permutations(Sessions)
=============================================================================
