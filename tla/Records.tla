------------------------------- MODULE Records -------------------------------
(* The parts that share no state with any other, PinStore, AuditTrail and   *)
(* OdooReads, side by side: a behaviour is one of each.  The parts that may *)
(* act are chosen, so that a model checker need not look at all at once.    *)
EXTENDS PinStore, AuditTrail, OdooReads

CONSTANT Parts  \* the parts looked at

VARIABLE part

(* The parts that are not chosen have one initial state each.               *)
RecordsInit ==
  /\ PinInit /\ AuditInit /\ ReadsInit /\ part \in Parts
  /\ part # "audit" => \A c \in Calls : stage[c].kind = "none"
  /\ part # "reads" => posted = {} /\ Active = {} /\ request.kind = "call"

PinPart == part = "pins" /\ PinNext /\ UNCHANGED <<auVars, readVars, part>>

AuditPart == part = "audit" /\ AuditNext /\ UNCHANGED <<vars, readVars, part>>

ReadsPart == part = "reads" /\ ReadsNext /\ UNCHANGED <<vars, auVars, part>>

RecordsSpec ==
  RecordsInit /\ [][PinPart \/ AuditPart \/ ReadsPart]_<<vars, auVars, readVars, part>>

(* The type invariants of the parts that keep records. *)
RecordsTypeOK == PinTypeOK /\ AuditTypeOK
=============================================================================
