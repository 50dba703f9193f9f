------------------------------- MODULE Access -------------------------------
(* What decides who may do what, IpLists, Roles and Rls, side by side: they *)
(* share no state, and a behaviour is one of each.  The parts that may act  *)
(* are chosen, so that a model checker need not look at all at once.        *)
EXTENDS IpLists, Roles, Rls

CONSTANT Parts  \* the parts looked at

VARIABLE part

(* The parts that are not chosen have one initial state each.              *)
AccessInit ==
  /\ IpInit /\ RoleInit /\ RlsInit /\ part \in Parts
  /\ part # "roles" => \A c \in RoleCalls : task[c].kind = "show"
  /\ part # "policies" => applied = {}

IpPart == part = "addresses" /\ IpNext /\ UNCHANGED <<roleVars, rlsVars, part>>

RolePart == part = "roles" /\ RoleNext /\ UNCHANGED <<ipVars, rlsVars, part>>

RlsPart == part = "policies" /\ RlsNext /\ UNCHANGED <<ipVars, roleVars, part>>

AccessSpec ==
  AccessInit /\ [][IpPart \/ RolePart \/ RlsPart]_<<ipVars, roleVars, rlsVars, part>>

(* The type invariants of the three parts. *)
AccessTypeOK == IpTypeOK /\ RoleTypeOK /\ RlsTypeOK
=============================================================================
