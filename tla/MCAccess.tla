------------------------------ MODULE MCAccess ------------------------------
(* Instances of what decides who may do what, IpLists, Roles and Rls, for  *)
(* TLC: Init chooses a part, and a behaviour is one of it.                 *)
EXTENDS Access, RlsTables, TLC

CONSTANTS t1, t2, t3, m1, m2, m3, x, y, ra, rb, rc, sa, sb

Alike == Permutations(Admins)

TermsSeen == {NotGiven, Null, 1}

(* What three requests are about that meet in permissions and roles.       *)
About(p, q, r) == (t1 :> p) @@ (t2 :> q) @@ (t3 :> r)

TasksSeen ==
  {About("show", "show", "show"),
   About("delete permission", "update role", "show"),
   About("delete permission", "edit space role", "delete space role"),
   About("delete permission", "create role", "show"),
   About("update role", "edit space role", "show"),
   About("create space role", "delete space role", "delete space"),
   About("create permission", "create permission", "update permission"),
   About("delete permission", "update permission", "update permissions")}

(* The second has an id that is not used at the start.                     *)
BodiesSeen == {{m1}, {m2, m3}}

PermsTwo == (m1 :> x) @@ (m2 :> y) @@ (m3 :> NoPerm)
RolesTwo == (ra :> {m1}) @@ (rb :> {m1, m2}) @@ (rc :> NoRole)
ListedTwo == (sa :> {ra}) @@ (sb :> {ra})

(* A database that lacks a table, and tables that are asked for alone.     *)
MostTables == Tables \ {"company_data"}
TargetsSeen == {All, "company_data", "integration_logs"}
=============================================================================
