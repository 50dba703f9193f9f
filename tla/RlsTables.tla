----------------------------- MODULE RlsTables -----------------------------
(***************************************************************************)
(* The tables for which row-level security is configured and the policies  *)
(* of each, in their order: what the constructor of GenericRLSService and  *)
(* RLSConfigurations.getAllConfigurations make of it.  A policy is its     *)
(* name, its command and whether it is for all users; the expressions are  *)
(* left out, and so are the indexes, which the registered configurations   *)
(* do not have.                                                            *)
(***************************************************************************)
EXTENDS Integers, Sequences

Policy(name, command, everyone) == [name |-> name, command |-> command, everyone |-> everyone]

(* createHoldingBasedConfig and createUserBasedConfig.                     *)
HoldingBased(more) ==
  <<Policy("view", "SELECT", TRUE), Policy("create", "INSERT", TRUE),
    Policy("update", "UPDATE", TRUE)>> \o more

UserBased(more) == <<Policy("access own", "ALL", TRUE)>> \o more

(* The tables GenericRLSService knows by itself, in their order ...        *)
TableConfigs == <<
  [table |-> "integration_logs",
   policies |-> <<Policy("view in holding", "SELECT", TRUE), Policy("create in holding", "INSERT", TRUE),
                  Policy("update in holding", "UPDATE", TRUE)>>],
  [table |-> "user_profiles",
   policies |-> <<Policy("view own", "SELECT", TRUE), Policy("update own", "UPDATE", TRUE)>>],
  [table |-> "company_data", policies |-> <<Policy("access in holding", "ALL", TRUE)>>] >>

(* ... and those that RLSConfigurations registers.                         *)
IntegrationLogsConfig ==
  [table |-> "integration_logs", policies |-> HoldingBased(<<Policy("service", "ALL", FALSE)>>)]

UserProfilesConfig == [table |-> "user_profiles", policies |-> UserBased(<<>>)]

OdooInvoicesConfig ==
  [table |-> "odoo_invoices", policies |-> HoldingBased(<<Policy("by connection", "SELECT", TRUE)>>)]

CompanyHoldingsConfig ==
  [table |-> "company_holdings",
   policies |-> <<Policy("view assigned", "SELECT", TRUE), Policy("admins insert", "INSERT", TRUE),
                  Policy("admins update", "UPDATE", TRUE)>>]

AuditLogsConfig ==
  [table |-> "audit_logs",
   policies |-> <<Policy("view", "SELECT", TRUE), Policy("service creates", "INSERT", FALSE)>>]

WorkspaceMembersConfig ==
  [table |-> "workspace_members",
   policies |-> <<Policy("view", "SELECT", TRUE), Policy("owners manage", "ALL", TRUE)>>]

AllConfigurations ==
  <<IntegrationLogsConfig, UserProfilesConfig, OdooInvoicesConfig, CompanyHoldingsConfig,
    AuditLogsConfig, WorkspaceMembersConfig>>

(* registerTableConfig: a table that is known keeps its place.             *)
KnownAt(configs, t) == {i \in DOMAIN configs : configs[i].table = t}

RegisterTableConfig(configs, c) ==
  IF KnownAt(configs, c.table) = {} THEN Append(configs, c)
  ELSE [i \in DOMAIN configs |-> IF configs[i].table = c.table THEN c ELSE configs[i]]

RegisterAll ==
  LET f[n \in 0 .. Len(AllConfigurations)] ==
        IF n = 0 THEN TableConfigs ELSE RegisterTableConfig(f[n - 1], AllConfigurations[n])
  IN  f[Len(AllConfigurations)]

TableOrder == [i \in DOMAIN RegisterAll |-> RegisterAll[i].table]

PoliciesEach ==
  [t \in {TableOrder[i] : i \in DOMAIN TableOrder} |->
    RegisterAll[CHOOSE i \in DOMAIN RegisterAll : TableOrder[i] = t].policies]
=============================================================================
