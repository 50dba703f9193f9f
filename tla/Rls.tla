-------------------------------- MODULE Rls --------------------------------
(***************************************************************************)
(* The script that applies the row-level security of PostgreSQL: the       *)
(* statements that GenericRLSService sends for the tables it has           *)
(* configured, one after the other and each a transaction of its own.      *)
(* Deployments may run it at the same time, a statement may fail, and the  *)
(* script may be killed.  The configuration itself is module RlsTables.    *)
(***************************************************************************)
EXTENDS Integers, Sequences

CONSTANTS
  Configured,  \* the tables that are configured, in their order
  PoliciesOf,  \* per table, the sequence of its policies
  RlsRuns,     \* runs of the script
  Targets,     \* the tables a run may be asked for, All for all of them
  All,
  DbTables,    \* the tables the database has
  MaxBreaks    \* bound on failing statements and kills, for model checking

Tables == {Configured[i] : i \in DOMAIN Configured}

Policies == [name : STRING, command : {"ALL", "SELECT", "INSERT", "UPDATE"}, everyone : BOOLEAN]

Steps(t) == DOMAIN PoliciesOf[t]

NameAt(t, i) == PoliciesOf[t][i].name

ASSUME RlsAssumption ==
  /\ Configured \in Seq(Tables) /\ Configured # <<>>
  /\ \A i, j \in DOMAIN Configured : Configured[i] = Configured[j] => i = j
  /\ \A t \in Tables : PoliciesOf[t] \in Seq(Policies) /\ PoliciesOf[t] # <<>>
  /\ Targets \subseteq Tables \cup {All} /\ All \notin Tables
  /\ DbTables \subseteq Tables /\ MaxBreaks \in Nat

VARIABLES
  enabled,    \* per table, whether row-level security is on
  policies,   \* per table, its policies
  script,     \* per run, its target, the tables it has left and where it is
  applied,    \* history: tables a run went through without an error
  broken,     \* history: per table, the policies that a run was at when it failed
  breaks      \* failing statements and kills so far

rlsVars == <<enabled, policies, script, applied, broken, breaks>>

ScriptState ==
  [at : {"ready", "enable", "drop", "create", "ok", "error", "killed"},
   target : Tables \cup {All}, left : Seq(Tables), next : Nat]

(* The type invariant. *)
RlsTypeOK ==
  /\ enabled \in [Tables -> BOOLEAN]
  /\ policies \in [Tables -> SUBSET Policies]
  /\ script \in [RlsRuns -> ScriptState]
  /\ \A r \in RlsRuns :
       /\ script[r].at \in {"enable", "drop", "create"} => script[r].left # <<>>
       /\ script[r].at \in {"drop", "create"} => script[r].next \in Steps(script[r].left[1])
  /\ applied \subseteq Tables /\ broken \in [Tables -> SUBSET STRING]
  /\ breaks \in 0 .. MaxBreaks
-----------------------------------------------------------------------------
(* A table has its policies from an earlier run, or none.                  *)
RlsInit ==
  /\ \E done \in {{}, DbTables} :
       /\ enabled = [t \in Tables |-> t \in done]
       /\ policies = [t \in Tables |-> IF t \in done THEN {PoliciesOf[t][i] : i \in Steps(t)} ELSE {}]
       /\ applied = done
  /\ script = [r \in RlsRuns |-> [at |-> "ready", target |-> All, left |-> <<>>, next |-> 1]]
  /\ broken = [t \in Tables |-> {}] /\ breaks = 0

(* applyRLSPolicies: of the table it is told, or of all.                   *)
StartScript(r) ==
  /\ script[r].at = "ready"
  /\ \E t \in Targets :
       script' = [script EXCEPT ![r].at = "enable", ![r].target = t,
                                ![r].left = IF t # All THEN <<t>> ELSE Configured]
  /\ UNCHANGED <<enabled, policies, applied, broken, breaks>>

TableOf(r) == script[r].left[1]

PolicyOf(r) == PoliciesOf[TableOf(r)][script[r].next]

(* The table is done: applyAllTablePolicies goes on with the next one.     *)
NextTable(r) ==
  script' = [script EXCEPT ![r].at = IF Tail(script[r].left) # <<>> THEN "enable" ELSE "ok",
                           ![r].left = Tail(@), ![r].next = 1]

(* An error ends the script if it was told the table, but otherwise only   *)
(* the table.                                                              *)
TableFails(r) ==
  IF script[r].target = All THEN NextTable(r) ELSE script' = [script EXCEPT ![r].at = "error"]

Break == breaks < MaxBreaks /\ breaks' = breaks + 1

(* A statement that the database answers with an error.                    *)
Refusal(r) == TableFails(r) /\ UNCHANGED <<applied, broken, breaks>>

(* One that fails otherwise, with or without effect.                       *)
Outage(r) == Break /\ TableFails(r) /\ UNCHANGED applied

AtPolicy(r) == broken' = [broken EXCEPT ![TableOf(r)] = @ \cup {PolicyOf(r).name}]

Advance(r, at, next) ==
  /\ script' = [script EXCEPT ![r].at = at, ![r].next = next]
  /\ UNCHANGED <<applied, broken, breaks>>

(* enableRLS, which all configurations say.                                *)
EnableRls(r) ==
  LET t == TableOf(r)  on == [enabled EXCEPT ![t] = TRUE]
  IN  /\ script[r].at = "enable"
      /\ \/ t \notin DbTables /\ Refusal(r) /\ UNCHANGED enabled
         \/ t \in DbTables /\ Advance(r, "drop", 1) /\ enabled' = on
         \/ t \in DbTables /\ Outage(r) /\ enabled' \in {enabled, on} /\ UNCHANGED broken
      /\ UNCHANGED policies

MutDropped(t, p) == {}
(* DROP POLICY IF EXISTS.                                                  *)
Dropped(t, p) == {q \in policies[t] : q.name # p.name}

DropPolicy(r) ==
  LET without == [policies EXCEPT ![TableOf(r)] = Dropped(TableOf(r), PolicyOf(r))]
  IN  /\ script[r].at = "drop"
      /\ \/ Advance(r, "create", script[r].next) /\ policies' = without
         \/ Outage(r) /\ AtPolicy(r) /\ policies' \in {policies, without}
      /\ UNCHANGED enabled

(* CREATE POLICY, which fails if another run has just created it.          *)
CreatePolicy(r) ==
  LET t == TableOf(r)  p == PolicyOf(r)
      with == [policies EXCEPT ![t] = @ \cup {p}]
      there == \E q \in policies[t] : q.name = p.name
      last == script[r].next = Len(PoliciesOf[t])
  IN  /\ script[r].at = "create"
      /\ \/ there /\ Refusal(r) /\ UNCHANGED policies
         \/ ~there /\ ~last /\ Advance(r, "drop", script[r].next + 1) /\ policies' = with
         \/ /\ ~there /\ last /\ NextTable(r) /\ policies' = with
            /\ applied' = applied \cup {t} /\ UNCHANGED <<broken, breaks>>
         \/ ~there /\ Outage(r) /\ AtPolicy(r) /\ policies' \in {policies, with}
      /\ UNCHANGED enabled

(* Killed between two statements; after a DROP its policy is not there.    *)
Kill(r) ==
  /\ script[r].at \in {"enable", "drop", "create"}
  /\ Break
  /\ script' = [script EXCEPT ![r].at = "killed"]
  /\ IF script[r].at = "create" THEN AtPolicy(r) ELSE UNCHANGED broken
  /\ UNCHANGED <<enabled, policies, applied>>

RlsNext ==
  \E r \in RlsRuns :
    StartScript(r) \/ EnableRls(r) \/ DropPolicy(r) \/ CreatePolicy(r) \/ Kill(r)

RlsSpec == RlsInit /\ [][RlsNext]_rlsVars
-----------------------------------------------------------------------------
Present(t) == {p.name : p \in policies[t]}

(* The policies of a table that a run has dropped and not yet created.     *)
Creating(t) == {PolicyOf(r).name : r \in {q \in RlsRuns : script[q].at = "create" /\ TableOf(q) = t}}

(* A table that once had all its policies has row-level security on and    *)
(* lacks none but those that some run has just dropped or failed at: none  *)
(* when the runs have ended well, however they ran together, and although  *)
(* one that finds a policy which the other created gives the table up.     *)
PoliciesKept ==
  \A t \in applied :
    /\ enabled[t]
    /\ \A i \in Steps(t) : NameAt(t, i) \in Present(t) \cup Creating(t) \cup broken[t]
=============================================================================
