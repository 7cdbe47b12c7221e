----------------------------- MODULE Selection ------------------------------
(***************************************************************************)
(* Which checks a run selects and how it schedules them                    *)
(* (src/internal/analyzer/registry.go:241-274 and plan.go): the settings   *)
(* resolve to a set of checks or to an error, checks that share a runner   *)
(* form a group, the runner of a group is run once and what it reports for *)
(* checks that are not selected is dropped.  All of it is a function of    *)
(* the settings and of the registry; nothing here has state.               *)
(***************************************************************************)
EXTENDS Naturals, Sequences, FiniteSets

CONSTANT Registry  \* sequence of the registered checks, in registry order

Profiles == {"stable", "all", "calibration"}
Surfaces == {"cli", "plugin"}

RegistryRows == {Registry[i] : i \in DOMAIN Registry}
CheckIDs == {row.id : row \in RegistryRows}
CheckByID == [id \in CheckIDs |-> CHOOSE row \in RegistryRows : row.id = id]
Families == {row.rule : row \in RegistryRows}

\* Every check supports the command line, a group has one scope, and one of
\* its checks holds the runner.
ASSUME RegistryAssumption ==
  /\ Registry \in Seq(RegistryRows)
  /\ \A r, q \in RegistryRows :
       /\ r.id = q.id => r = q
       /\ r.group = q.group => r.scope = q.scope
  /\ \A r \in RegistryRows :
       /\ r.scope \in {"package", "program"}
       /\ r.syntax \in {"equivalent", "conservative", "unavailable"}
       /\ "cli" \in r.surfaces /\ r.surfaces \subseteq Surfaces
       /\ r.stable \in BOOLEAN /\ r.calibration \in BOOLEAN
       /\ r.runner \in BOOLEAN
       /\ \E q \in RegistryRows : q.group = r.group /\ q.runner
  /\ CheckIDs \cap Families = {}

(***************************************************************************)
(* ResolveCheckSelection.  An empty set of rules selects every family.     *)
(***************************************************************************)
SelectionRefused(s) ==
  \/ s.profile \notin Profiles
  \/ ~ (s.enabledChecks \cup s.disabledChecks \subseteq CheckIDs)
  \/ s.enabledChecks \cap s.disabledChecks # {}

InProfile(id, profile) ==
  \/ profile = "all"
  \/ profile = "stable" /\ CheckByID[id].stable
  \/ profile = "calibration" /\ CheckByID[id].calibration

ResolveCheckSelection(s) ==
  {id \in CheckIDs :
     /\ InProfile(id, s.profile) \/ id \in s.enabledChecks
     /\ s.enabledRules = {} \/ CheckByID[id].rule \in s.enabledRules
     /\ id \notin s.disabledChecks}

(***************************************************************************)
(* NewExecutionPlan: the selection on one surface, grouped by runner.      *)
(***************************************************************************)
PlanChecks(s) ==
  {id \in ResolveCheckSelection(s) : s.surface \in CheckByID[id].surfaces}

PlanGroups(s) ==
  {[name |-> CheckByID[id].group, scope |-> CheckByID[id].scope,
    checks |-> {c \in PlanChecks(s) : CheckByID[c].group = CheckByID[id].group}] :
     id \in PlanChecks(s)}

RunnerOfSelectedCheck(group) ==  \* fault: the runner is sought among the selected
  {id \in group.checks : CheckByID[id].runner}

\* The check that holds the runner need not be selected itself.
RunnerForGroup(group) ==
  {id \in CheckIDs :
     /\ CheckByID[id].group = group.name
     /\ CheckByID[id].scope = group.scope
     /\ CheckByID[id].runner}

(***************************************************************************)
(* filterGroupIssues: the runner of a group may report for any of its      *)
(* checks, selected or not.  Findings are records with a field check.      *)
(***************************************************************************)
FilterGroupIssues(issues, group) == {i \in issues : i.check \in group.checks}

GroupIssues(issues, group) ==
  IF RunnerForGroup(group) = {} THEN {}
  ELSE FilterGroupIssues({i \in issues : CheckByID[i.check].group = group.name},
                         group)

=============================================================================
