------------------------------- MODULE Command -------------------------------
(***************************************************************************)
(* One run of the program from its arguments to its exit code              *)
(* (src/internal/cli): arguments are parsed, the policy is resolved, the   *)
(* packages are loaded, the plan is run, and what it found is compared     *)
(* with a baseline, written to one, printed, or counted.  An exit code of  *)
(* 0 is what a build goes on after, so the questions are what a 0 may      *)
(* leave unsaid and what a 1 or a 2 is due to.                             *)
(*                                                                         *)
(* The world is what the run finds: the tree of configuration files, the   *)
(* loader, the smells of the sources, and whether standard output takes    *)
(* what is written.  A smell is what a check reports of typed code, and    *)
(* its fingerprint; one that is there without types only is left out.      *)
(* The edits of a world and the overlap of runs are in other modules.      *)
(***************************************************************************)
EXTENDS WorkspaceLoad

CONSTANTS
  Worlds, Calls,     \* what a run may find, and be asked
  BaselineStates,    \* [BaselinePaths -> documents] to start with
  BaselinePaths,
  Nothing

\* A smell of a test stands in a variant of its package that has the tests,
\* any other one in the package proper.  Of what a conservative check reports,
\* some takes types (typed): all of concrete-dependency (dip.go:358-409), and of
\* mixed-import-clusters and high-fan-out-type (srp_metrics.go:45-47).
ASSUME WorldsAssumption ==
  \A w \in Worlds :
    /\ \A smell \in w.smells, p \in w.loader.packages :
         p.path = smell.package =>
           \E q \in w.loader.packages :
             q.path = p.path /\ q.dir = p.dir /\ (q.forTest <=> smell.inTest)
    /\ \A smell \in w.smells :
         smell.typed => CheckByID[smell.check].syntax = "conservative"
    /\ NoFile \notin DOMAIN w.tree /\ Ambiguous \notin DOMAIN w.tree
ASSUME CallsAssumption ==
  \A c \in Calls : \A t \in c.targets : ConfigSearchStart(t) \in Dirs

BaselineCommands == {"init", "diff", "update", "prune"}
Commands == {"check", "stats", "validate", "explain"} \cup BaselineCommands
Unreadable == [readable |-> FALSE, accepted |-> {}, expired |-> {}]
Entries(document) == document.accepted \cup document.expired

VARIABLES
  world, call,
  pc,         \* "parse", "resolved", "loaded", "analysed", "written", "accepted", "done"
  policy, loaded, issues,
  documents,  \* the baseline files
  stdout,     \* what was printed as the result
  stderr,     \* packages a warning was printed for, or WholeRun
  exit

vars == <<world, call, pc, policy, loaded, issues, documents, stdout, stderr, exit>>
inputs == <<world, call>>
results == <<policy, loaded, issues>>
output == <<documents, stdout, stderr>>

\* A reader that went away is no error; the text format notices none at all.
Silence == [kind |-> "none", issues |-> {}]
Prints(kind, found) ==
  stdout' = IF world.pipe = "open" THEN [kind |-> kind, issues |-> found] ELSE Silence
WriteFailed == world.pipe = "full" /\ call.format # "text"

Init ==
  /\ world \in Worlds /\ call \in Calls
  /\ documents \in BaselineStates
  /\ pc = "parse"
  /\ policy = Nothing /\ loaded = Nothing /\ issues = {}
  /\ stdout = Silence /\ stderr = {} /\ exit = Nothing

Goto(place) == pc' = place /\ exit' = exit
Exit(code) == pc' = "done" /\ exit' = code
Stop(code) == Exit(code) /\ UNCHANGED <<inputs, results, output>>

(***************************************************************************)
(* Arguments.                                                              *)
(***************************************************************************)
Analyses == call.command \in {"check", "stats"} \cup BaselineCommands

ArgumentsRefused ==
  \/ call.usage # "ok" \/ ~ OptionsValid(call)
  \/ call.command = "stats" /\ call.format = "sarif"
  \/ call.command \in BaselineCommands /\ call.baseline = NoFile

RefuseArguments ==
  /\ pc = "parse" /\ Analyses /\ ArgumentsRefused
  /\ Stop(IF call.usage = "help" /\ call.command \in {"check", "stats"} THEN 0 ELSE 2)

ShowVersion ==
  /\ pc = "parse" /\ call.command = "check" /\ ~ ArgumentsRefused /\ call.version
  /\ Exit(0) /\ Prints("version", {})
  /\ UNCHANGED <<inputs, results, documents, stderr>>

ValidateConfig ==  \* runConfigCommand
  /\ pc = "parse" /\ call.command = "validate"
  /\ LET path == IF call.config # NoFile THEN call.config ELSE DefaultConfigPath(world.tree)
     IN IF Loads(world.tree, path)
        THEN Exit(0) /\ Prints("valid", {}) ELSE Exit(2) /\ stdout' = stdout
  /\ UNCHANGED <<inputs, results, documents, stderr>>

ExplainCheck ==  \* runChecksCommand; no check named: the list of all
  /\ pc = "parse" /\ call.command = "explain"
  /\ IF call.format # "sarif" /\ call.check \in CheckIDs \cup {Unset}
     THEN Prints("checks", {}) /\ Exit(IF WriteFailed THEN 2 ELSE 0)
     ELSE stdout' = stdout /\ Exit(2)
  /\ UNCHANGED <<inputs, results, documents, stderr>>

(***************************************************************************)
(* Policy.                                                                 *)
(***************************************************************************)
ConfigPath ==
  IF call.config # NoFile THEN call.config
  ELSE FindConfigForTargets(world.tree, call.targets)
ConfigDocument ==
  IF ConfigPath \in DOMAIN world.tree THEN world.tree[ConfigPath] ELSE EmptyConfig
ConfigRefused ==
  \/ ConfigPath # NoFile /\ ~ Loads(world.tree, ConfigPath)
  \/ PolicyRefused(call, ConfigDocument)

Resolves ==
  pc = "parse" /\ Analyses /\ ~ ArgumentsRefused
  /\ ~ (call.command = "check" /\ call.version)

RefusePolicy == Resolves /\ ConfigRefused /\ Stop(2)

ResolvePolicy ==
  /\ Resolves /\ ~ ConfigRefused
  /\ policy' = Policy(call, ConfigDocument, ConfigPath)
  /\ Goto("resolved")
  /\ UNCHANGED <<inputs, loaded, issues, output>>

PrintsConfig == call.command = "check" /\ call.printConfig

PrintConfig ==
  /\ pc = "resolved" /\ PrintsConfig
  /\ Prints("config", {}) /\ Exit(IF world.pipe = "full" THEN 2 ELSE 0)
  /\ UNCHANGED <<inputs, results, documents, stderr>>

(***************************************************************************)
(* Analysis.                                                               *)
(***************************************************************************)
Load ==
  /\ pc = "resolved" /\ ~ PrintsConfig
  /\ loaded' = LoadWorkspace(world.loader, call.targets, call.tests, call.mode, policy.checks)
  /\ IF loaded'.ok THEN Goto("loaded") ELSE Exit(2)
  /\ UNCHANGED <<inputs, policy, issues, output>>

\* ValidateSuppressions, or two findings with one name in FinalizeIssues.
RefuseSources == pc = "loaded" /\ world.refused /\ Stop(2)

NeedsTypes(smell) == CheckByID[smell.check].syntax = "unavailable" \/ smell.typed

Found(smell) ==  \* RunPlan, with its file policy and its filter on the mode
  \E p \in loaded.packages :
    /\ p.path = smell.package
    /\ smell.check \in policy.checks /\ smell.file \notin policy.excludes
    /\ NeedsTypes(smell) => p.complete
    /\ smell.inTest => p.forTest

WarnsOfLoad == call.command = "check"

Analyse ==
  /\ pc = "loaded" /\ ~ world.refused
  /\ issues' = {smell \in world.smells : Found(smell)}
  /\ stderr' = IF WarnsOfLoad THEN loaded.warnings ELSE {}
  /\ Goto("analysed")
  /\ UNCHANGED <<inputs, policy, loaded, documents, stdout>>

(***************************************************************************)
(* Baseline documents, as far as a run depends on them.                    *)
(***************************************************************************)
NeedsReason(document) ==  \* Prune passes no annotation on
  issues \ Entries(document) # {} /\ (call.command = "prune" \/ ~ call.reason)

Updated(document, prune) ==
  LET gone == IF prune THEN Entries(document) \ issues ELSE {}
  IN [readable |-> TRUE, expired |-> document.expired \ gone,
      accepted |-> (document.accepted \cup (issues \ Entries(document))) \ gone]

Empty == [readable |-> TRUE, accepted |-> {}, expired |-> {}]

Put(path, document) == documents' = [documents EXCEPT ![path] = document]

(***************************************************************************)
(* check: applyLegacyBaselineOptions and the report.                       *)
(***************************************************************************)
Checking(place) == pc = place /\ call.command = "check"

WriteBaseline ==
  /\ Checking("analysed") /\ call.writeBaseline # NoFile
  /\ IF NeedsReason(Empty) THEN Exit(2) /\ UNCHANGED documents
     ELSE Goto("written") /\ Put(call.writeBaseline, Updated(Empty, TRUE))
  /\ UNCHANGED <<inputs, results, stdout, stderr>>

Accepting == Checking("written") \/ (Checking("analysed") /\ call.writeBaseline = NoFile)
Baseline == documents[call.baseline]

RefuseBaseline ==
  /\ Accepting /\ call.baseline # NoFile /\ ~ Baseline.readable /\ Stop(2)

RejectedDebt ==
  \/ call.onExpired = "error" /\ Baseline.expired # {}
  \/ call.onStale = "error" /\ Baseline.accepted \ issues # {}

RejectBaseline ==
  /\ Accepting /\ call.baseline # NoFile /\ Baseline.readable /\ RejectedDebt
  /\ Stop(1)

Accept ==
  /\ Accepting
  /\ call.baseline # NoFile => Baseline.readable /\ ~ RejectedDebt
  /\ issues' = IF call.baseline = NoFile THEN issues ELSE issues \ Baseline.accepted
  /\ Goto("accepted")
  /\ UNCHANGED <<inputs, policy, loaded, output>>

HasSeverityAtLeast(found, level) ==
  \E i \in found : Rank[SeverityOf(policy, i)] >= Rank[level]

Report ==
  /\ Checking("accepted")
  /\ Prints("report", issues)
  /\ Exit(IF WriteFailed THEN 2
          ELSE IF call.fail /\ HasSeverityAtLeast(issues, policy.failLevel) THEN 1 ELSE 0)
  /\ UNCHANGED <<inputs, results, documents, stderr>>

(***************************************************************************)
(* stats and the baseline commands: the warnings of the load are dropped.  *)
(***************************************************************************)
Stats ==
  /\ pc = "analysed" /\ call.command = "stats"
  /\ Prints("stats", {}) /\ Exit(IF WriteFailed THEN 2 ELSE 0)
  /\ UNCHANGED <<inputs, results, documents, stderr>>

Base == IF call.command = "init" THEN Empty ELSE Baseline
Prune == call.command \in {"init", "prune"} \/ call.prune
Changed == (issues \ Entries(Base)) \cup (Entries(Base) \ issues)

MaintainBaseline ==
  /\ pc = "analysed" /\ call.command \in BaselineCommands
  /\ IF ~ Base.readable \/ (call.command # "diff" /\ NeedsReason(Base))
     THEN Stop(2)
     ELSE /\ IF call.command = "diff" THEN UNCHANGED documents
             ELSE Put(call.baseline, Updated(Base, Prune))
          /\ Prints("diff", Changed)
          /\ Exit(IF WriteFailed THEN 2
                  ELSE IF call.command = "diff" /\ Changed # {} THEN 1 ELSE 0)
          /\ UNCHANGED <<inputs, results, stderr>>

Ended == pc = "done" /\ UNCHANGED vars

Next ==
  \/ RefuseArguments \/ ShowVersion \/ ValidateConfig \/ ExplainCheck
  \/ RefusePolicy \/ ResolvePolicy \/ PrintConfig
  \/ Load \/ RefuseSources \/ Analyse
  \/ WriteBaseline \/ RefuseBaseline \/ RejectBaseline \/ Accept \/ Report
  \/ Stats \/ MaintainBaseline
  \/ Ended

Spec == Init /\ [][Next]_vars

(***************************************************************************)
(* Properties.                                                             *)
(***************************************************************************)
FailLevelAsked ==
  CASE call.failLevel # Unset -> call.failLevel
    [] call.failLevel = Unset /\ ConfigDocument.failLevel # Unset -> ConfigDocument.failLevel
    [] OTHER -> "warning"
Failing(i) == Rank[SeverityOf(policy, i)] >= Rank[FailLevelAsked]
Asked(smell) ==
  /\ smell.check \in policy.checks
  /\ \E p \in world.loader.packages : p.path = smell.package /\ Matches(call.targets, p)
  /\ smell.inTest => call.tests

\* A check that prints its report and exits with 0 (run.go, commands.go:57)
\* has found every smell that fails it, in whatever package a target names,
\* unless the smell is in an excluded file, is debt of the baseline that has
\* not expired, or takes types that were not asked for, or that a warning
\* says are missing.  Among the last are smells of checks that are selected
\* and listed as supported without types, conservative: in syntax mode
\* nothing tells that concrete-dependency, mixed-import-clusters and
\* high-fan-out-type look at nothing.
PassHidesNothing ==
  pc = "done" /\ exit = 0 /\ stdout.kind = "report" /\ call.fail =>
    \A smell \in world.smells : Asked(smell) /\ Failing(smell) =>
      \/ smell.file \in policy.excludes
      \/ call.baseline # NoFile /\ smell \in documents[call.baseline].accepted
      \/ /\ NeedsTypes(smell)
         /\ call.mode = "syntax" \/ stderr \cap {smell.package, WholeRun} # {}

\* A report comes with exit code 1 exactly when it holds a finding of the
\* fail level that the flag, the file or the default set, in this order; an
\* exit code of 1 without a report is due to a baseline that has rejected
\* entries, or a diff that shows a change.
ExitTellsTheReport ==
  pc = "done" /\ world.pipe = "open" =>
    /\ stdout.kind = "report" =>
         (exit = 1 <=> call.fail /\ \E i \in stdout.issues : Failing(i))
    /\ exit = 1 /\ stdout.kind # "report" =>
         \/ stdout.kind = "diff" /\ stdout.issues # {}
         \/ /\ call.command = "check" /\ call.baseline # NoFile
            /\ \/ call.onExpired = "error" /\ Baseline.expired # {}
               \/ call.onStale = "error" /\ ~ Baseline.accepted \subseteq issues

\* Without -config every target lies under the directory of the file the run
\* uses, with no other file in between, or under no file at all
\* (FindConfigForTargets, control.go:94): no target is analysed under the
\* policy of another.
OneScopeForAllTargets ==
  policy # Nothing /\ call.config = NoFile =>
    \A target \in call.targets :
      LET above == {path \in DOMAIN world.tree :
                      path[1] \in Above(ConfigSearchStart(target)) /\ path[2] \in ConfigFileNames}
      IN IF policy.configFile = NoFile THEN above = {}
         ELSE /\ policy.configFile \in above
              /\ \A path \in above \ {policy.configFile} :
                   policy.configFile[1] \in Below(path[1]) \ {path[1]}

\* The modes keep what they promise (workspace.go:26-28): in types mode every
\* package is completely typed or the run is refused; auto mode loads
\* whatever syntax mode loads.
ModesKeepTheirPromise ==
  loaded # Nothing =>
    /\ call.mode = "types" /\ loaded.ok => \A p \in loaded.packages : p.complete
    /\ call.mode = "auto" =>
         LET bare == LoadOnce(world.loader, call.targets, call.tests, SyntaxOnly)
             names(load) == {<<p.path, p.forTest>> : p \in load.packages}
         IN bare.ok => loaded.ok /\ names(loaded) = names(bare)

=============================================================================
