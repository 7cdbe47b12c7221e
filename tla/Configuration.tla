---------------------------- MODULE Configuration ----------------------------
(***************************************************************************)
(* Which policy a command runs under (src/internal/analyzer/control.go,    *)
(* control_yaml.go and thresholds.go, src/internal/cli/policy.go): the     *)
(* configuration file is the one next above the targets, its values are    *)
(* validated, flags override it, and what is left must resolve to a        *)
(* selection of checks.  A tree of files is a function from paths, a       *)
(* directory and a name, to decoded documents.  The lists of naming        *)
(* conventions and the wording and line of an error are left out.          *)
(***************************************************************************)
EXTENDS Selection, TLC

CONSTANTS
  Dirs, Parent,      \* directories; the root is its own parent
  WorkingDir,
  Keys,              \* of thresholds
  Minimum, Maximum,  \* [Keys -> Nat]
  Defaults,          \* [Keys -> Nat], of DefaultConfig
  NoFile, Ambiguous, Unset

Severities == {"note", "warning", "error"}
Rank == [note |-> 1, warning |-> 2, error |-> 3]
ConfigFileNames == {".solidlint.yml", ".solidify.yml"}
NoSettings == <<>>  \* a function without keys

\* There is no way up and back: the only circle is a root's on itself.
ASSUME DirsAssumption ==
  /\ WorkingDir \in Dirs
  /\ Parent \in [Dirs -> Dirs]
  /\ \A some \in (SUBSET Dirs) \ {{}} : \E d \in some : Parent[d] = d \/ Parent[d] \notin some
  /\ NoFile # Ambiguous
ASSUME ThresholdsAssumption ==
  /\ Minimum \in [Keys -> Nat] /\ Maximum \in [Keys -> Nat]
  /\ \A k \in Keys : Minimum[k] <= Defaults[k] /\ Defaults[k] <= Maximum[k]

(***************************************************************************)
(* Discovery.  A target names a directory, as itself, through one of its   *)
(* files or through a ... pattern; a blank target is the working directory.*)
(***************************************************************************)
ConfigSearchStart(target) == IF target.form = "blank" THEN WorkingDir ELSE target.dir

\* A directory and the directories it is in, and those a directory holds.
Above(dir) ==
  {d \in Dirs : \A some \in SUBSET Dirs :
                  dir \in some /\ (\A e \in some : Parent[e] \in some) => d \in some}
Below(dir) == {d \in Dirs : dir \in Above(d)}

ConfigFileInDir(tree, dir) ==
  LET found == {path \in DOMAIN tree : path[1] = dir /\ path[2] \in ConfigFileNames}
  IN CASE found = {} -> NoFile
       [] \E path \in found : found = {path} -> CHOOSE path \in found : TRUE
       [] OTHER -> Ambiguous
Configured(tree, dir) == ConfigFileInDir(tree, dir) # NoFile

\* The walk up from start visits the parent of a directory without a file.
Visited(tree, start) ==
  {d \in Dirs : \A some \in SUBSET Dirs :
                  /\ start \in some
                  /\ \A e \in some : Configured(tree, e) \/ Parent[e] \in some
                  => d \in some}

FindConfig(tree, start) ==
  LET ends == {d \in Visited(tree, start) : Configured(tree, d)}
  IN IF ends = {} THEN NoFile ELSE ConfigFileInDir(tree, CHOOSE d \in ends : TRUE)

UnconfiguredFollow(tree, targets) ==  \* fault: a target without one goes along
  LET found == {FindConfig(tree, ConfigSearchStart(t)) : t \in targets} \ {NoFile}
  IN IF found = {} THEN NoFile
     ELSE IF \E path, other \in found : path # other THEN Ambiguous
     ELSE CHOOSE path \in found : TRUE

\* Targets with different files, or some with and some without, are refused.
FindConfigForTargets(tree, targets) ==
  LET found == {FindConfig(tree, ConfigSearchStart(t)) : t \in targets}
  IN IF \E path, other \in found : path # other THEN Ambiguous
     ELSE CHOOSE path \in found : TRUE

\* `config validate` without a path looks in the working directory alone.
DefaultConfigPath(tree) ==
  LET here == ConfigFileInDir(tree, WorkingDir)
  IN IF here = NoFile THEN <<WorkingDir, ".solidify.yml">> ELSE here

(***************************************************************************)
(* LoadFileConfig.  decodes is FALSE for a file with an unknown field, with *)
(* a second document, with no document, or one that cannot be read.        *)
(***************************************************************************)
EmptyConfig ==
  [decodes |-> TRUE, profile |-> Unset, rules |-> {}, enabledChecks |-> {},
   disabledChecks |-> {}, excludes |-> {}, badExclude |-> FALSE,
   failLevel |-> Unset, severity |-> NoSettings, thresholds |-> NoSettings]

ValidThreshold(key, value) ==
  key \in Keys /\ Minimum[key] <= value /\ value <= Maximum[key]

IsKnownCheckID(id) == id \in CheckIDs \cup Families

ValidConfig(raw) ==
  /\ raw.decodes
  /\ raw.profile \in Profiles \cup {Unset}
  /\ raw.rules \subseteq Families
  /\ ~ raw.badExclude
  /\ \A id \in raw.enabledChecks \cup raw.disabledChecks : IsKnownCheckID(id)
  /\ raw.enabledChecks \cap raw.disabledChecks = {}
  /\ raw.failLevel \in Severities \cup {Unset}
  /\ \A id \in DOMAIN raw.severity :
       IsKnownCheckID(id) /\ raw.severity[id] \in Severities
  /\ \A k \in DOMAIN raw.thresholds : ValidThreshold(k, raw.thresholds[k])

Loads(tree, path) == path \in DOMAIN tree /\ ValidConfig(tree[path])

(***************************************************************************)
(* Options.  A flag that was not given is Unset, an absent key, or NoFile. *)
(***************************************************************************)
OptionsValid(o) ==
  /\ o.format \in {"text", "json", "sarif"} /\ o.mode \in {"auto", "syntax", "types"}
  /\ o.profile \in Profiles \cup {Unset}
  /\ o.failLevel \in Severities \cup {Unset}
  /\ DOMAIN o.dedicated \cap DOMAIN o.thresholds = {}  \* thresholdFlagConflict

FileBeatsFlag(option, fileValue, default) ==  \* fault: the other precedence
  IF fileValue # Unset THEN fileValue ELSE IF option # Unset THEN option ELSE default

Given(option, fileValue, default) ==
  IF option # Unset THEN option ELSE IF fileValue # Unset THEN fileValue ELSE default

(***************************************************************************)
(* resolveCheckPolicy: the defaults, over them the file, over it the flags.*)
(***************************************************************************)
Applied(file) ==  \* FileConfig.Apply
  [profile |-> Given(Unset, file.profile, "stable"),
   enabledChecks |-> file.enabledChecks, disabledChecks |-> file.disabledChecks,
   thresholds |-> file.thresholds @@ Defaults]

Overridden(cfg, o) ==  \* applyCheckOverrides
  [cfg EXCEPT !.thresholds = o.dedicated @@ @,
              !.profile = Given(o.profile, @, "stable"),
              !.enabledChecks = IF o.enabledChecks # Unset THEN o.enabledChecks ELSE @]

WithThresholds(cfg, o) == [cfg EXCEPT !.thresholds = o.thresholds @@ @]

ConfigOf(o, file) == WithThresholds(Overridden(Applied(file), o), o)

InvalidConfig(cfg) ==  \* ValidateConfig
  \E k \in DOMAIN cfg.thresholds : ~ ValidThreshold(k, cfg.thresholds[k])

RulesOf(o, file) ==
  IF o.rules # Unset THEN o.rules ELSE IF file.rules # {} THEN file.rules ELSE Families

RulesRefused(rules) == rules = {} \/ ~ rules \subseteq Families  \* parseRules

SettingsOf(o, file) ==
  LET cfg == ConfigOf(o, file)
  IN [profile |-> cfg.profile, enabledRules |-> RulesOf(o, file),
      enabledChecks |-> cfg.enabledChecks, disabledChecks |-> cfg.disabledChecks,
      mode |-> o.mode, surface |-> "cli"]

PolicyRefused(o, file) ==
  \/ InvalidConfig(ConfigOf(o, file))
  \/ RulesRefused(RulesOf(o, file))
  \/ SelectionRefused(SettingsOf(o, file))

Policy(o, file, path) ==
  [configFile |-> path, settings |-> SettingsOf(o, file),
   checks |-> PlanChecks(SettingsOf(o, file)),
   thresholds |-> ConfigOf(o, file).thresholds,
   failLevel |-> Given(o.failLevel, file.failLevel, "warning"),
   excludes |-> file.excludes, severity |-> file.severity]

\* ApplySeverity: an override of the check comes before one of its family.
SeverityOf(policy, issue) ==
  LET family == CheckByID[issue.check].rule
  IN IF issue.check \in DOMAIN policy.severity THEN policy.severity[issue.check]
     ELSE IF family \in DOMAIN policy.severity THEN policy.severity[family]
     ELSE issue.severity

=============================================================================
