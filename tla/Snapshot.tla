------------------------------ MODULE Snapshot ------------------------------
(***************************************************************************)
(* The file policy of a run (src/internal/analyzer/workspace.go:321-594):  *)
(* generated and excluded files leave the packages, and the packages that  *)
(* lost excluded files, with everything that imports them, are             *)
(* type-checked again, depth first, each check asking for the packages it  *)
(* imports while it runs.  Either every rebuilt snapshot is kept or none.  *)
(*                                                                         *)
(* The files of a package are the kinds it has; a declaration is the kind  *)
(* of file it stands in.  A type snapshot (info and typePkg) is told by    *)
(* whether the load made it or the rebuild did, for a package is rebuilt   *)
(* from its remaining files only.  Go has no import cycles, so the guard   *)
(* against them (workspace.go:545) has no step here.                       *)
(***************************************************************************)
EXTENDS Sequences, FiniteSets, Naturals

CONSTANTS
  Packages,   \* package paths the run loads
  Imports,    \* [Packages -> SUBSET Packages], typeImports of the load
  Projects    \* what the packages may hold, see ProjectType

Kinds == {"handwritten", "generated", "excluded"}

ProjectType ==
  [files : [Packages -> (SUBSET Kinds) \ {{}}],
   uses : [Packages -> SUBSET Packages],            \* of the files that remain
   needs : [Packages -> SUBSET (Packages \X Kinds)],\* and what these refer to
   broken : SUBSET Packages]                        \* have errors of their own

ASSUME ImportsAssumption ==
  /\ Imports \in [Packages -> SUBSET Packages]
  /\ \A S \in SUBSET Packages : S # {} => \E p \in S : Imports[p] \cap S = {}
ASSUME ProjectsAssumption ==
  /\ Projects \subseteq ProjectType
  /\ \A j \in Projects, p \in Packages :
       /\ j.uses[p] \subseteq Imports[p]
       /\ \A n \in j.needs[p] :
            n[1] \in j.uses[p] \cup {p} /\ n[2] \in j.files[n[1]]

VARIABLES
  project,    \* the files, which do not change
  phase,      \* "loaded", "rebuilding", "done"
  typePkg,    \* per package: "none", "loaded" or "rebuilt"
  sees,       \* per package: the snapshots of the imports it was checked with
  complete,   \* per package: typeComplete
  stack,      \* the packages under re-check, innermost last
  state,      \* filteredSnapshotBuilder.state: 0, 1 under check, 2 done
  rebuilds,   \* per package: filteredRebuilds
  warned      \* packages with a filteredTypeErr that the run reports

vars == <<project, phase, typePkg, sees, complete, stack, state, rebuilds,
          warned>>

NoSnapshots == [q \in {} |-> "loaded"]

(***************************************************************************)
(* The load: a package with an error below it is incomplete.               *)
(***************************************************************************)
Reach == [among \in SUBSET Packages |-> [p \in Packages |->
            {q \in Packages :
               \A S \in SUBSET Packages :
                 /\ p \in S
                 /\ \A s \in S : Imports[s] \cap among \subseteq S
                 => q \in S}]]
LoadedComplete(p) == Reach[Packages][p] \cap project.broken = {}
LoadedSees(p) == [q \in Imports[p] |-> "loaded"]

Init ==
  /\ project \in Projects
  /\ phase = "loaded"
  /\ typePkg = [p \in Packages |-> "loaded"]
  /\ sees = [p \in Packages |-> LoadedSees(p)]
  /\ complete = [p \in Packages |-> LoadedComplete(p)]
  /\ stack = <<>>
  /\ state = [p \in Packages |-> 0]
  /\ rebuilds = [p \in Packages |-> 0]
  /\ warned = {}

(***************************************************************************)
(* applyFilePolicy and typeRebuildTargets.  A package whose files are all  *)
(* removed leaves the run, and its loaded snapshot stays behind it.        *)
(***************************************************************************)
Kept == {p \in Packages : "handwritten" \in project.files[p]}
LostExcluded == {p \in Kept : "excluded" \in project.files[p]}

TargetsWithoutImporters == LostExcluded    \* fault: importers keep the load's
Targets ==
  {p \in Kept : Reach[Kept][p] \cap LostExcluded # {}}

ApplyFilePolicy ==
  /\ phase = "loaded"
  /\ phase' = IF LostExcluded = {} THEN "done" ELSE "rebuilding"
  /\ UNCHANGED <<project, typePkg, sees, complete, stack, state, rebuilds,
                 warned>>

(***************************************************************************)
(* filteredSnapshotBuilder.rebuild.  A package the load left incomplete    *)
(* is not checked again.  A complete one imports complete ones only, so    *)
(* the importer never meets one that is not.                               *)
(***************************************************************************)
Waiting(p) == p \in Targets /\ state[p] = 0 /\ complete[p]
Begin(p) ==
  /\ state' = [state EXCEPT ![p] = 1]
  /\ rebuilds' = [rebuilds EXCEPT ![p] = @ + 1]
  /\ stack' = Append(stack, p)
  /\ sees' = [sees EXCEPT ![p] = NoSnapshots]
  /\ UNCHANGED <<project, phase, typePkg, complete, warned>>
Top == stack[Len(stack)]
Unresolved == IF stack = <<>> THEN {}
              ELSE project.uses[Top] \ DOMAIN sees[Top]

(* The loop over the targets.                                              *)
StartRebuild(p) ==
  /\ phase = "rebuilding" /\ stack = <<>>
  /\ Waiting(p)
  /\ Begin(p)

DropIncomplete(p) ==
  /\ phase = "rebuilding" /\ stack = <<>>
  /\ p \in Targets /\ state[p] = 0 /\ ~complete[p] /\ typePkg[p] # "none"
  /\ typePkg' = [typePkg EXCEPT ![p] = "none"]
  /\ UNCHANGED <<project, phase, sees, complete, stack, state, rebuilds,
                 warned>>

RebuildAgain(q) ==               \* fault: state 2 is not looked at
  /\ q \in Unresolved \cap Targets
  /\ Begin(q)

(* The check of Top asks for q, which has to be rebuilt first.             *)
RebuildImport(q) ==
  /\ q \in Unresolved
  /\ Waiting(q)
  /\ Begin(q)

SnapshotOf(q) == IF q \in Targets THEN "rebuilt" ELSE "loaded"
ResolveImport(q) ==
  /\ q \in Unresolved
  /\ q \in Targets => state[q] = 2
  /\ sees' = [sees EXCEPT ![Top] =
                [r \in DOMAIN @ \cup {q} |->
                   IF r = q THEN SnapshotOf(q) ELSE @[r]]]
  /\ UNCHANGED <<project, phase, typePkg, complete, stack, state, rebuilds,
                 warned>>

(* What a snapshot declares, and every snapshot that p's refers to.        *)
Declares(q, made) == IF made = "loaded" THEN project.files[q]
                                        ELSE {"handwritten"}
Snapshots == Packages \X {"loaded", "rebuilt"}
Refers(q, made) ==
  IF made = "loaded" THEN {<<r, "loaded">> : r \in Imports[q]}
                     ELSE {<<r, sees[q][r]>> : r \in DOMAIN sees[q]}
SeenFrom(p) ==
  {n \in Snapshots :
     \A S \in SUBSET Snapshots :
       /\ \A r \in DOMAIN sees[p] : <<r, sees[p][r]>> \in S
       /\ \A m \in S : Refers(m[1], m[2]) \subseteq S
       => n \in S}
OneOfEach(S) == \A q \in Packages : ~({<<q, "loaded">>, <<q, "rebuilt">>} \subseteq S)

(* The check ends.  When p meets two snapshots of one package, it depends  *)
(* on what passes between them whether that is an error.                   *)
FindsItsNames(p) ==
  \A n \in project.needs[p] :
    n[2] \in IF n[1] = p THEN {"handwritten"} ELSE Declares(n[1], sees[p][n[1]])
FinishRebuild ==
  /\ stack # <<>> /\ Unresolved = {}
  /\ typePkg' = [typePkg EXCEPT ![Top] = "rebuilt"]
  /\ \E ok \in BOOLEAN :
       /\ ok => FindsItsNames(Top)
       /\ FindsItsNames(Top) /\ OneOfEach(SeenFrom(Top)) => ok
       /\ complete' = [complete EXCEPT ![Top] = ok]
  /\ state' = [state EXCEPT ![Top] = 2]
  /\ stack' = SubSeq(stack, 1, Len(stack) - 1)
  /\ UNCHANGED <<project, phase, sees, rebuilds, warned>>

(* The outcome, once rebuild was called for every target.                  *)
Tried == /\ phase = "rebuilding" /\ stack = <<>>
         /\ \A p \in Targets : typePkg[p] # "loaded"
Failed == {p \in Targets : LoadedComplete(p) /\ ~complete[p]}

KeepRebuilt ==
  /\ Tried /\ Failed = {}
  /\ phase' = "done"
  /\ UNCHANGED <<project, typePkg, sees, complete, stack, state, rebuilds,
                 warned>>

RollBackFailed ==               \* fault: only the failed ones are restored
  /\ Tried /\ Failed # {}
  /\ phase' = "done"
  /\ typePkg' = [p \in Packages |-> IF p \in Failed THEN "loaded" ELSE typePkg[p]]
  /\ sees' = [p \in Packages |-> IF p \in Failed THEN LoadedSees(p) ELSE sees[p]]
  /\ complete' = [p \in Packages |-> p \in Failed \/ complete[p]]
  /\ warned' = Failed
  /\ UNCHANGED <<project, stack, state, rebuilds>>

RollBackSilently ==             \* fault: filteredTypeErr is reset for all
  /\ Tried /\ Failed # {}
  /\ phase' = "done"
  /\ typePkg' = [p \in Packages |-> "loaded"]
  /\ sees' = [p \in Packages |-> LoadedSees(p)]
  /\ complete' = [p \in Packages |-> LoadedComplete(p)]
  /\ UNCHANGED <<project, stack, state, rebuilds, warned>>

WarnOnly ==                     \* fault: nothing is restored
  /\ Tried /\ Failed # {}
  /\ phase' = "done"
  /\ warned' = Failed
  /\ UNCHANGED <<project, typePkg, sees, complete, stack, state, rebuilds>>

(* Every target returns to the load's snapshot, and one package is told    *)
(* why: the first, in load order, that lost a file, or the first at all.   *)
RollBack ==
  /\ Tried /\ Failed # {}
  /\ phase' = "done"
  /\ typePkg' = [p \in Packages |-> IF p \in Targets THEN "loaded" ELSE typePkg[p]]
  /\ sees' = [p \in Packages |-> IF p \in Targets THEN LoadedSees(p) ELSE sees[p]]
  /\ complete' = [p \in Packages |->
                    IF p \in Targets THEN LoadedComplete(p) ELSE complete[p]]
  /\ \E p \in Failed :
       /\ Failed \cap LostExcluded # {} => p \in LostExcluded
       /\ warned' = {p}
  /\ UNCHANGED <<project, stack, state, rebuilds>>

Settled == phase = "done" /\ UNCHANGED vars

Next ==
  \/ ApplyFilePolicy
  \/ \E p \in Packages :
       \/ StartRebuild(p) \/ DropIncomplete(p)
       \/ RebuildImport(p) \/ ResolveImport(p)
  \/ FinishRebuild
  \/ KeepRebuilt \/ RollBack
  \/ Settled

Spec == Init /\ [][Next]_vars

-----------------------------------------------------------------------------
(* The packages whose types the checks rely on, and all they refer to.     *)
Trusted == {p \in Kept : complete[p]}
View(p) == SeenFrom(p) \cup {<<p, typePkg[p]>>}

(* "type identities still come from one graph" (workspace.go:435-437): no  *)
(* two packages, and no two routes from one, lead to different snapshots   *)
(* of a package, whichever rebuilds fail.                                  *)
OneTypeGraph ==
  phase = "done" => OneOfEach(UNION {View(p) : p \in Trusted})

(* An exclusion never costs a package its typed checks (README.md:306-309; *)
(* rollback in workspace.go:474-482).                                      *)
TypedChecksKept ==
  phase = "done" => \A p \in Kept : complete[p] = LoadedComplete(p)

(* Declarations of excluded files are gone from the types, of importers    *)
(* too, or the run warns (README.md:304-309).                              *)
ExcludedGoneOrWarned ==
  phase = "done" /\ warned = {} =>
    \A p \in Trusted : \A n \in View(p) : "excluded" \notin Declares(n[1], n[2])

(* However many packages import it, a package is checked again at most     *)
(* once, and only if it lost a file or reaches one that did.               *)
RebuiltOnce ==
  \A p \in Packages :
    rebuilds[p] <= IF Reach[Packages][p] \cap LostExcluded # {} THEN 1 ELSE 0

(* Declarations of generated files stay in the types (README.md:309-312).  *)
GeneratedStaysTyped ==
  phase = "done" =>
    \A p \in Trusted :
      "generated" \in project.files[p] =>
        "generated" \in Declares(p, typePkg[p])
=============================================================================
