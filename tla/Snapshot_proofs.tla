--------------------------- MODULE Snapshot_proofs ---------------------------
(* The file policy, for any packages, imports and kinds of files: no       *)
(* package loses its typed checks or is checked more than once, and the    *)
(* types come from one graph, without what was excluded or with a warning. *)
(* The argument is that the rebuilt packages refer to rebuilt packages and *)
(* to packages that reach nothing rebuilt, and to no others, at every      *)
(* moment of the depth-first re-check.                                     *)
EXTENDS Snapshot, SequenceTheorems, TLAPS

SnapshotTyped ==
  /\ project \in Projects
  /\ phase \in {"loaded", "rebuilding", "done"}
  /\ typePkg \in [Packages -> {"none", "loaded", "rebuilt"}]
  /\ sees \in [Packages -> UNION {[S -> {"loaded", "rebuilt"}] : S \in SUBSET Packages}]
  /\ complete \in [Packages -> BOOLEAN]
  /\ stack \in Seq(Packages)
  /\ state \in [Packages -> 0..2]
  /\ rebuilds \in [Packages -> Nat]

\* The packages under check are on the stack, once each, and the counters tell
\* whether a package was ever there.
OnceOnStack ==
  /\ phase # "rebuilding" => stack = <<>>
  /\ \A i \in 1..Len(stack) : state[stack[i]] = 1
  /\ \A i, j \in 1..Len(stack) : stack[i] = stack[j] => i = j
Counted ==
  \A p \in Packages :
    /\ state[p] # 0 => p \in Targets /\ LoadedComplete(p)
    /\ rebuilds[p] = IF state[p] = 0 THEN 0 ELSE 1

AsLoaded ==
  \A p \in Packages :
    typePkg[p] = "loaded" /\ sees[p] = LoadedSees(p) /\ complete[p] = LoadedComplete(p)

\* What a package under check, or checked again, has met so far is rebuilt
\* where it had to be.
Meets(p) ==
  \A r \in DOMAIN sees[p] :
    sees[p][r] = SnapshotOf(r) /\ (r \in Targets => state[r] = 2)
Rebuilding ==
  \A p \in Packages :
    /\ state[p] = 0 =>
         /\ sees[p] = LoadedSees(p) /\ complete[p] = LoadedComplete(p)
         /\ \/ typePkg[p] = "loaded"
            \/ typePkg[p] = "none" /\ p \in Targets /\ ~complete[p]
    /\ state[p] = 1 => typePkg[p] = "loaded" /\ complete[p] = LoadedComplete(p)
    /\ state[p] = 2 => typePkg[p] = "rebuilt"
    /\ state[p] # 0 => Meets(p)

RolledBack == AsLoaded /\ (warned = {} => LostExcluded = {})
AllRebuilt ==
  /\ Rebuilding
  /\ \A p \in Targets : typePkg[p] # "loaded"
  /\ Failed = {}

SnapshotInv ==
  /\ SnapshotTyped /\ OnceOnStack /\ Counted
  /\ phase = "loaded" => AsLoaded /\ \A p \in Packages : state[p] = 0
  /\ phase = "rebuilding" => Rebuilding
  /\ phase = "done" => RolledBack \/ AllRebuilt

-----------------------------------------------------------------------------
(***************************************************************************)
(* What is reached along imports.                                          *)
(***************************************************************************)
LEMMA ReachOf ==
  ASSUME NEW among \in SUBSET Packages, NEW p \in Packages
  PROVE  /\ Reach[among][p] \subseteq Packages
         /\ p \in Reach[among][p]
BY DEF Reach

LEMMA ReachGoesOn ==
  ASSUME NEW among \in SUBSET Packages, NEW p \in Packages, NEW q \in Packages,
         q \in Imports[p] \cap among
  PROVE  Reach[among][q] \subseteq Reach[among][p]
<1> SUFFICES ASSUME NEW x \in Reach[among][q], NEW S \in SUBSET Packages,
                    p \in S, \A s \in S : Imports[s] \cap among \subseteq S
             PROVE  x \in S
  BY DEF Reach
<1> QED BY DEF Reach

LEMMA ReachGrows ==
  ASSUME NEW few \in SUBSET Packages, NEW many \in SUBSET Packages,
         few \subseteq many, NEW p \in Packages
  PROVE  Reach[few][p] \subseteq Reach[many][p]
<1> SUFFICES ASSUME NEW x \in Reach[few][p], NEW S \in SUBSET Packages,
                    p \in S, \A s \in S : Imports[s] \cap many \subseteq S
             PROVE  x \in S
  BY DEF Reach
<1>1. \A s \in S : Imports[s] \cap few \subseteq S
  OBVIOUS
<1> QED BY <1>1 DEF Reach

\* What the load read decides which packages are targets.
LEMMA ProjectDecides ==
  ASSUME project' = project
  PROVE  /\ Kept' = Kept /\ LostExcluded' = LostExcluded /\ Targets' = Targets
         /\ \A p \in Packages : LoadedComplete(p)' = LoadedComplete(p)
<1>1. Kept' = Kept
  BY DEF Kept
<1>2. LostExcluded' = LostExcluded
  BY <1>1 DEF LostExcluded
<1>3. Targets' = Targets
  BY <1>1, <1>2 DEF Targets
<1> QED BY <1>1, <1>2, <1>3 DEF LoadedComplete

\* The packages that lost files are targets, and a kept package that imports a
\* target is one.
LEMMA TargetsImportedByTargets ==
  /\ Kept \subseteq Packages /\ LostExcluded \subseteq Targets /\ Targets \subseteq Kept
  /\ \A p \in Kept \ Targets : Imports[p] \cap Targets = {}
<1>1. Kept \subseteq Packages /\ LostExcluded \subseteq Kept /\ Targets \subseteq Kept
  BY DEF Kept, LostExcluded, Targets
<1>2. LostExcluded \subseteq Targets
  BY <1>1, ReachOf DEF Targets
<1>3. ASSUME NEW p \in Kept, NEW q \in Imports[p], q \in Targets
      PROVE  p \in Targets
  <2>1. Reach[Kept][q] \subseteq Reach[Kept][p]
    BY <1>1, <1>3, ReachGoesOn
  <2> QED BY <2>1, <1>3 DEF Targets
<1> QED BY <1>1, <1>2, <1>3

-----------------------------------------------------------------------------
(***************************************************************************)
(* The steps.                                                              *)
(***************************************************************************)
LEMMA TypedInit == Init => SnapshotTyped
<1> SUFFICES ASSUME Init PROVE SnapshotTyped
  OBVIOUS
<1>1. \A p \in Packages : LoadedSees(p) \in [Imports[p] -> {"loaded", "rebuilt"}]
  BY DEF LoadedSees
<1>2. sees \in [Packages -> UNION {[S -> {"loaded", "rebuilt"}] : S \in SUBSET Packages}]
  BY <1>1, ImportsAssumption DEF Init
<1> QED BY <1>2 DEF Init, SnapshotTyped, LoadedComplete

LEMMA TypedBegin ==
  ASSUME SnapshotTyped, NEW p \in Packages, Begin(p), state[p] = 0
  PROVE  SnapshotTyped'
<1>1. NoSnapshots \in [{} -> {"loaded", "rebuilt"}]
  BY DEF NoSnapshots
<1>2. sees' \in [Packages -> UNION {[S -> {"loaded", "rebuilt"}] : S \in SUBSET Packages}]
  BY <1>1 DEF SnapshotTyped, Begin
<1>3. stack' \in Seq(Packages)
  BY DEF SnapshotTyped, Begin
<1>4. /\ state' \in [Packages -> 0..2]
      /\ rebuilds' \in [Packages -> Nat]
  BY DEF SnapshotTyped, Begin
<1> QED BY <1>2, <1>3, <1>4 DEF SnapshotTyped, Begin

LEMMA TopIsPackage ==
  ASSUME SnapshotTyped, stack # <<>>
  PROVE  /\ Top \in Packages /\ Len(stack) \in 1..Len(stack) /\ Top = stack[Len(stack)]
         /\ SubSeq(stack, 1, Len(stack) - 1) \in Seq(Packages)
         /\ Len(SubSeq(stack, 1, Len(stack) - 1)) = Len(stack) - 1
         /\ \A i \in 1..(Len(stack) - 1) : SubSeq(stack, 1, Len(stack) - 1)[i] = stack[i]
<1>1. stack \in Seq(Packages) /\ Len(stack) \in Nat /\ Len(stack) # 0
  BY EmptySeq DEF SnapshotTyped
<1>2. Len(stack) \in 1..Len(stack) /\ stack[Len(stack)] \in Packages
  BY <1>1
<1> DEFINE rest == SubSeq(stack, 1, Len(stack) - 1)
<1>3. Len(stack) - 1 \in Int /\ \A i \in 1..(Len(stack) - 1) : stack[i] \in Packages
  BY <1>1
<1>4. /\ rest \in Seq(Packages)
      /\ Len(rest) = IF 1 <= Len(stack) - 1 THEN (Len(stack) - 1) - 1 + 1 ELSE 0
      /\ \A i \in 1..((Len(stack) - 1) - 1 + 1) : rest[i] = stack[1 + i - 1]
  BY <1>3, SubSeqProperties
<1> HIDE DEF rest
<1>5. Len(rest) = Len(stack) - 1
  <2>1. \A n \in Nat : n # 0 => (IF 1 <= n - 1 THEN (n - 1) - 1 + 1 ELSE 0) = n - 1
    OBVIOUS
  <2> QED BY <1>1, <1>4, <2>1
<1>6. ASSUME NEW i \in 1..(Len(stack) - 1) PROVE rest[i] = stack[i]
  <2>1. i \in 1..((Len(stack) - 1) - 1 + 1) /\ 1 + i - 1 = i
    BY <1>1
  <2> QED BY <1>4, <2>1
<1> QED BY <1>1, <1>2, <1>4, <1>5, <1>6 DEF Top, rest

\* What the innermost check asks for is imported by it.
LEMMA UsesAreImports ==
  ASSUME SnapshotTyped, NEW q \in Unresolved
  PROVE  stack # <<>> /\ q \in project.uses[Top] /\ q \in Packages
<1>1. stack # <<>> /\ q \in project.uses[Top]
  BY DEF Unresolved
<1> QED BY <1>1, TopIsPackage, ProjectsAssumption, ImportsAssumption DEF SnapshotTyped

LEMMA TypedRollBack ==
  ASSUME SnapshotTyped, RollBack
  PROVE  SnapshotTyped'
<1>1. \A p \in Packages : LoadedSees(p) \in [Imports[p] -> {"loaded", "rebuilt"}]
  BY DEF LoadedSees
<1>2. sees' \in [Packages -> UNION {[S -> {"loaded", "rebuilt"}] : S \in SUBSET Packages}]
  BY <1>1, ImportsAssumption DEF RollBack, SnapshotTyped
<1>3. complete' \in [Packages -> BOOLEAN]
  BY DEF RollBack, SnapshotTyped, LoadedComplete
<1>4. typePkg' \in [Packages -> {"none", "loaded", "rebuilt"}]
  BY DEF RollBack, SnapshotTyped
<1> QED BY <1>2, <1>3, <1>4 DEF RollBack, SnapshotTyped

LEMMA TypedStep == SnapshotTyped /\ [Next]_vars => SnapshotTyped'
<1> SUFFICES ASSUME SnapshotTyped, [Next]_vars PROVE SnapshotTyped'
  OBVIOUS
<1>1. CASE ApplyFilePolicy
  BY <1>1 DEF ApplyFilePolicy, SnapshotTyped
<1>2. ASSUME NEW p \in Packages, StartRebuild(p) PROVE SnapshotTyped'
  BY <1>2, TypedBegin DEF StartRebuild, Waiting
<1>3. ASSUME NEW p \in Packages, DropIncomplete(p) PROVE SnapshotTyped'
  BY <1>3 DEF DropIncomplete, SnapshotTyped
<1>4. ASSUME NEW p \in Packages, RebuildImport(p) PROVE SnapshotTyped'
  BY <1>4, TypedBegin DEF RebuildImport, Waiting
<1>5. ASSUME NEW q \in Packages, ResolveImport(q) PROVE SnapshotTyped'
  <2>1. stack # <<>> /\ Top \in Packages
    BY <1>5, UsesAreImports, TopIsPackage DEF ResolveImport
  <2>2. PICK S \in SUBSET Packages : sees[Top] \in [S -> {"loaded", "rebuilt"}]
    BY <2>1 DEF SnapshotTyped
  <2> DEFINE met == [r \in DOMAIN sees[Top] \cup {q} |->
                       IF r = q THEN SnapshotOf(q) ELSE sees[Top][r]]
  <2>3. met \in [S \cup {q} -> {"loaded", "rebuilt"}]
    BY <2>2 DEF SnapshotOf
  <2>4. sees' = [sees EXCEPT ![Top] = met]
    BY <1>5 DEF ResolveImport
  <2> HIDE DEF met
  <2> DEFINE views == UNION {[X -> {"loaded", "rebuilt"}] : X \in SUBSET Packages}
  <2>5. met \in views
    BY <2>3
  <2>6. sees' \in [Packages -> views]
    <3> HIDE DEF views
    <3>1. sees \in [Packages -> views]
      BY DEF SnapshotTyped, views
    <3> QED BY <2>1, <2>4, <2>5, <3>1
  <2> QED BY <1>5, <2>6 DEF ResolveImport, SnapshotTyped
<1>6. CASE FinishRebuild
  <2>1. stack # <<>> /\ Top \in Packages /\ stack' \in Seq(Packages)
    BY <1>6, TopIsPackage DEF FinishRebuild
  <2> QED BY <1>6, <2>1 DEF FinishRebuild, SnapshotTyped
<1>7. CASE KeepRebuilt
  BY <1>7 DEF KeepRebuilt, SnapshotTyped
<1>8. CASE RollBack
  BY <1>8, TypedRollBack
<1>9. CASE Settled \/ UNCHANGED vars
  BY <1>9 DEF Settled, vars, SnapshotTyped
<1> QED BY <1>1, <1>2, <1>3, <1>4, <1>5, <1>6, <1>7, <1>8, <1>9 DEF Next

\* A check that begins: the importers under check wait, and none of them is p.
LEMMA BeginKeeps ==
  ASSUME SnapshotInv, SnapshotTyped', NEW p \in Packages, Begin(p), Waiting(p),
         phase = "rebuilding"
  PROVE  SnapshotInv'
<1> USE ProjectDecides
<1>1. /\ state' = [state EXCEPT ![p] = 1] /\ state[p] = 0 /\ p \in Targets /\ complete[p]
      /\ rebuilds' = [rebuilds EXCEPT ![p] = @ + 1]
      /\ sees' = [sees EXCEPT ![p] = NoSnapshots]
      /\ project' = project /\ phase' = phase /\ typePkg' = typePkg /\ complete' = complete
  BY DEF Begin, Waiting
<1>2. Len(stack') = Len(stack) + 1 /\ stack'[Len(stack) + 1] = p /\ Len(stack) \in Nat
      /\ \A i \in 1..Len(stack) : stack'[i] = stack[i] /\ stack[i] \in Packages
  BY DEF Begin, SnapshotInv, SnapshotTyped
<1>3. \A i \in 1..Len(stack) : stack[i] # p
  BY <1>1 DEF SnapshotInv, OnceOnStack
<1>4. OnceOnStack'
  <2>1. \A i \in 1..Len(stack') : i \in 1..Len(stack) \/ i = Len(stack) + 1
    BY <1>2
  <2>2. \A i \in 1..Len(stack') : state'[stack'[i]] = 1
    <3>1. state \in [Packages -> 0..2] /\ \A i \in 1..Len(stack) : state[stack[i]] = 1
      BY DEF SnapshotInv, SnapshotTyped, OnceOnStack
    <3>2. ASSUME NEW i \in 1..Len(stack) PROVE state'[stack'[i]] = 1
      BY <1>1, <1>2, <1>3, <3>1
    <3> QED BY <1>1, <1>2, <2>1, <3>1, <3>2
  <2>3. \A i, j \in 1..Len(stack') : stack'[i] = stack'[j] => i = j
    BY <1>2, <1>3, <2>1 DEF SnapshotInv, OnceOnStack
  <2> QED BY <1>1, <2>2, <2>3 DEF OnceOnStack
<1>5. LoadedComplete(p) /\ typePkg[p] = "loaded"
  BY <1>1 DEF SnapshotInv, Rebuilding
<1>6. Counted'
  BY <1>1, <1>5 DEF SnapshotInv, Counted, SnapshotTyped
<1>7. Rebuilding'
  <2>1. Meets(p)'
    BY <1>1 DEF Meets, NoSnapshots, SnapshotInv, SnapshotTyped
  <2>2. ASSUME NEW q \in Packages, q # p, state[q] # 0 PROVE Meets(q)'
    BY <1>1, <2>2 DEF Meets, SnapshotInv, SnapshotTyped, Rebuilding, SnapshotOf
  <2> QED BY <1>1, <1>5, <2>1, <2>2 DEF Rebuilding, SnapshotInv, SnapshotTyped, LoadedSees
<1> QED BY <1>1, <1>4, <1>6, <1>7 DEF SnapshotInv

LEMMA ResolveKeeps ==
  ASSUME SnapshotInv, SnapshotTyped', NEW q \in Packages, ResolveImport(q)
  PROVE  SnapshotInv'
<1> USE ProjectDecides
<1>1. /\ sees' = [sees EXCEPT ![Top] =
                    [r \in DOMAIN sees[Top] \cup {q} |->
                       IF r = q THEN SnapshotOf(q) ELSE sees[Top][r]]]
      /\ q \in Targets => state[q] = 2
      /\ project' = project /\ phase' = phase /\ typePkg' = typePkg /\ complete' = complete
      /\ stack' = stack /\ state' = state /\ rebuilds' = rebuilds /\ warned' = warned
  BY DEF ResolveImport
<1>2. stack # <<>> /\ Top \in Packages /\ state[Top] = 1
  BY UsesAreImports, TopIsPackage DEF ResolveImport, SnapshotInv, OnceOnStack
<1>3. phase = "rebuilding"
  BY <1>2 DEF SnapshotInv, OnceOnStack
<1>4. OnceOnStack' /\ Counted'
  BY <1>1 DEF SnapshotInv, OnceOnStack, Counted
<1>5. \A p \in Packages : p # Top => sees'[p] = sees[p]
  BY <1>1, <1>2 DEF SnapshotInv, SnapshotTyped
<1>6. Meets(Top)'
  <2>1. Top' = Top
    BY <1>1 DEF Top
  <2>2. sees'[Top] = [r \in DOMAIN sees[Top] \cup {q} |->
                        IF r = q THEN SnapshotOf(q) ELSE sees[Top][r]]
    BY <1>1, <1>2 DEF SnapshotInv, SnapshotTyped
  <2>3. Meets(Top)
    BY <1>2, <1>3 DEF SnapshotInv, Rebuilding
  <2>4. ASSUME NEW r \in DOMAIN sees'[Top]
        PROVE  sees'[Top][r] = SnapshotOf(r) /\ (r \in Targets => state[r] = 2)
    BY <1>1, <2>2, <2>3, <2>4 DEF Meets
  <2> QED BY <1>1, <2>1, <2>4 DEF Meets, SnapshotOf
<1>7. \A p \in Packages : p # Top /\ Meets(p) => Meets(p)'
  BY <1>1, <1>5 DEF Meets, SnapshotOf
<1>8. Rebuilding'
  <2>1. Rebuilding /\ Top' = Top
    BY <1>1, <1>3 DEF SnapshotInv, Top
  <2> QED BY <1>1, <1>2, <1>5, <1>6, <1>7, <2>1 DEF Rebuilding, LoadedSees
<1> QED BY <1>1, <1>3, <1>4, <1>8 DEF SnapshotInv

LEMMA FinishKeeps ==
  ASSUME SnapshotInv, SnapshotTyped', FinishRebuild
  PROVE  SnapshotInv'
<1> USE ProjectDecides
<1>1. stack # <<>> /\ Top \in Packages /\ state[Top] = 1 /\ phase = "rebuilding"
  BY TopIsPackage DEF FinishRebuild, SnapshotInv, OnceOnStack
<1>2. /\ typePkg' = [typePkg EXCEPT ![Top] = "rebuilt"]
      /\ state' = [state EXCEPT ![Top] = 2]
      /\ \E ok \in BOOLEAN : complete' = [complete EXCEPT ![Top] = ok]
      /\ stack' = SubSeq(stack, 1, Len(stack) - 1)
      /\ project' = project /\ phase' = phase /\ sees' = sees /\ rebuilds' = rebuilds
      /\ warned' = warned
  BY DEF FinishRebuild
<1>3. state[Top] # 0 /\ Top \in Targets /\ LoadedComplete(Top)
  BY <1>1 DEF SnapshotInv, Counted
<1>4. OnceOnStack'
  <2>1. Len(stack') = Len(stack) - 1 /\ Len(stack) \in Nat
        /\ \A i \in 1..Len(stack') : stack'[i] = stack[i] /\ i \in 1..Len(stack)
    BY <1>1, <1>2, TopIsPackage DEF SnapshotInv, SnapshotTyped
  <2>2. \A i, j \in 1..Len(stack) : stack[i] = stack[j] => i = j
    BY DEF SnapshotInv, OnceOnStack
  <2>3. \A i \in 1..Len(stack') : stack[i] # Top
    BY <1>1, <2>1, <2>2, TopIsPackage DEF SnapshotInv
  <2>4. \A i \in 1..Len(stack') : state'[stack'[i]] = 1
    BY <1>2, <2>1, <2>3 DEF SnapshotInv, SnapshotTyped, OnceOnStack
  <2> QED BY <1>1, <1>2, <2>1, <2>2, <2>4 DEF OnceOnStack
<1>5. Counted'
  BY <1>1, <1>2, <1>3 DEF SnapshotInv, SnapshotTyped, Counted
<1>6. \A p \in Packages : Meets(p) => Meets(p)'
  BY <1>1, <1>2 DEF Meets, SnapshotOf, SnapshotInv, SnapshotTyped
<1>7. Rebuilding'
  <2>1. Rebuilding
    BY <1>1 DEF SnapshotInv
  <2>2. ASSUME NEW p \in Packages, p # Top
        PROVE  typePkg'[p] = typePkg[p] /\ state'[p] = state[p] /\ complete'[p] = complete[p]
    BY <1>2, <2>2 DEF SnapshotInv, SnapshotTyped
  <2>3. typePkg'[Top] = "rebuilt" /\ state'[Top] = 2
    BY <1>1, <1>2 DEF SnapshotInv, SnapshotTyped
  <2> QED BY <1>1, <1>2, <1>6, <2>1, <2>2, <2>3 DEF Rebuilding, LoadedSees
<1> QED BY <1>1, <1>2, <1>4, <1>5, <1>7 DEF SnapshotInv

LEMMA RollBackKeeps ==
  ASSUME SnapshotInv, SnapshotTyped', RollBack
  PROVE  SnapshotInv'
<1> USE ProjectDecides
<1>1. /\ phase = "rebuilding" /\ stack = <<>>
      /\ phase' = "done" /\ project' = project /\ stack' = stack /\ state' = state
      /\ rebuilds' = rebuilds
      /\ typePkg' = [p \in Packages |-> IF p \in Targets THEN "loaded" ELSE typePkg[p]]
      /\ sees' = [p \in Packages |-> IF p \in Targets THEN LoadedSees(p) ELSE sees[p]]
      /\ complete' = [p \in Packages |->
                        IF p \in Targets THEN LoadedComplete(p) ELSE complete[p]]
      /\ warned' # {}
  BY DEF RollBack, Tried
<1>2. ASSUME NEW p \in Packages
      PROVE  /\ typePkg'[p] = "loaded" /\ sees'[p] = LoadedSees(p)
             /\ complete'[p] = LoadedComplete(p)
  <2>1. p \notin Targets => state[p] = 0
    BY DEF SnapshotInv, Counted
  <2> QED BY <1>1, <2>1 DEF SnapshotInv, Rebuilding
<1>3. AsLoaded'
  BY <1>1, <1>2 DEF AsLoaded, LoadedSees
<1>4. OnceOnStack' /\ Counted'
  BY <1>1 DEF SnapshotInv, OnceOnStack, Counted
<1> QED BY <1>1, <1>3, <1>4 DEF SnapshotInv, RolledBack

LEMMA UnchangedKeeps ==
  ASSUME SnapshotInv, UNCHANGED vars
  PROVE  SnapshotInv'
<1> USE ProjectDecides DEF vars
<1>1. SnapshotTyped' /\ OnceOnStack' /\ Counted'
  BY DEF SnapshotInv, SnapshotTyped, OnceOnStack, Counted
<1>2. (AsLoaded => AsLoaded') /\ (RolledBack => RolledBack')
  BY DEF AsLoaded, RolledBack, LoadedSees
<1>3. Rebuilding => Rebuilding'
  BY DEF Rebuilding, Meets, SnapshotOf, LoadedSees
<1>4. AllRebuilt => AllRebuilt'
  BY <1>3, TargetsImportedByTargets DEF AllRebuilt, Failed
<1> QED BY <1>1, <1>2, <1>3, <1>4 DEF SnapshotInv

LEMMA SnapshotStep == SnapshotInv /\ [Next]_vars => SnapshotInv'
<1> SUFFICES ASSUME SnapshotInv, [Next]_vars PROVE SnapshotInv'
  OBVIOUS
<1> USE ProjectDecides
<1>0. SnapshotTyped'
  BY TypedStep DEF SnapshotInv
<1>1. CASE ApplyFilePolicy
  <2>1. /\ AsLoaded /\ stack' = <<>> /\ project' = project /\ UNCHANGED <<state, rebuilds, warned>>
        /\ \A p \in Packages : state[p] = 0
        /\ phase' = IF LostExcluded = {} THEN "done" ELSE "rebuilding"
        /\ UNCHANGED <<typePkg, sees, complete>>
    BY <1>1 DEF ApplyFilePolicy, SnapshotInv, OnceOnStack
  <2>2. OnceOnStack' /\ Counted'
    BY <2>1 DEF SnapshotInv, OnceOnStack, Counted
  <2>3. AsLoaded'
    BY <2>1 DEF AsLoaded, LoadedSees
  <2>4. Rebuilding'
    BY <2>1 DEF AsLoaded, Rebuilding, LoadedSees
  <2> QED BY <1>0, <2>1, <2>2, <2>3, <2>4 DEF SnapshotInv, RolledBack
<1>2. ASSUME NEW p \in Packages, StartRebuild(p) PROVE SnapshotInv'
  BY <1>0, <1>2, BeginKeeps DEF StartRebuild
<1>3. ASSUME NEW p \in Packages, DropIncomplete(p) PROVE SnapshotInv'
  <2>1. OnceOnStack' /\ Counted'
    BY <1>3 DEF DropIncomplete, SnapshotInv, OnceOnStack, Counted
  <2>2. Rebuilding'
    BY <1>3 DEF DropIncomplete, SnapshotInv, SnapshotTyped, Rebuilding, Meets, SnapshotOf,
                LoadedSees
  <2> QED BY <1>0, <1>3, <2>1, <2>2 DEF DropIncomplete, SnapshotInv
<1>4. ASSUME NEW p \in Packages, RebuildImport(p) PROVE SnapshotInv'
  <2>1. phase = "rebuilding"
    BY <1>4, UsesAreImports DEF RebuildImport, SnapshotInv, OnceOnStack
  <2> QED BY <1>0, <1>4, <2>1, BeginKeeps DEF RebuildImport
<1>5. ASSUME NEW q \in Packages, ResolveImport(q) PROVE SnapshotInv'
  BY <1>0, <1>5, ResolveKeeps
<1>6. CASE FinishRebuild
  BY <1>0, <1>6, FinishKeeps
<1>7. CASE KeepRebuilt
  <2>1. OnceOnStack' /\ Counted' /\ Rebuilding'
    BY <1>7 DEF KeepRebuilt, Tried, SnapshotInv, OnceOnStack, Counted, Rebuilding, Meets,
                SnapshotOf, LoadedSees
  <2>2. AllRebuilt'
    BY <1>7, <2>1, TargetsImportedByTargets DEF KeepRebuilt, Tried, AllRebuilt, Failed
  <2> QED BY <1>0, <1>7, <2>1, <2>2 DEF KeepRebuilt, SnapshotInv
<1>8. CASE RollBack
  BY <1>0, <1>8, RollBackKeeps
<1>9. CASE Settled \/ UNCHANGED vars
  BY <1>9, UnchangedKeeps DEF Settled
<1> QED BY <1>1, <1>2, <1>3, <1>4, <1>5, <1>6, <1>7, <1>8, <1>9 DEF Next

\* The inductive invariant of the re-check.
THEOREM SnapshotInvariance == Spec => []SnapshotInv
<1>1. Init => SnapshotInv
  BY TypedInit DEF Init, SnapshotInv, OnceOnStack, Counted, AsLoaded
<1> QED BY <1>1, SnapshotStep, PTL DEF Spec

-----------------------------------------------------------------------------
(***************************************************************************)
(* What a run may rely on.                                                 *)
(***************************************************************************)
\* A package is type-checked again at most once, however many packages import
\* it, and only if it lost a file or reaches one that did
\* (filteredSnapshotBuilder.rebuild, workspace.go:538).
THEOREM CheckedAgainOnce == Spec => []RebuiltOnce
<1>1. SnapshotInv => RebuiltOnce
  <2> SUFFICES ASSUME SnapshotInv, NEW p \in Packages, state[p] # 0
               PROVE  Reach[Packages][p] \cap LostExcluded # {}
    BY DEF RebuiltOnce, SnapshotInv, Counted
  <2>1. Reach[Kept][p] \cap LostExcluded # {}
    BY DEF SnapshotInv, Counted, Targets
  <2>2. Reach[Kept][p] \subseteq Reach[Packages][p]
    BY ReachGrows DEF Kept
  <2> QED BY <2>1, <2>2
<1> QED BY <1>1, SnapshotInvariance, PTL

\* Whichever files are excluded and whichever re-checks fail, a package has its
\* typed checks after the policy if and only if it had them before
\* (workspace.go:474-482).
THEOREM TypesSurvive == Spec => []TypedChecksKept
<1>1. SnapshotInv => TypedChecksKept
  <2> SUFFICES ASSUME SnapshotInv, AllRebuilt, NEW p \in Packages
               PROVE  complete[p] = LoadedComplete(p)
    BY DEF SnapshotInv, TypedChecksKept, RolledBack, AsLoaded, Kept
  <2>1. state[p] \in 0..2 /\ complete[p] \in BOOLEAN /\ LoadedComplete(p) \in BOOLEAN
    BY DEF SnapshotInv, SnapshotTyped, LoadedComplete
  <2>2. state[p] = 0 => complete[p] = LoadedComplete(p)
    BY DEF AllRebuilt, Rebuilding
  <2>3. state[p] # 0 => p \in Targets /\ LoadedComplete(p)
    BY DEF SnapshotInv, Counted
  <2> QED BY <2>1, <2>2, <2>3 DEF AllRebuilt, Failed
<1> QED BY <1>1, SnapshotInvariance, PTL

\* The snapshots that trusted packages may lead to when all were rebuilt.
Built == {<<q, "rebuilt">> : q \in {p \in Packages : state[p] = 2}}
           \cup {<<q, "loaded">> : q \in Packages \ Targets}
FromLoad == Packages \X {"loaded"}

\* A set that holds what p refers to, and what its members refer to, holds all
\* that is seen from p.
LEMMA SeenWithin ==
  ASSUME NEW p \in Packages, NEW S \in SUBSET Snapshots,
         \A r \in DOMAIN sees[p] : <<r, sees[p][r]>> \in S,
         \A m \in S : Refers(m[1], m[2]) \subseteq S
  PROVE  SeenFrom(p) \subseteq S
BY DEF SeenFrom

\* A package without files is left out of the run, with the snapshot it had.
\* Where such a package imports one that is checked again, the importer of both
\* meets both snapshots of it.
EmptiedImportNoTarget ==
  \A p \in Packages \ Kept : Imports[p] \cap Targets = {}
EmptiedHadNoExcluded ==
  \A p \in Packages \ Kept : "excluded" \notin project.files[p]

LEMMA LoadedView ==
  ASSUME SnapshotInv, AsLoaded, NEW p \in Packages
  PROVE  View(p) \subseteq FromLoad
<1>1. FromLoad \in SUBSET Snapshots
  BY DEF FromLoad, Snapshots
<1>2. \A r \in DOMAIN sees[p] : <<r, sees[p][r]>> \in FromLoad
  <2>1. sees[p] = [r \in Imports[p] |-> "loaded"] /\ Imports[p] \subseteq Packages
    BY ImportsAssumption DEF AsLoaded, LoadedSees
  <2> QED BY <2>1 DEF FromLoad
<1>3. \A m \in FromLoad : Refers(m[1], m[2]) \subseteq FromLoad
  BY ImportsAssumption DEF FromLoad, Refers
<1>4. SeenFrom(p) \subseteq FromLoad
  BY <1>1, <1>2, <1>3, SeenWithin
<1> QED BY <1>4 DEF View, AsLoaded, FromLoad

LEMMA BuiltView ==
  ASSUME SnapshotInv, AllRebuilt, EmptiedImportNoTarget, NEW p \in Trusted
  PROVE  View(p) \subseteq Built
<1>1. p \in Packages /\ p \in Kept /\ complete[p]
  BY DEF Trusted, Kept
<1>2. Built \in SUBSET Snapshots
  BY DEF Built, Snapshots
<1>3. \A q \in Packages \ Targets :
        Imports[q] \subseteq Packages /\ Imports[q] \cap Targets = {}
  BY ImportsAssumption, TargetsImportedByTargets DEF EmptiedImportNoTarget
<1>4. ASSUME NEW q \in Packages, state[q] = 2
      PROVE  \A r \in DOMAIN sees[q] : <<r, sees[q][r]>> \in Built
  <2>1. Meets(q)
    BY <1>4 DEF AllRebuilt, Rebuilding
  <2>2. DOMAIN sees[q] \subseteq Packages
    BY DEF SnapshotInv, SnapshotTyped
  <2> QED BY <2>1, <2>2 DEF Meets, SnapshotOf, Built
<1>5. ASSUME NEW q \in Packages \ Targets
      PROVE  {<<r, "loaded">> : r \in Imports[q]} \subseteq Built
  BY <1>3 DEF Built
<1>6. ASSUME NEW m \in Built PROVE Refers(m[1], m[2]) \subseteq Built
  <2>1. CASE \E q \in Packages : state[q] = 2 /\ m = <<q, "rebuilt">>
    BY <2>1, <1>4 DEF Refers
  <2>2. CASE \E q \in Packages \ Targets : m = <<q, "loaded">>
    BY <2>2, <1>5 DEF Refers
  <2> QED BY <2>1, <2>2 DEF Built
<1>7. CASE p \in Targets
  <2>1. state[p] \in 0..2 /\ typePkg[p] # "loaded"
    BY <1>1, <1>7 DEF SnapshotInv, SnapshotTyped, AllRebuilt
  <2>2. state[p] = 2 /\ typePkg[p] = "rebuilt"
    BY <1>1, <2>1 DEF AllRebuilt, Rebuilding
  <2>3. SeenFrom(p) \subseteq Built
    BY <1>1, <1>2, <1>4, <1>6, <2>2, SeenWithin
  <2> QED BY <1>1, <2>2, <2>3 DEF View, Built
<1>8. CASE p \notin Targets
  <2>1. state[p] = 0
    BY <1>1, <1>8 DEF SnapshotInv, Counted
  <2>2. typePkg[p] = "loaded" /\ sees[p] = LoadedSees(p)
    BY <1>1, <1>8, <2>1 DEF AllRebuilt, Rebuilding
  <2>3. \A r \in DOMAIN sees[p] : <<r, sees[p][r]>> \in Built
    BY <1>1, <1>3, <1>8, <2>2 DEF LoadedSees, Built
  <2>4. SeenFrom(p) \subseteq Built
    BY <1>1, <1>2, <1>6, <2>3, SeenWithin
  <2> QED BY <1>1, <1>8, <2>2, <2>4 DEF View, Built
<1> QED BY <1>7, <1>8

LEMMA OneOfEachBuilt ==
  ASSUME SnapshotInv PROVE OneOfEach(Built) /\ OneOfEach(FromLoad)
<1>1. \A q \in Packages : state[q] = 2 => q \in Targets
  BY DEF SnapshotInv, Counted
<1> QED BY <1>1 DEF OneOfEach, Built, FromLoad

\* Neither assumption on emptied packages ever changes.
LEMMA EmptiedStays ==
  [Next]_vars /\ EmptiedImportNoTarget => EmptiedImportNoTarget'
<1> SUFFICES ASSUME [Next]_vars PROVE project' = project
  BY ProjectDecides DEF EmptiedImportNoTarget
<1> QED BY DEF Next, vars, ApplyFilePolicy, StartRebuild, DropIncomplete, RebuildImport,
               Begin, ResolveImport, FinishRebuild, KeepRebuilt, RollBack, Settled

LEMMA EmptiedStaysPlain ==
  [Next]_vars /\ EmptiedHadNoExcluded => EmptiedHadNoExcluded'
<1> SUFFICES ASSUME [Next]_vars PROVE project' = project
  BY ProjectDecides DEF EmptiedHadNoExcluded
<1> QED BY DEF Next, vars, ApplyFilePolicy, StartRebuild, DropIncomplete, RebuildImport,
               Begin, ResolveImport, FinishRebuild, KeepRebuilt, RollBack, Settled

\* After the policy no two packages whose types the checks rely on lead to
\* different snapshots of a package, whichever re-checks failed, unless a
\* package without files imports one that was checked again
\* (rebuildExcludedTypeSnapshots, workspace.go:432-439).
THEOREM TypesFromOneGraph == EmptiedImportNoTarget /\ Spec => []OneTypeGraph
<1>1. SnapshotInv /\ EmptiedImportNoTarget => OneTypeGraph
  <2> SUFFICES ASSUME SnapshotInv, EmptiedImportNoTarget, phase = "done"
               PROVE  OneOfEach(UNION {View(p) : p \in Trusted})
    BY DEF OneTypeGraph
  <2>1. CASE AsLoaded
    <3>1. \A p \in Trusted : View(p) \subseteq FromLoad
      BY <2>1, LoadedView DEF Trusted, Kept
    <3> QED BY <3>1, OneOfEachBuilt DEF OneOfEach
  <2>2. CASE AllRebuilt
    <3>1. \A p \in Trusted : View(p) \subseteq Built
      BY <2>2, BuiltView
    <3> QED BY <3>1, OneOfEachBuilt DEF OneOfEach
  <2> QED BY <2>1, <2>2 DEF SnapshotInv, RolledBack
<1> QED BY <1>1, SnapshotInvariance, EmptiedStays, PTL DEF Spec

\* After a policy without a warning, no excluded declaration is left in any
\* type the checks rely on, whatever imports lead to it, unless a package lost
\* all its files (README.md:304-309).
THEOREM ExcludedGone ==
  EmptiedImportNoTarget /\ EmptiedHadNoExcluded /\ Spec => []ExcludedGoneOrWarned
<1>1. SnapshotInv /\ EmptiedImportNoTarget /\ EmptiedHadNoExcluded => ExcludedGoneOrWarned
  <2> SUFFICES ASSUME SnapshotInv, EmptiedImportNoTarget, EmptiedHadNoExcluded,
                      phase = "done", warned = {}, NEW p \in Trusted, NEW n \in View(p)
               PROVE  "excluded" \notin Declares(n[1], n[2])
    BY DEF ExcludedGoneOrWarned
  <2>1. \A q \in Packages \ LostExcluded : "excluded" \notin project.files[q]
    BY DEF EmptiedHadNoExcluded, LostExcluded, Kept
  <2>2. CASE RolledBack
    <3>1. n \in FromLoad /\ LostExcluded = {}
      BY <2>2, LoadedView DEF RolledBack, Trusted, Kept
    <3> QED BY <2>1, <3>1 DEF FromLoad, Declares
  <2>3. CASE AllRebuilt
    <3>1. n \in Built
      BY <2>3, BuiltView
    <3> QED BY <2>1, <3>1, TargetsImportedByTargets DEF Built, Declares
  <2> QED BY <2>2, <2>3 DEF SnapshotInv
<1> QED BY <1>1, SnapshotInvariance, EmptiedStays, EmptiedStaysPlain, PTL DEF Spec

=============================================================================
