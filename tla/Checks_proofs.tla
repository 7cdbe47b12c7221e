---------------------------- MODULE Checks_proofs ----------------------------
(* What is proved of the groups of checks, and that it holds when they run *)
(* together, for none of them touches the state of another.                *)
EXTENDS Checks, FieldFlows_proofs, FiniteSetTheorems

(***************************************************************************)
(* SOLID-S, for any functions and thresholds: the walk that deletes clumps *)
(* from the map it walks leaves the widest ones, and no parameters are     *)
(* reported twice, by one pass or by two.                                  *)
(***************************************************************************)
\* What a package's syntax is: a function has finitely many parameters, and no
\* other function stands where it does.
FiniteParameters ==
  \A f \in source.functions : \A pass \in {"syntax", "types"} :
    IsFiniteSet(f.seen[pass].params)
OwnPositions ==
  \A f, g \in source.functions : f.at = g.at => f = g

\* A visited clump that is left lies in no other; the deleted ones lie in one
\* that is left.
ClumpInv ==
  /\ FiniteParameters
  /\ Clumping =>
       /\ clumps \subseteq BuildParameterClumps(Pass)
       /\ Enabled({"data-clump"}) =>
            \A c \in BuildParameterClumps(Pass) : \E o \in clumps : c.params \subseteq o.params
       /\ \A c \in clumps \ unvisited : \A o \in clumps : ~SubsumedBy(c, o)

\* What is said of parameters is what one pass says of them.
SaidBy(pass) ==
  \A s \in smells : s.check \in ParameterChecks =>
    \/ s \in ParameterSmells(pass)
    \/ s.check = "data-clump" /\ s.group \subseteq {f.at : f \in Unreported(pass)}
SaidInv ==
  /\ OwnPositions
  /\ stage \in {"functions", "clumps", "workflow", "parameters", "typed clumps", "structs", "over"}
  /\ Clumping => clumps \subseteq BuildParameterClumps(Pass)
  /\ stage = "functions" => smells = {}
  /\ stage \in {"clumps", "workflow", "parameters"} => SaidBy("syntax")
  /\ stage = "typed clumps" => SaidBy("types")
  /\ stage \in {"structs", "over"} => SaidBy("syntax") \/ SaidBy("types")

-----------------------------------------------------------------------------

\* What is built of a package depends on the package alone.
LEMMA SourceDecides ==
  ASSUME UNCHANGED source
  PROVE  /\ \A pass : BuildParameterClumps(pass)' = BuildParameterClumps(pass)
         /\ \A pass : ParameterSmells(pass)' = ParameterSmells(pass)
         /\ \A pass : Unreported(pass)' = Unreported(pass)
         /\ \A checks : Enabled(checks)' = Enabled(checks)
         /\ FiniteParameters' = FiniteParameters
         /\ OwnPositions' = OwnPositions
BY DEF BuildParameterClumps, SharingPairs, Shared, ParameterSmells, Unreported,
       FlagArgument, MixedInputSurface, MixedInput, Enabled, Smell,
       FiniteParameters, OwnPositions

LEMMA ClumpsHaveFiniteParameters ==
  ASSUME FiniteParameters, NEW pass \in {"syntax", "types"},
         NEW c \in BuildParameterClumps(pass)
  PROVE  IsFiniteSet(c.params)
<1>1. PICK p \in SharingPairs(pass) : c.params = Shared(p, pass)
  BY DEF BuildParameterClumps
<1>2. p[1] \in source.functions
  BY DEF SharingPairs, Unreported
<1>3. IsFiniteSet(p[1].seen[pass].params)
  BY <1>2 DEF FiniteParameters
<1>4. c.params \subseteq p[1].seen[pass].params
  BY <1>1 DEF Shared
<1> QED BY <1>3, <1>4, FS_Subset

\* The functions of a clump have nothing else reported of their parameters.
LEMMA ClumpsOfUnreported ==
  ASSUME NEW pass, NEW c \in BuildParameterClumps(pass)
  PROVE  c.funcs \subseteq {f.at : f \in Unreported(pass)}
<1> DEFINE Funcs(s) ==
             UNION {{p[1].at, p[2].at} : p \in {q \in SharingPairs(pass) : Shared(q, pass) = s}}
<1> HIDE DEF Funcs
<1>0. BuildParameterClumps(pass) =
        {[params |-> s, funcs |-> Funcs(s)] : s \in {Shared(p, pass) : p \in SharingPairs(pass)}}
  BY DEF BuildParameterClumps, Funcs
<1>1. PICK s : c.funcs = Funcs(s)
  BY <1>0
<1>2. \A p \in SharingPairs(pass) : p[1] \in Unreported(pass) /\ p[2] \in Unreported(pass)
  BY DEF SharingPairs
<1> QED BY <1>1, <1>2 DEF Funcs

LEMMA PassIsOne == Pass \in {"syntax", "types"}
BY DEF Pass

-----------------------------------------------------------------------------

LEMMA VisitKeepsTheWidest ==
  ASSUME ClumpInv, NEW c \in unvisited, VisitClump(c)
  PROVE  ClumpInv'
<1>1. UNCHANGED <<source, stage, smells>> /\ unvisited' = unvisited \ {c}
  BY DEF VisitClump
<1>2. Pass' = Pass /\ Clumping' = Clumping /\ Enabled({"data-clump"})' = Enabled({"data-clump"})
      /\ FiniteParameters'
  BY <1>1, SourceDecides DEF Pass, Clumping, ClumpInv
<1> DEFINE Built == BuildParameterClumps(Pass)
<1>3. BuildParameterClumps(Pass)' = Built
  BY <1>1, <1>2, SourceDecides
<1>4. SUFFICES ASSUME Clumping
               PROVE  /\ clumps' \subseteq Built
                      /\ Enabled({"data-clump"}) =>
                           \A b \in Built : \E o \in clumps' : b.params \subseteq o.params
                      /\ \A b \in clumps' \ unvisited' : \A o \in clumps' : ~SubsumedBy(b, o)
  BY <1>2, <1>3 DEF ClumpInv, SubsumedBy
<1>5. clumps \subseteq Built /\ clumps' \subseteq clumps
  BY <1>4 DEF ClumpInv, VisitClump
<1>6. CASE \E o \in clumps : SubsumedBy(c, o)
  <2>1. clumps' = clumps \ {c}
    BY <1>6 DEF VisitClump
  <2>2. PICK w \in clumps : SubsumedBy(c, w)
    BY <1>6
  <2>3. c.params \subseteq w.params
    BY <2>2 DEF SubsumedBy
  <2>4. w # c
    <3>1. Cardinality(w.params) \in Nat
      BY <1>5, PassIsOne, ClumpsHaveFiniteParameters, FS_CardinalityType DEF ClumpInv
    <3> QED BY <2>2, <3>1 DEF SubsumedBy
  <2>5. ASSUME NEW b \in Built, Enabled({"data-clump"})
        PROVE  \E o \in clumps' : b.params \subseteq o.params
    <3>1. PICK o \in clumps : b.params \subseteq o.params
      BY <1>4, <2>5 DEF ClumpInv
    <3>2. CASE o = c
      BY <2>1, <2>3, <2>4, <3>1, <3>2
    <3>3. CASE o # c
      BY <2>1, <3>1, <3>3
    <3> QED BY <3>2, <3>3
  <2>6. \A b \in clumps' \ unvisited' : \A o \in clumps' : ~SubsumedBy(b, o)
    BY <1>1, <1>4, <2>1 DEF ClumpInv
  <2> QED BY <1>5, <2>5, <2>6
<1>7. CASE ~\E o \in clumps : SubsumedBy(c, o)
  <2>1. clumps' = clumps
    BY <1>7 DEF VisitClump
  <2>2. Enabled({"data-clump"}) =>
          \A b \in Built : \E o \in clumps' : b.params \subseteq o.params
    BY <1>4, <2>1 DEF ClumpInv
  <2>3. \A b \in clumps' \ unvisited' : \A o \in clumps' : ~SubsumedBy(b, o)
    BY <1>1, <1>4, <1>7, <2>1 DEF ClumpInv
  <2> QED BY <1>5, <2>2, <2>3
<1> QED BY <1>6, <1>7

LEMMA ClumpStep ==
  ClumpInv /\ [PackageNext]_packageVars => ClumpInv'
<1> SUFFICES ASSUME ClumpInv, [PackageNext]_packageVars PROVE ClumpInv'
  OBVIOUS
<1>1. UNCHANGED source
  BY DEF PackageNext, packageVars, ExamineFunctions, VisitClump, ReportClumps,
         ExamineWorkflows, ExamineParameters, ReportTypedClumps, ExamineStructs
<1>2. FiniteParameters'
  BY <1>1, SourceDecides DEF ClumpInv
<1>3. CASE ExamineFunctions
  <2>1. stage' = "clumps" /\ unvisited' = clumps'
        /\ clumps' = IF Enabled({"data-clump"}) THEN BuildParameterClumps("syntax") ELSE {}
    BY <1>3 DEF ExamineFunctions
  <2>2. Pass' = "syntax"
    BY <2>1 DEF Pass
  <2>3. BuildParameterClumps(Pass)' = BuildParameterClumps("syntax")
        /\ Enabled({"data-clump"})' = Enabled({"data-clump"})
    BY <1>1, <2>2, SourceDecides
  <2> QED BY <1>2, <2>1, <2>3 DEF ClumpInv
<1>4. ASSUME NEW c \in unvisited, VisitClump(c) PROVE ClumpInv'
  BY <1>4, VisitKeepsTheWidest
<1>5. CASE ExamineParameters
  <2>1. stage' = "typed clumps" /\ unvisited' = clumps'
        /\ clumps' = BuildParameterClumps("types")
    BY <1>5 DEF ExamineParameters
  <2>2. Pass' = "types"
    BY <2>1 DEF Pass
  <2>3. BuildParameterClumps(Pass)' = BuildParameterClumps("types")
    BY <1>1, <2>2, SourceDecides
  <2> QED BY <1>2, <2>1, <2>3 DEF ClumpInv
<1>6. CASE ReportClumps \/ ExamineWorkflows \/ ReportTypedClumps \/ ExamineStructs
  <2>1. stage' \notin {"clumps", "typed clumps"}
    BY <1>6 DEF ReportClumps, ExamineWorkflows, ReportTypedClumps, ExamineStructs
  <2> QED BY <1>2, <2>1 DEF ClumpInv, Clumping
<1>7. CASE UNCHANGED packageVars
  <2>1. UNCHANGED <<source, stage, clumps, unvisited>>
    BY <1>7 DEF packageVars
  <2>2. BuildParameterClumps(Pass)' = BuildParameterClumps(Pass)
        /\ Enabled({"data-clump"})' = Enabled({"data-clump"}) /\ Clumping' = Clumping
    BY <2>1, SourceDecides DEF Pass, Clumping
  <2> QED BY <1>2, <2>1, <2>2 DEF ClumpInv, SubsumedBy
<1> QED BY <1>3, <1>4, <1>5, <1>6, <1>7 DEF PackageNext

\* In whatever order the map of clumps is walked, the widest are left
\* (srp.go:184), for any functions and thresholds.
THEOREM TheWidestAreLeft ==
  FiniteParameters /\ PackageSpec => []ClumpsAreTheWidest
<1>1. FiniteParameters /\ PackageInit => ClumpInv
  BY DEF PackageInit, ClumpInv, Clumping
<1>2. ClumpInv => ClumpsAreTheWidest
  BY DEF ClumpInv, ClumpsAreTheWidest
<1> QED BY <1>1, <1>2, ClumpStep, PTL DEF PackageSpec

-----------------------------------------------------------------------------

LEMMA ClumpFindings ==
  ASSUME NEW pass, clumps \subseteq BuildParameterClumps(pass), NEW s \in ClumpSmells
  PROVE  s.check = "data-clump" /\ s.group \subseteq {f.at : f \in Unreported(pass)}
<1>1. PICK c \in clumps : s = [check |-> "data-clump", at |-> Max(c.funcs), group |-> c.funcs]
  BY DEF ClumpSmells
<1> QED BY <1>1, ClumpsOfUnreported

\* No other check of the package speaks of parameters.
LEMMA OtherFindings ==
  /\ \A s \in ComplexFunction : s.check \notin ParameterChecks
  /\ \A s \in TransportWorkflow : s.check \notin ParameterChecks
  /\ \A s \in StructSmells : s.check \notin ParameterChecks
<1>1. \A s \in ComplexFunction : s.check = "complex-function"
  BY DEF ComplexFunction, Smell
<1>2. \A s \in TransportWorkflow : s.check = "transport-workflow"
  <2>1. ASSUME NEW S PROVE \A s \in {Smell("transport-workflow", f.at) : f \in S} :
                             s.check = "transport-workflow"
    BY DEF Smell
  <2> QED BY ONLY <2>1, Zenon DEF TransportWorkflow
<1>3. \A t : \A s \in TypedSmells(t) : s.check \in StructChecks
  <2> SUFFICES ASSUME NEW t, NEW s \in TypedSmells(t) PROVE s.check \in StructChecks
    OBVIOUS
  <2>1. ASSUME NEW S, s \in {Smell(c, t.at) : c \in S \cap StructChecks}
        PROVE  s.check \in StructChecks
    BY <2>1 DEF Smell
  <2>2. PICK S : s \in {Smell(c, t.at) : c \in S \cap StructChecks}
    BY DEF TypedSmells
  <2> QED BY <2>1, <2>2
<1>4. \A s \in StructSmells : s.check \in StructChecks
  BY <1>3 DEF StructSmells, Smell, StructChecks
<1> QED BY <1>1, <1>2, <1>4 DEF ParameterChecks, StructChecks

\* Adding findings of the pass, or findings that are not about parameters.
LEMMA SaidStays ==
  ASSUME NEW pass, UNCHANGED source, SaidBy(pass), NEW more,
         smells' \subseteq smells \cup more,
         \A s \in more : s.check \in ParameterChecks =>
           \/ s \in ParameterSmells(pass)
           \/ s.check = "data-clump" /\ s.group \subseteq {f.at : f \in Unreported(pass)}
  PROVE  SaidBy(pass)'
<1>1. ParameterSmells(pass)' = ParameterSmells(pass) /\ Unreported(pass)' = Unreported(pass)
  BY SourceDecides
<1>2. {f.at : f \in Unreported(pass)}' = {f.at : f \in Unreported(pass)}
  BY <1>1
<1> QED BY <1>1, <1>2 DEF SaidBy, ParameterChecks

LEMMA SaidStep ==
  SaidInv /\ [PackageNext]_packageVars => SaidInv'
<1> SUFFICES ASSUME SaidInv, [PackageNext]_packageVars PROVE SaidInv'
  OBVIOUS
<1>1. UNCHANGED source
  BY DEF PackageNext, packageVars, ExamineFunctions, VisitClump, ReportClumps,
         ExamineWorkflows, ExamineParameters, ReportTypedClumps, ExamineStructs
<1>2. OwnPositions' /\ \A pass : BuildParameterClumps(pass)' = BuildParameterClumps(pass)
  BY <1>1, SourceDecides DEF SaidInv
<1>3. CASE ExamineFunctions
  <2>1. /\ stage' = "clumps"
        /\ smells' = Selected(ComplexFunction) \cup ParameterSmells("syntax")
        /\ clumps' \subseteq BuildParameterClumps("syntax")
        /\ stage = "functions"
    BY <1>3 DEF ExamineFunctions
  <2>2. smells = {} /\ SaidBy("syntax")
    BY <2>1 DEF SaidInv, SaidBy
  <2>3. SaidBy("syntax")'
    BY <1>1, <2>1, <2>2, SaidStays, OtherFindings DEF Selected
  <2>4. Pass' = "syntax"
    BY <2>1 DEF Pass
  <2> QED BY <1>2, <2>1, <2>3, <2>4 DEF SaidInv
<1>4. ASSUME NEW c \in unvisited, VisitClump(c) PROVE SaidInv'
  <2>1. UNCHANGED <<source, stage, smells>> /\ clumps' \subseteq clumps
    BY <1>4 DEF VisitClump
  <2>2. Pass' = Pass /\ Clumping' = Clumping
    BY <2>1 DEF Pass, Clumping
  <2>3. \A pass : SaidBy(pass) => SaidBy(pass)'
    BY <2>1, SaidStays
  <2> QED BY <1>2, <2>1, <2>2, <2>3 DEF SaidInv
<1>5. CASE ReportClumps
  <2>1. stage = "clumps" /\ stage' = "workflow" /\ smells' = smells \cup ClumpSmells
    BY <1>5 DEF ReportClumps
  <2>2. clumps \subseteq BuildParameterClumps("syntax") /\ SaidBy("syntax")
    BY <2>1 DEF SaidInv, Clumping, Pass
  <2>3. SaidBy("syntax")'
    BY <1>1, <2>1, <2>2, SaidStays, ClumpFindings
  <2> QED BY <1>2, <2>1, <2>3 DEF SaidInv, Clumping
<1>6. CASE ExamineWorkflows
  <2>1. /\ stage = "workflow" /\ stage' \in {"parameters", "structs"}
        /\ smells' = smells \cup Selected(TransportWorkflow)
    BY <1>6 DEF ExamineWorkflows
  <2>2. SaidBy("syntax")
    BY <2>1 DEF SaidInv
  <2>3. SaidBy("syntax")'
    BY <1>1, <2>1, <2>2, SaidStays, OtherFindings DEF Selected
  <2> QED BY <1>2, <2>1, <2>3 DEF SaidInv, Clumping
<1>7. CASE ExamineParameters
  <2>1. /\ stage' = "typed clumps" /\ clumps' = BuildParameterClumps("types")
        /\ smells' = RemoveIssuesByCheck(smells) \cup Selected(ParameterSmells("types"))
    BY <1>7 DEF ExamineParameters
  <2>2. \A s \in smells' : s.check \in ParameterChecks => s \in ParameterSmells("types")
    BY <2>1 DEF RemoveIssuesByCheck, Selected
  <2>3. ParameterSmells("types")' = ParameterSmells("types")
    BY <1>1, SourceDecides
  <2>4. SaidBy("types")'
    BY <2>2, <2>3 DEF SaidBy, ParameterChecks
  <2>5. Pass' = "types"
    BY <2>1 DEF Pass
  <2> QED BY <1>2, <2>1, <2>4, <2>5 DEF SaidInv
<1>8. CASE ReportTypedClumps
  <2>1. /\ stage = "typed clumps" /\ stage' = "structs"
        /\ smells' = smells \cup Selected(ClumpSmells)
    BY <1>8 DEF ReportTypedClumps
  <2>2. clumps \subseteq BuildParameterClumps("types") /\ SaidBy("types")
    BY <2>1 DEF SaidInv, Clumping, Pass
  <2>3. SaidBy("types")'
    BY <1>1, <2>1, <2>2, SaidStays, ClumpFindings DEF Selected
  <2> QED BY <1>2, <2>1, <2>3 DEF SaidInv, Clumping
<1>9. CASE ExamineStructs
  <2>1. /\ stage = "structs" /\ stage' = "over"
        /\ smells' = smells \cup Selected(StructSmells)
    BY <1>9 DEF ExamineStructs
  <2>2. \A pass : SaidBy(pass) => SaidBy(pass)'
    BY <1>1, <2>1, SaidStays, OtherFindings DEF Selected
  <2> QED BY <1>2, <2>1, <2>2 DEF SaidInv, Clumping
<1>10. CASE UNCHANGED packageVars
  <2>1. UNCHANGED <<source, stage, smells, clumps>>
    BY <1>10 DEF packageVars
  <2>2. Pass' = Pass /\ Clumping' = Clumping
    BY <2>1 DEF Pass, Clumping
  <2>3. \A pass : SaidBy(pass) => SaidBy(pass)'
    BY <2>1, SaidStays
  <2> QED BY <1>2, <2>1, <2>2, <2>3 DEF SaidInv
<1> QED BY <1>3, <1>4, <1>5, <1>6, <1>7, <1>8, <1>9, <1>10 DEF PackageNext

LEMMA SaidOnce ==
  ASSUME OwnPositions, NEW pass, SaidBy(pass)
  PROVE  OneParameterFindingEach
<1> SUFFICES ASSUME NEW s \in smells, NEW r \in smells,
                    s.check \in {"flag-argument", "mixed-input-surface"},
                    r.check \in ParameterChecks, r # s
             PROVE  IF r.check = "data-clump" THEN s.at \notin r.group ELSE r.at # s.at
  BY DEF OneParameterFindingEach
<1>1. s \in ParameterSmells(pass)
  BY DEF SaidBy, ParameterChecks
<1>2. PICK f \in source.functions :
        /\ s = Smell(s.check, f.at)
        /\ s.check = "flag-argument" => FlagArgument(f, pass)
        /\ s.check = "mixed-input-surface" => MixedInputSurface(f, pass)
  BY <1>1 DEF ParameterSmells, Smell
<1>3. f \notin Unreported(pass) /\ s.at = f.at
  BY <1>2 DEF Unreported, Smell
<1>4. CASE r.check = "data-clump"
  <2>1. r \notin ParameterSmells(pass)
    BY <1>4 DEF ParameterSmells, Smell
  <2>2. r.group \subseteq {g.at : g \in Unreported(pass)}
    BY <2>1 DEF SaidBy
  <2>3. Unreported(pass) \subseteq source.functions
    BY DEF Unreported
  <2> QED BY <1>3, <1>4, <2>2, <2>3 DEF OwnPositions
<1>5. CASE r.check # "data-clump"
  <2>1. r \in ParameterSmells(pass)
    BY <1>5 DEF SaidBy
  <2>2. PICK g \in source.functions :
          /\ r = Smell(r.check, g.at)
          /\ r.check = "flag-argument" => FlagArgument(g, pass)
          /\ r.check = "mixed-input-surface" => MixedInputSurface(g, pass)
          /\ r.check \in {"flag-argument", "mixed-input-surface"}
    BY <2>1 DEF ParameterSmells, Smell
  <2>3. SUFFICES ASSUME r.at = s.at PROVE FALSE
    BY <1>5
  <2>4. g = f
    BY <1>3, <2>2, <2>3 DEF Smell, OwnPositions
  <2>5. r.check # s.check
    BY <1>2, <2>2, <2>4
  <2> QED BY <1>2, <2>2, <2>4, <2>5 DEF MixedInputSurface
<1> QED BY <1>4, <1>5

\* The passes over syntax and over types report the parameters of a function
\* once between them (srp_metrics.go:34), for any functions and selection.
THEOREM ParametersReportedOnce ==
  OwnPositions /\ PackageSpec => []OneParameterFindingEach
<1>1. OwnPositions /\ PackageInit => SaidInv
  BY DEF PackageInit, SaidInv, Clumping
<1>2. SaidInv => OneParameterFindingEach
  <2>1. SaidInv /\ stage = "functions" => OneParameterFindingEach
    BY DEF SaidInv, OneParameterFindingEach
  <2>2. SaidInv /\ stage # "functions" => OneParameterFindingEach
    BY SaidOnce DEF SaidInv
  <2> QED BY <2>1, <2>2
<1> QED BY <1>1, <1>2, SaidStep, PTL DEF PackageSpec

-----------------------------------------------------------------------------
(***************************************************************************)
(* SOLID-D over the program: LayerSelectionOnlyFilters for any packages,   *)
(* layers and selection.  What makes it hold is that the sites of hidden   *)
(* constructions, which the check after needs, are there when that check   *)
(* is enabled.                                                             *)
(***************************************************************************)
\* The findings of the checks that are over, filtered.
ReportedSoFar ==
  {f \in WholeReport :
     f.check \in layers.enabled /\ \E k \in 1..turn : f.check = LayerChecks[k]}

LayerInv ==
  /\ turn \in 0..5
  /\ issues = ReportedSoFar
  /\ turn >= 2 => sites = HiddenSites

-----------------------------------------------------------------------------

LEMMA FiveChecks ==
  /\ Len(LayerChecks) = 5
  /\ LayerChecks[1] = "layer-import"
  /\ LayerChecks[2] = "hidden-construction"
  /\ LayerChecks[3] = "wiring-outside-root"
  /\ LayerChecks[4] = "infra-error-leak"
  /\ LayerChecks[5] = "transport-leak"
BY DEF LayerChecks

\* Each part of the whole report is one check's.
LEMMA PartsByCheck ==
  /\ \A f \in LayerImports : f.check = "layer-import"
  /\ \A f \in Hidden : f.check = "hidden-construction"
  /\ \A f \in InfraErrorLeaks : f.check = "infra-error-leak"
  /\ \A f \in TransportLeaks : f.check = "transport-leak"
  /\ \A earlier : \A f \in WiringOutsideRoot(earlier) : f.check = "wiring-outside-root"
<1>1. \A f \in LayerImports : f.check = "layer-import"
  BY DEF LayerImports, Finding
<1>2. \A f \in Hidden : f.check = "hidden-construction"
  BY DEF Hidden, Finding
<1>3. \A f \in InfraErrorLeaks : f.check = "infra-error-leak"
  BY DEF InfraErrorLeaks, Finding
<1>4. \A f \in TransportLeaks : f.check = "transport-leak"
  BY DEF TransportLeaks, Finding
<1>5. \A earlier : \A f \in WiringOutsideRoot(earlier) : f.check = "wiring-outside-root"
  BY DEF WiringOutsideRoot, Finding
<1> QED BY <1>1, <1>2, <1>3, <1>4, <1>5

LEMMA ReportOfOneCheck ==
  /\ {f \in WholeReport : f.check = "layer-import"} = LayerImports
  /\ {f \in WholeReport : f.check = "hidden-construction"} = Hidden
  /\ {f \in WholeReport : f.check = "wiring-outside-root"}
       = WiringOutsideRoot({f.at : f \in Hidden})
  /\ {f \in WholeReport : f.check = "infra-error-leak"} = InfraErrorLeaks
  /\ {f \in WholeReport : f.check = "transport-leak"} = TransportLeaks
<1> DEFINE W == WiringOutsideRoot({f.at : f \in Hidden})
<1>1. \A f \in W : f.check = "wiring-outside-root"
  BY PartsByCheck
<1>2. WholeReport = LayerImports \cup Hidden \cup W \cup InfraErrorLeaks \cup TransportLeaks
  BY DEF WholeReport
<1> HIDE DEF W
<1>3. /\ {f \in WholeReport : f.check = "layer-import"} = LayerImports
      /\ {f \in WholeReport : f.check = "hidden-construction"} = Hidden
      /\ {f \in WholeReport : f.check = "wiring-outside-root"} = W
      /\ {f \in WholeReport : f.check = "infra-error-leak"} = InfraErrorLeaks
      /\ {f \in WholeReport : f.check = "transport-leak"} = TransportLeaks
  BY <1>1, <1>2, PartsByCheck
<1> QED BY <1>3 DEF W

\* A check that says what the whole report holds of it keeps the invariant.
LEMMA EmitKeepsReport ==
  ASSUME LayerInv, NEW check, NEW found, Emit(check, found),
         check \in layers.enabled => found = {f \in WholeReport : f.check = check}
  PROVE  turn' \in 0..5 /\ issues' = ReportedSoFar'
<1>1. turn \in 0..4 /\ LayerChecks[turn + 1] = check /\ turn' = turn + 1
  BY FiveChecks DEF LayerInv, Emit
<1>2. layers' = layers /\ WholeReport' = WholeReport
  BY DEF Emit, WholeReport, LayerImports, Hidden, WiringOutsideRoot, InfraErrorLeaks,
         TransportLeaks, LogicPackages, ArchitectureEnabled, In, ForbiddenLogicImport,
         HiddenConstructions, ImplementationConstructions
<1>3. 1..turn' = (1..turn) \cup {turn + 1}
  BY <1>1
<1>4. ReportedSoFar' =
        {f \in WholeReport : f.check \in layers.enabled
                             /\ \E k \in 1..turn' : f.check = LayerChecks[k]}
  BY <1>2 DEF ReportedSoFar, LayerChecks
<1>5. ReportedSoFar' =
        ReportedSoFar \cup {f \in WholeReport : f.check \in layers.enabled /\ f.check = check}
  BY <1>1, <1>3, <1>4 DEF ReportedSoFar
<1>6. issues' = IF check \in layers.enabled THEN issues \cup found ELSE issues
  BY DEF Emit
<1>7. issues = ReportedSoFar
  BY DEF LayerInv
<1>8. CASE check \in layers.enabled
  <2>1. {f \in WholeReport : f.check \in layers.enabled /\ f.check = check} = found
    BY <1>8
  <2> QED BY <1>1, <1>5, <1>6, <1>7, <1>8, <2>1
<1>9. CASE check \notin layers.enabled
  <2>1. {f \in WholeReport : f.check \in layers.enabled /\ f.check = check} = {}
    BY <1>9
  <2> QED BY <1>1, <1>5, <1>6, <1>7, <1>9, <2>1
<1> QED BY <1>8, <1>9

LEMMA SitesStay ==
  ASSUME layers' = layers
  PROVE  HiddenSites' = HiddenSites
BY DEF HiddenSites, Hidden, LogicPackages, ArchitectureEnabled, In,
       HiddenConstructions, ImplementationConstructions

LEMMA LayerStep ==
  LayerInv /\ [LayerNext]_layerVars => LayerInv'
<1> SUFFICES ASSUME LayerInv, [LayerNext]_layerVars PROVE LayerInv'
  OBVIOUS
<1> USE FiveChecks
<1>1. CASE LayerImport
  <2>1. Emit("layer-import", LayerImports)
    BY <1>1 DEF LayerImport
  <2>2. turn' \in 0..5 /\ issues' = ReportedSoFar'
    BY <2>1, EmitKeepsReport, ReportOfOneCheck
  <2>3. turn' = 1
    BY <2>1 DEF Emit, LayerInv
  <2> QED BY <2>2, <2>3 DEF LayerInv
<1>2. CASE HiddenConstruction
  <2>1. Emit("hidden-construction", Hidden) /\ sites' = HiddenSites /\ layers' = layers
    BY <1>2 DEF HiddenConstruction, Emit
  <2>2. turn' \in 0..5 /\ issues' = ReportedSoFar'
    BY <2>1, EmitKeepsReport, ReportOfOneCheck
  <2> QED BY <2>1, <2>2, SitesStay DEF LayerInv
<1>3. CASE Wiring
  <2>1. Emit("wiring-outside-root", WiringOutsideRoot(sites)) /\ sites' = sites /\ layers' = layers
    BY <1>3 DEF Wiring, Emit
  <2>2. turn = 2
    BY <2>1 DEF Emit, LayerInv
  <2>3. "wiring-outside-root" \in layers.enabled => sites = {f.at : f \in Hidden}
    BY <2>2 DEF LayerInv, HiddenSites
  <2>4. turn' \in 0..5 /\ issues' = ReportedSoFar'
    BY <2>1, <2>3, EmitKeepsReport, ReportOfOneCheck
  <2> QED BY <2>1, <2>2, <2>4, SitesStay DEF LayerInv
<1>4. CASE InfraErrorLeak
  <2>1. Emit("infra-error-leak", InfraErrorLeaks) /\ sites' = sites /\ layers' = layers
    BY <1>4 DEF InfraErrorLeak, Emit
  <2>2. turn' \in 0..5 /\ issues' = ReportedSoFar'
    BY <2>1, EmitKeepsReport, ReportOfOneCheck
  <2>3. turn = 3
    BY <2>1 DEF Emit, LayerInv
  <2> QED BY <2>1, <2>2, <2>3, SitesStay DEF LayerInv
<1>5. CASE TransportLeak
  <2>1. Emit("transport-leak", TransportLeaks) /\ sites' = sites /\ layers' = layers
    BY <1>5 DEF TransportLeak, Emit
  <2>2. turn' \in 0..5 /\ issues' = ReportedSoFar'
    BY <2>1, EmitKeepsReport, ReportOfOneCheck
  <2>3. turn = 4
    BY <2>1 DEF Emit, LayerInv
  <2> QED BY <2>1, <2>2, <2>3, SitesStay DEF LayerInv
<1>6. CASE UNCHANGED layerVars
  <2>1. UNCHANGED <<layers, turn, issues, sites>>
    BY <1>6 DEF layerVars
  <2>2. WholeReport' = WholeReport
    BY <2>1 DEF WholeReport, LayerImports, Hidden, WiringOutsideRoot, InfraErrorLeaks,
         TransportLeaks, LogicPackages, ArchitectureEnabled, In, ForbiddenLogicImport,
         HiddenConstructions, ImplementationConstructions
  <2> QED BY <2>1, <2>2, SitesStay DEF LayerInv, ReportedSoFar, LayerChecks
<1> QED BY <1>1, <1>2, <1>3, <1>4, <1>5, <1>6 DEF LayerNext

\* The report of the checks that are over is the whole report, filtered.
THEOREM LayerInvariance == LayerSpec => []LayerInv
<1>1. LayerInit => LayerInv
  BY DEF LayerInit, LayerInv, ReportedSoFar
<1> QED BY <1>1, LayerStep, PTL DEF LayerSpec

\* Disabling a check of SOLID-D takes its findings from the report and changes
\* nothing else (dip_program.go:33), for any program and configuration.
THEOREM LayerSelection == LayerSpec => []LayerSelectionOnlyFilters
<1>1. LayerInv => LayerSelectionOnlyFilters
  <2> SUFFICES ASSUME LayerInv, LayerDone
               PROVE  issues = {f \in WholeReport : f.check \in layers.enabled}
    BY DEF LayerSelectionOnlyFilters
  <2>1. turn = 5
    BY FiveChecks DEF LayerDone
  <2>2. \A f \in WholeReport : \E k \in 1..5 : f.check = LayerChecks[k]
    <3>1. {1, 2, 3, 4, 5} \subseteq 1..5
      OBVIOUS
    <3>2. \A f \in WholeReport :
            f.check \in {"layer-import", "hidden-construction", "wiring-outside-root",
                         "infra-error-leak", "transport-leak"}
      BY PartsByCheck DEF WholeReport
    <3> QED BY <3>1, <3>2, FiveChecks
  <2> QED BY <2>1, <2>2 DEF LayerInv, ReportedSoFar
<1> QED BY <1>1, LayerInvariance, PTL

-----------------------------------------------------------------------------
(***************************************************************************)
(* SOLID-O: its checks can be switched off one by one.                     *)
(***************************************************************************)
Selectable(check, found) == IF check \in code.enabled THEN found ELSE {}
AfterFactories == {r \in TypeDispatch : r.at \notin {c.at : c \in ClosedFactory}}

\* What the second to the fourth, and the last three checks add.
Second == Selectable("discriminator-dispatch", DiscriminatorDispatch)
Third == Selectable("runtime-exhaustiveness", RuntimeExhaustiveness(Marks))
Fourth == Selectable("concrete-parameter", ConcreteParameter)
Fifth == Selectable("closed-factory", ClosedFactory)
Sixth == Selectable("implementation-coupling", ImplementationCoupling)
Seventh(primary) == Selectable("parallel-implementations", ParallelImplementations(primary))

\* The report when n checks are over, the last one apart.  Closed factories leave the findings of
\* type-dispatch when their check has its turn, enabled or not.
First(n) == Selectable("type-dispatch", IF n >= 5 THEN AfterFactories ELSE TypeDispatch)
Said(n) ==
  (IF n >= 1 THEN First(n) ELSE {})
    \cup (IF n >= 2 THEN Second ELSE {}) \cup (IF n >= 3 THEN Third ELSE {})
    \cup (IF n >= 4 THEN Fourth ELSE {}) \cup (IF n >= 5 THEN Fifth ELSE {})
    \cup (IF n >= 6 THEN Sixth ELSE {})

DispatchInv ==
  /\ step \in 0..7
  /\ flagged = [dispatches |-> IF step >= 1 THEN Marks.dispatches ELSE {},
                discriminators |-> IF step >= 2 THEN Marks.discriminators ELSE {}]
  /\ step <= 6 => findings = Said(step)
  /\ step = 7 => \E primary \in Primaries : findings = Said(6) \cup Seventh(primary)

-----------------------------------------------------------------------------

LEMMA SevenChecks ==
  /\ Len(DispatchChecks) = 7
  /\ DispatchChecks[1] = "type-dispatch"
  /\ DispatchChecks[2] = "discriminator-dispatch"
  /\ DispatchChecks[3] = "runtime-exhaustiveness"
  /\ DispatchChecks[4] = "concrete-parameter"
  /\ DispatchChecks[5] = "closed-factory"
  /\ DispatchChecks[6] = "implementation-coupling"
  /\ DispatchChecks[7] = "parallel-implementations"
BY DEF DispatchChecks

LEMMA ReportsByCheck ==
  /\ \A r \in TypeDispatch : r.check = "type-dispatch"
  /\ \A r \in DiscriminatorDispatch : r.check = "discriminator-dispatch"
  /\ \A m : \A r \in RuntimeExhaustiveness(m) : r.check = "runtime-exhaustiveness"
  /\ \A r \in ConcreteParameter : r.check = "concrete-parameter"
  /\ \A r \in ClosedFactory : r.check = "closed-factory"
  /\ \A r \in ImplementationCoupling : r.check = "implementation-coupling"
  /\ \A p : \A r \in ParallelImplementations(p) : r.check = "parallel-implementations"
<1>1. \A r \in TypeDispatch : r.check = "type-dispatch"
  BY DEF TypeDispatch, Report
<1>2. \A r \in DiscriminatorDispatch : r.check = "discriminator-dispatch"
  BY DEF DiscriminatorDispatch, Report
<1>3. \A m : \A r \in RuntimeExhaustiveness(m) : r.check = "runtime-exhaustiveness"
  BY DEF RuntimeExhaustiveness, Report
<1>4. \A r \in ConcreteParameter : r.check = "concrete-parameter"
  BY DEF ConcreteParameter, Report
<1>5. \A r \in ClosedFactory : r.check = "closed-factory"
  BY DEF ClosedFactory, Report
<1>6. \A r \in ImplementationCoupling : r.check = "implementation-coupling"
  BY DEF ImplementationCoupling, Report
<1>7. \A p : \A r \in ParallelImplementations(p) : r.check = "parallel-implementations"
  BY DEF ParallelImplementations, Report
<1> QED BY <1>1, <1>2, <1>3, <1>4, <1>5, <1>6, <1>7

\* What a check says depends on the code alone, and on the marks.
LEMMA CodeDecides ==
  ASSUME UNCHANGED code
  PROVE  /\ Marks' = Marks /\ \A n : Said(n)' = Said(n)
         /\ Primaries' = Primaries /\ \A p : Seventh(p)' = Seventh(p)
<1>1. FlaggedDispatch' = FlaggedDispatch
  BY DEF FlaggedDispatch, DispatchFamilies, DispatchLinks
<1>2. FlaggedDiscriminators' = FlaggedDiscriminators
  BY DEF FlaggedDiscriminators, DiscriminatorFamilies, DiscriminatorLinks, Discriminators
<1>3. TypeDispatch' = TypeDispatch /\ DiscriminatorDispatch' = DiscriminatorDispatch
  BY <1>1, <1>2 DEF TypeDispatch, DiscriminatorDispatch
<1>4. Marks' = Marks
  BY <1>1, <1>2 DEF Marks
<1>5. RuntimeExhaustiveness(Marks)' = RuntimeExhaustiveness(Marks)
  BY <1>4 DEF RuntimeExhaustiveness
<1>6. ConcreteParameter' = ConcreteParameter /\ ImplementationCoupling' = ImplementationCoupling
  BY DEF ConcreteParameter, ImplementationCoupling
<1>7. ClosedFactory' = ClosedFactory
  BY DEF ClosedFactory, Products
<1>8. /\ ParallelGroups' = ParallelGroups /\ Primaries' = Primaries
      /\ \A p : ParallelImplementations(p)' = ParallelImplementations(p)
  <2>1. ParallelGroups' = ParallelGroups /\ Compared' = Compared
    BY DEF ParallelGroups, Leaders, UsedBefore, ParallelGroup, Counterparts, Compared
  <2>2. \A G : FirstNamed(G)' = FirstNamed(G)
    BY DEF FirstNamed
  <2>3. Primaries' = Primaries
    BY <2>1, <2>2 DEF Primaries
  <2>4. \A p : ParallelImplementations(p)' = ParallelImplementations(p)
    BY <2>1 DEF ParallelImplementations
  <2> QED BY <2>1, <2>3, <2>4
<1>9. AfterFactories' = AfterFactories
  BY <1>3, <1>7 DEF AfterFactories
<1>10. /\ Second' = Second /\ Third' = Third /\ Fourth' = Fourth /\ Fifth' = Fifth
       /\ Sixth' = Sixth /\ (\A p : Seventh(p)' = Seventh(p))
       /\ \A n : First(n)' = First(n)
  BY <1>3, <1>5, <1>6, <1>7, <1>8, <1>9
     DEF Selectable, First, Second, Third, Fourth, Fifth, Sixth, Seventh
<1> QED BY <1>4, <1>8, <1>10 DEF Said

LEMMA TurnOf ==
  ASSUME NEW k \in 1..7, DispatchInv, Turn(DispatchChecks[k])
  PROVE  step = k - 1 /\ step' = k /\ UNCHANGED code
BY SevenChecks DEF DispatchInv, Turn

LEMMA SaidGrows ==
  /\ Said(0) = {} /\ Said(1) = Selectable("type-dispatch", TypeDispatch)
  /\ Said(2) = Said(1) \cup Second /\ Said(3) = Said(2) \cup Third
  /\ Said(4) = Said(3) \cup Fourth
  /\ Said(5) = Selectable("type-dispatch", AfterFactories)
                 \cup Second \cup Third \cup Fourth \cup Fifth
  /\ Said(6) = Said(5) \cup Sixth
<1>1. Said(0) = {} /\ Said(1) = First(1)
  BY DEF Said
<1>2. First(1) = Selectable("type-dispatch", TypeDispatch)
  BY DEF First
<1>3. Said(2) = First(2) \cup Second /\ First(2) = First(1)
  BY DEF Said, First
<1>4. Said(3) = First(3) \cup Second \cup Third /\ First(3) = First(1)
  BY DEF Said, First
<1>5. Said(4) = First(4) \cup Second \cup Third \cup Fourth /\ First(4) = First(1)
  BY DEF Said, First
<1>6. Said(5) = First(5) \cup Second \cup Third \cup Fourth \cup Fifth
  BY DEF Said
<1>7. First(5) = Selectable("type-dispatch", AfterFactories)
  BY DEF First
<1>8. Said(6) = First(6) \cup Second \cup Third \cup Fourth \cup Fifth \cup Sixth
      /\ First(6) = First(5)
  BY DEF Said, First
<1> QED BY <1>1, <1>2, <1>3, <1>4, <1>5, <1>6, <1>7, <1>8

\* A step to k checks is accounted for by what it adds and what it marks.
LEMMA StepTo ==
  ASSUME NEW k \in 1..6, step' = k, UNCHANGED code, findings' = Said(k),
         flagged' = [dispatches |-> Marks.dispatches,
                     discriminators |-> IF k >= 2 THEN Marks.discriminators ELSE {}]
  PROVE  DispatchInv'
BY CodeDecides DEF DispatchInv

LEMMA DispatchStep ==
  DispatchInv /\ [DispatchNext]_dispatchVars => DispatchInv'
<1> SUFFICES ASSUME DispatchInv, [DispatchNext]_dispatchVars PROVE DispatchInv'
  OBVIOUS
<1> USE SevenChecks
<1>1. CASE EmitDispatch
  <2>1. step = 0 /\ step' = 1 /\ UNCHANGED code
    BY <1>1, TurnOf DEF EmitDispatch
  <2>2. findings' = Said(1)
    <3>1. findings = Said(0)
      BY <2>1 DEF DispatchInv
    <3> QED BY <1>1, <3>1, SaidGrows DEF EmitDispatch, Reporting, Selectable
  <2>3. flagged' = [dispatches |-> Marks.dispatches, discriminators |-> {}]
    <3>1. flagged = [dispatches |-> {}, discriminators |-> {}]
      BY <2>1 DEF DispatchInv
    <3>2. flagged' = IF "type-dispatch" \in code.enabled
                     THEN [flagged EXCEPT !.dispatches = UNION FlaggedDispatch] ELSE flagged
      BY <1>1 DEF EmitDispatch
    <3>3. Marks.dispatches = IF "type-dispatch" \in code.enabled THEN UNION FlaggedDispatch ELSE {}
      BY DEF Marks
    <3> QED BY <3>1, <3>2, <3>3
  <2> QED BY <2>1, <2>2, <2>3, StepTo
<1>2. CASE EmitDiscriminators
  <2>1. step = 1 /\ step' = 2 /\ UNCHANGED code
    BY <1>2, TurnOf DEF EmitDiscriminators
  <2>2. findings' = Said(2)
    <3>1. findings = Said(1)
      BY <2>1 DEF DispatchInv
    <3> QED BY <1>2, <3>1, SaidGrows DEF EmitDiscriminators, Reporting, Selectable, Second
  <2>3. flagged' = [dispatches |-> Marks.dispatches, discriminators |-> Marks.discriminators]
    <3>1. flagged = [dispatches |-> Marks.dispatches, discriminators |-> {}]
      BY <2>1 DEF DispatchInv
    <3>2. flagged' = IF "discriminator-dispatch" \in code.enabled
                     THEN [flagged EXCEPT !.discriminators = UNION FlaggedDiscriminators]
                     ELSE flagged
      BY <1>2 DEF EmitDiscriminators
    <3>3. Marks.discriminators =
            IF "discriminator-dispatch" \in code.enabled THEN UNION FlaggedDiscriminators ELSE {}
      BY DEF Marks
    <3> QED BY <3>1, <3>2, <3>3
  <2> QED BY <2>1, <2>2, <2>3, StepTo
<1>3. CASE EmitRuntime
  <2>1. step = 2 /\ step' = 3 /\ UNCHANGED <<code, flagged>>
    BY <1>3, TurnOf DEF EmitRuntime
  <2>2. flagged = Marks
    BY <2>1 DEF DispatchInv, Marks
  <2>3. findings = Said(2)
    BY <2>1 DEF DispatchInv
  <2>4. findings' = Said(3)
    BY <1>3, <2>2, <2>3, SaidGrows DEF EmitRuntime, Reporting, Selectable, Third
  <2> QED BY <2>1, <2>4, StepTo DEF DispatchInv
<1>4. CASE EmitConcreteParameters
  <2>1. step = 3 /\ step' = 4 /\ UNCHANGED <<code, flagged>>
    BY <1>4, TurnOf DEF EmitConcreteParameters
  <2>2. findings = Said(3)
    BY <2>1 DEF DispatchInv
  <2>3. findings' = Said(4)
    BY <1>4, <2>2, SaidGrows DEF EmitConcreteParameters, Reporting, Selectable, Fourth
  <2> QED BY <2>1, <2>3, StepTo DEF DispatchInv
<1>5. CASE EmitFactories
  <2>1. step = 4 /\ step' = 5 /\ UNCHANGED <<code, flagged>>
    BY <1>5, TurnOf DEF EmitFactories
  <2> DEFINE kept == {r \in findings : r.check = "type-dispatch" => r.at \notin FactorySitePositions}
  <2>2. findings' = IF "closed-factory" \in code.enabled THEN kept \cup ClosedFactory ELSE kept
    BY <1>5 DEF EmitFactories
  <2>3. "type-dispatch" \in code.enabled => FactorySitePositions = {c.at : c \in ClosedFactory}
    BY DEF FactorySitePositions
  <2>4. findings = Selectable("type-dispatch", TypeDispatch) \cup Second \cup Third \cup Fourth
    <3>1. findings = Said(4)
      BY <2>1 DEF DispatchInv
    <3> QED BY <3>1, SaidGrows
  <2>5. \A r \in Second \cup Third \cup Fourth : r.check # "type-dispatch"
    BY ReportsByCheck DEF Second, Third, Fourth, Selectable
  <2>6. \A r \in TypeDispatch : r.check = "type-dispatch"
    BY ReportsByCheck
  <2>7. kept = Selectable("type-dispatch", AfterFactories) \cup Second \cup Third \cup Fourth
    BY <2>3, <2>4, <2>5, <2>6 DEF AfterFactories, Selectable
  <2> HIDE DEF kept
  <2>8. findings' = Said(5)
    BY <2>2, <2>7, SaidGrows DEF Fifth, Selectable
  <2> QED BY <2>1, <2>8, StepTo DEF DispatchInv
<1>6. CASE EmitImplementationCoupling
  <2>1. step = 5 /\ step' = 6 /\ UNCHANGED <<code, flagged>>
    BY <1>6, TurnOf DEF EmitImplementationCoupling
  <2>2. findings' = Said(6)
    <3>1. findings = Said(5)
      BY <2>1 DEF DispatchInv
    <3> QED BY <1>6, <3>1, SaidGrows DEF EmitImplementationCoupling, Reporting, Selectable, Sixth
  <2> QED BY <2>1, <2>2, StepTo DEF DispatchInv
<1>7. CASE EmitParallelImplementations
  <2>1. step = 6 /\ step' = 7 /\ UNCHANGED <<code, flagged>>
    BY <1>7, TurnOf DEF EmitParallelImplementations
  <2>2. PICK primary \in Primaries :
          Reporting("parallel-implementations", ParallelImplementations(primary))
    BY <1>7 DEF EmitParallelImplementations
  <2>3. findings' = Said(6) \cup Seventh(primary)
    BY <2>1, <2>2 DEF Reporting, DispatchInv, Selectable, Seventh
  <2>4. /\ primary \in Primaries' /\ Said(6)' = Said(6)
        /\ Seventh(primary)' = Seventh(primary)
    BY <2>1, CodeDecides
  <2>5. \E p \in Primaries' : findings' = Said(6)' \cup Seventh(p)'
    BY <2>3, <2>4
  <2>6. flagged' = [dispatches |-> Marks'.dispatches, discriminators |-> Marks'.discriminators]
    BY <2>1, CodeDecides DEF DispatchInv
  <2> QED BY <2>1, <2>5, <2>6 DEF DispatchInv
<1>8. CASE UNCHANGED dispatchVars
  BY <1>8, CodeDecides DEF DispatchInv, dispatchVars
<1> QED BY <1>1, <1>2, <1>3, <1>4, <1>5, <1>6, <1>7, <1>8 DEF DispatchNext

\* Disabling a check of SOLID-O changes nothing in what another reports, but
\* for runtime-exhaustiveness, which reads the marks (ocp.go:62), for any code.
THEOREM DispatchSelection == DispatchSpec => []DispatchSelectionOnlyFilters
<1>1. DispatchInit => DispatchInv
  BY SaidGrows DEF DispatchInit, DispatchInv
<1>2. DispatchInv => DispatchSelectionOnlyFilters
  <2> SUFFICES ASSUME DispatchInv, DispatchDone
               PROVE  \E p \in Primaries :
                        findings = {r \in WholeDispatchReport(p) \cup RuntimeExhaustiveness(Marks) :
                                      r.check \in code.enabled}
    BY DEF DispatchSelectionOnlyFilters
  <2>1. PICK primary \in Primaries : findings = Said(6) \cup Seventh(primary)
    BY SevenChecks DEF DispatchDone, DispatchInv
  <2>2. findings = Selectable("type-dispatch", AfterFactories) \cup Second \cup Third
                     \cup Fourth \cup Fifth \cup Sixth \cup Seventh(primary)
    BY <2>1, SaidGrows
  <2>3. WholeDispatchReport(primary) =
          AfterFactories \cup DiscriminatorDispatch \cup ConcreteParameter \cup ClosedFactory
            \cup ImplementationCoupling \cup ParallelImplementations(primary)
    BY DEF WholeDispatchReport, AfterFactories
  <2>4. \A r \in AfterFactories : r.check = "type-dispatch"
    BY ReportsByCheck DEF AfterFactories
  <2> DEFINE runtime == RuntimeExhaustiveness(Marks)
  <2>5. \A r \in runtime : r.check = "runtime-exhaustiveness"
    BY ReportsByCheck
  <2>6. Third = IF "runtime-exhaustiveness" \in code.enabled THEN runtime ELSE {}
    BY DEF Third, Selectable
  <2> HIDE DEF runtime
  <2>7. findings = {r \in WholeDispatchReport(primary) \cup runtime : r.check \in code.enabled}
    BY <2>2, <2>3, <2>4, <2>5, <2>6, ReportsByCheck
       DEF Selectable, Second, Fourth, Fifth, Sixth, Seventh
  <2> QED BY <2>7 DEF runtime
<1> QED BY <1>1, <1>2, DispatchStep, PTL DEF DispatchSpec

-----------------------------------------------------------------------------
(***************************************************************************)
(* SOLID-I, for any package and interfaces: what the typed checks say of   *)
(* one field fits together.  Whatever the check has asked about is known   *)
(* or being searched; a method called on a field is a direct use of it.    *)
(***************************************************************************)
\* A package has finitely many uses and calls finitely many methods; a field
\* is passed to functions whose parameters are known.
FinitePackage ==
  /\ IsFiniteSet(pkg.uses)
  /\ \A u \in pkg.uses : u.as = "passed" => u.to \in DOMAIN pkg.params
  /\ \A q \in DOMAIN pkg.params : IsFiniteSet(pkg.params[q].methods)

AskedIsKnown == \A f \in asked : Known(f)
VerdictInv == FlowInv /\ FinitePackage /\ AskedIsKnown

LEMMA KnownStays ==
  ASSUME FlowInv, [FlowNext]_flowVars, NEW f, Known(f)
  PROVE  Known(f)'
<1>1. frames \in Seq(FrameSet)
  BY DEF FlowInv, FlowTypeOK, FrameSet
<1>2. UNCHANGED pkg
  BY DEF FlowNext, Ask, Follow, Remember, flowVars
<1>3. SUFFICES ASSUME f \in DOMAIN memo \/ Visiting(f)
               PROVE  f \in DOMAIN memo' \/ Visiting(f)'
  BY <1>2, PackageDecides DEF Known
<1>4. CASE UNCHANGED flowVars
  BY <1>3, <1>4 DEF flowVars, Visiting
<1>5. ASSUME NEW g \in Fields, Ask(g)
      PROVE  f \in DOMAIN memo'
  BY <1>3, <1>5 DEF Ask, Visiting
<1>6. ASSUME NEW d \in Fields, Follow(d)
      PROVE  f \in DOMAIN memo' \/ Visiting(f)'
  <2>1. UNCHANGED memo /\ frames # <<>>
    BY <1>6 DEF Follow
  <2>2. ASSUME NEW i \in DOMAIN frames, frames[i].field = f PROVE Visiting(f)'
    <3>1. CASE Known(d)
      <4>1. frames' = [frames EXCEPT ![1].rest = @ \ {d}, ![1].found = Answer(d)]
        BY <1>6, <3>1 DEF Follow
      <4>2. DOMAIN frames' = DOMAIN frames /\ frames'[i].field = frames[i].field
        BY <1>1, <2>2, <4>1 DEF FrameSet
      <4> QED BY <2>2, <4>2 DEF Visiting
    <3>2. CASE ~Known(d)
      <4>1. frames' = <<Frame(d)>> \o frames /\ Frame(d) \in FrameSet
        BY <1>6, <3>2, FrameTyped DEF Follow, FlowInv
      <4>2. i + 1 \in DOMAIN frames' /\ frames'[i + 1] = frames[i]
        BY <1>1, <2>2, <4>1, Pushed
      <4> QED BY <2>2, <4>2 DEF Visiting
    <3> QED BY <3>1, <3>2
  <2> QED BY <1>3, <2>1, <2>2 DEF Visiting
<1>7. CASE Remember
  <2>1. frames # <<>> /\ frames' = Tail(frames)
        /\ DOMAIN memo' = DOMAIN memo \cup {Head(frames).field}
    BY <1>7 DEF Remember
  <2>2. ASSUME NEW i \in DOMAIN frames, frames[i].field = f, i # 1 PROVE Visiting(f)'
    <3>1. i - 1 \in DOMAIN frames' /\ frames'[i - 1] = frames[i]
      BY <1>1, <2>1, <2>2
    <3> QED BY <2>2, <3>1 DEF Visiting
  <2>3. Head(frames) = frames[1]
    BY <1>1, <2>1
  <2> QED BY <1>3, <2>1, <2>2, <2>3 DEF Visiting
<1> QED BY <1>4, <1>5, <1>6, <1>7 DEF FlowNext

LEMMA AskedStaysKnown ==
  ASSUME VerdictInv, [FlowNext]_flowVars
  PROVE  AskedIsKnown'
<1> SUFFICES ASSUME NEW f \in asked' PROVE Known(f)'
  BY DEF AskedIsKnown
<1>1. CASE f \in asked
  BY <1>1, KnownStays DEF VerdictInv, AskedIsKnown
<1>2. CASE f \notin asked
  <2>1. Ask(f) /\ f \in Fields
    BY <1>2 DEF FlowNext, Ask, Follow, Remember, flowVars
  <2>2. CASE Known(f)
    BY <2>2, KnownStays DEF VerdictInv
  <2>3. CASE ~Known(f)
    <3>1. frames' = <<Frame(f)>> /\ Frame(f).field = f
      BY <2>1, <2>3 DEF Ask, Frame
    <3> QED BY <3>1 DEF Known, Visiting
  <2> QED BY <2>2, <2>3
<1> QED BY <1>1, <1>2

-----------------------------------------------------------------------------

\* What the syntax sees of an interface is part of it.
LEMMA SyntaxSeesAPart ==
  ASSUME NEW i \in LocalInterfaces
  PROVE  SyntaxMethods(i) \subseteq Methods[i]
<1> DEFINE parts == {e \in LocalInterfaces : Methods[e] \subseteq Methods[i]}
<1>1. i \in parts
  OBVIOUS
<1>2. ASSUME NEW r \in parts, NEW e \in Embeds[r] \cap LocalInterfaces PROVE e \in parts
  BY <1>2, InterfaceAssumption
<1>3. Embedded(i) \subseteq parts
  <2>1. parts \in SUBSET LocalInterfaces
    OBVIOUS
  <2>2. \A r \in parts : Embeds[r] \cap LocalInterfaces \subseteq parts
    BY <1>2
  <2> HIDE DEF parts
  <2> QED BY <1>1, <2>1, <2>2 DEF Embedded
<1>4. \A e \in parts : Own[e] \subseteq Methods[i]
  BY InterfaceAssumption
<1> HIDE DEF parts
<1> QED BY <1>3, <1>4 DEF SyntaxMethods

LEMMA WholePercent ==
  ASSUME NEW u \in Nat, NEW m \in Nat \ {0}, m <= u
  PROVE  (100 * u) \div m >= 100
<1> DEFINE q == (100 * u) \div m
           r == (100 * u) % m
<1>1. q \in Int /\ r \in 0..(m - 1) /\ 100 * u = m * q + r
  OBVIOUS
<1> HIDE DEF q, r
<1>2. CASE q <= 99
  <2>1. m * q <= m * 99
    BY <1>1, <1>2
  <2> QED BY <1>1, <2>1
<1> QED BY <1>1, <1>2 DEF q

\* A field with a method of its interface in use is used directly.
LEMMA MethodsAreUses ==
  ASSUME NEW f, NEW uses \in SUBSET ReceiverUses(f), MethodsOf(uses) # {}
  PROVE  UsedDirectly(f)
<1>1. PICK u \in uses : u.as \in {"method", "passed"}
  BY DEF MethodsOf
<1> QED BY <1>1 DEF ReceiverUses, UsedDirectly, Kept

LEMMA FunctionImage ==
  ASSUME NEW S, IsFiniteSet(S), NEW g, S = DOMAIN g, g = [x \in S |-> g[x]]
  PROVE  IsFiniteSet({g[x] : x \in S})
<1> DEFINE T == {g[x] : x \in S}
<1>1. g \in [S -> T] /\ \A y \in T : \E x \in S : g[x] = y
  OBVIOUS
<1>2. g \in Surjection(S, T)
  BY <1>1 DEF Surjection
<1> QED BY <1>2, FS_Surjection

LEMMA MethodsAreFinite ==
  ASSUME FinitePackage, NEW f
  PROVE  IsFiniteSet(MethodsOf(ReceiverUses(f)))
<1> DEFINE uses == ReceiverUses(f)
           called == {v \in uses : v.as = "method"}
           passed == {v \in uses : v.as = "passed"}
           names == {u.to : u \in called}
           parts == {pkg.params[u.to].methods : u \in passed}
<1>1. IsFiniteSet(uses) /\ IsFiniteSet(called) /\ IsFiniteSet(passed)
  <2>1. uses \subseteq pkg.uses /\ called \subseteq pkg.uses /\ passed \subseteq pkg.uses
    BY DEF ReceiverUses
  <2> HIDE DEF uses, called, passed
  <2> QED BY <2>1, FS_Subset DEF FinitePackage
<1> HIDE DEF called, passed
<1>2. IsFiniteSet(names) /\ IsFiniteSet(parts)
  <2>1. names = {[u \in called |-> u.to][x] : x \in called}
    OBVIOUS
  <2>2. parts = {[u \in passed |-> pkg.params[u.to].methods][x] : x \in passed}
    OBVIOUS
  <2> HIDE DEF names, parts, called, passed
  <2>4. IsFiniteSet({[u \in called |-> u.to][x] : x \in called})
    BY <1>1, FunctionImage
  <2>5. IsFiniteSet({[u \in passed |-> pkg.params[u.to].methods][x] : x \in passed})
    BY <1>1, FunctionImage
  <2> QED BY <2>1, <2>2, <2>4, <2>5
<1>3. \A p \in parts : IsFiniteSet(p)
  BY DEF FinitePackage, passed, ReceiverUses
<1> HIDE DEF names, parts
<1>4. IsFiniteSet(names \cup UNION parts)
  BY <1>2, <1>3, FS_UNION, FS_Union
<1> QED BY <1>4 DEF MethodsOf, names, parts, called, passed

LEMMA NarrowIsRead ==
  ASSUME VerdictInv
  PROVE  Unused \cap (FieldUsageRatio \cup ConsumerRole) = {}
<1> SUFFICES ASSUME NEW f \in Unused, f \in FieldUsageRatio \cup ConsumerRole PROVE FALSE
  OBVIOUS
<1>1. UsedDirectly(f)
  <2>1. \E uses \in SUBSET ReceiverUses(f) : MethodsOf(uses) # {}
    BY DEF FieldUsageRatio, ConsumerRole, RoleMethods, SeenByRatio
  <2> QED BY <2>1, MethodsAreUses
<1>2. f \in DOMAIN memo /\ ~memo[f]
  BY DEF Unused, Answer, VerdictInv, AskedIsKnown, Known
<1> QED BY <1>1, <1>2 DEF VerdictInv, FlowInv, UnreadIsClosed

LEMMA RatioIsARole ==
  ASSUME NEW f \in FieldUsageRatio, Cardinality(Methods[Role[f]]) >= 4, Role[f] \notin Registries,
         ~Overlooked(f)
  PROVE  f \in ConsumerRole
<1>1. SeenByRatio(f) = ReceiverUses(f)
  BY DEF Overlooked
<1>2. ~RoleIndirect(f)
  BY <1>1 DEF FieldUsageRatio, UsageIndirect, RoleIndirect
<1> QED BY <1>1, <1>2 DEF FieldUsageRatio, ConsumerRole, RoleMethods

LEMMA HandedOn ==
  ASSUME NEW f \in Fields, NEW q \in DOMAIN pkg.params \cap Public,
         Owner[f] \in (Local \cap Public) \ pkg.generated,
         pkg.params[q].role = Role[f],
         ReceiverUses(f) # {},
         \A u \in ReceiverUses(f) : u.as = "passed" /\ u.to = q /\ u.within = "none"
  PROVE  f \in FieldUsageRatio <=> q \in ParameterUsageRatio
<1>0. SeenByRatio(f) = ReceiverUses(f)
  BY InterfaceAssumption DEF SeenByRatio
<1>1. UsageIndirect(f) <=> pkg.params[q].bare
  BY <1>0 DEF UsageIndirect, Lost
<1>2. MethodsOf(SeenByRatio(f)) = pkg.params[q].methods
  BY <1>0 DEF MethodsOf
<1> QED BY <1>1, <1>2 DEF FieldUsageRatio, ParameterUsageRatio

LEMMA ExemptIsWhole ==
  ASSUME FinitePackage, NEW i \in FatInterface(FALSE) \ FatInterface(TRUE)
  PROVE  \E f \in Fields : /\ Role[f] = i /\ FullyConsumed(f)
                           /\ f \notin FieldUsageRatio \/ Overlooked(f)
<1>1. /\ i \in LocalInterfaces /\ i \in DOMAIN Methods
      /\ SyntaxMethods(i) \subseteq Methods[i] /\ IsFiniteSet(Methods[i])
  BY SyntaxSeesAPart, InterfaceAssumption DEF FatInterface
<1>2. Wide(SyntaxMethods(i)) /\ i \notin pkg.generated
  BY DEF FatInterface, CompleteInterface
<1>3. IsFiniteSet(SyntaxMethods(i)) /\ Cardinality(SyntaxMethods(i)) <= Cardinality(Methods[i])
  BY <1>1, FS_Subset
<1>4. /\ Cardinality(Methods[i]) \in Nat /\ Cardinality(SyntaxMethods(i)) \in Nat
      /\ MaxMethods \in Nat
  BY <1>1, <1>3, FS_CardinalityType, InterfaceAssumption
<1>5. Wide(Methods[i]) /\ Cardinality(Methods[i]) \in Nat \ {0}
  BY <1>2, <1>3, <1>4 DEF Wide
<1>6. FullyConsumedComposedInterface(i)
  BY <1>1, <1>2, <1>5 DEF FatInterface, CompleteInterface
<1>7. PICK f \in Fields : Role[f] = i /\ FullyConsumed(f)
  BY <1>6 DEF FullyConsumedComposedInterface
<1>8. f \notin FieldUsageRatio \/ Overlooked(f)
  <2> SUFFICES ASSUME f \in FieldUsageRatio, ~Overlooked(f) PROVE FALSE
    OBVIOUS
  <2> DEFINE uses == ReceiverUses(f)
             used == MethodsOf(uses)
  <2>0. SeenByRatio(f) = uses
    BY DEF Overlooked
  <2>1. \A u \in uses : ~Lost(u)
    BY <2>0 DEF FieldUsageRatio, UsageIndirect
  <2>2. UsesBeforeLost(f) = uses
    BY <2>1 DEF UsesBeforeLost
  <2>3. {u.to : u \in {v \in uses : v.as = "method"}} \subseteq used
    BY DEF MethodsOf
  <2>4. Methods[i] \subseteq used
    BY <1>7, <2>2, <2>3 DEF FullyConsumed
  <2>5. IsFiniteSet(used)
    BY MethodsAreFinite
  <2>6. Cardinality(Methods[i]) <= Cardinality(used) /\ Cardinality(used) \in Nat
    BY <2>4, <2>5, FS_Subset, FS_CardinalityType
  <2>7. Percent(used, i) >= 100
    BY <1>5, <2>6, WholePercent DEF Percent
  <2>8. Percent(used, i) < UsagePercent
    BY <1>7, <2>0 DEF FieldUsageRatio
  <2>9. Percent(used, i) \in Int
    BY <1>5, <2>6 DEF Percent
  <2> HIDE DEF used
  <2> QED BY <2>7, <2>8, <2>9, InterfaceAssumption
<1> QED BY <1>7, <1>8

\* The verdicts of the typed checks on the fields and parameters of a package
\* fit together (isp.go:233, isp_usage.go:123, isp_consumer.go:15); of a field
\* used in the arguments of its own method calls, which usage-ratio overlooks
\* (isp_usage.go:271), this is said only as far as it holds.
THEOREM VerdictsAgree == PackageOK /\ FinitePackage /\ FlowSpec => []FieldVerdictsAgree
<1>1. FinitePackage /\ FlowInit => FinitePackage /\ AskedIsKnown
  BY DEF FlowInit, AskedIsKnown
<1>2. FlowInv /\ FinitePackage /\ AskedIsKnown /\ [FlowNext]_flowVars => (FinitePackage /\ AskedIsKnown)'
  <2>1. FinitePackage /\ [FlowNext]_flowVars => FinitePackage'
    BY DEF FinitePackage, FlowNext, Ask, Follow, Remember, flowVars
  <2> QED BY <2>1, AskedStaysKnown DEF VerdictInv
<1>3. VerdictInv => FieldVerdictsAgree
  BY NarrowIsRead, RatioIsARole, HandedOn, ExemptIsWhole DEF FieldVerdictsAgree, VerdictInv
<1>4. FlowInv /\ FinitePackage /\ AskedIsKnown => VerdictInv
  BY DEF VerdictInv
<1> QED BY <1>1, <1>2, <1>3, <1>4, FlowInvariance, PTL DEF FlowSpec

-----------------------------------------------------------------------------
(***************************************************************************)
(* SOLID-I/constructor-role, for any constructor: when the loops over its  *)
(* statements are over, every one of them is accounted for.  A round that  *)
(* has changed nothing so far has found each statement it has looked at    *)
(* settled; origins that spread stay settled while they are invalidated.   *)
(***************************************************************************)
\* What the syntax of a constructor is.
ConstructorOK ==
  ctor.body \in Seq([spec : BOOLEAN, lhs : Variables \cup {None}, rhs : Variables \cup {None}])

\* A statement that propagates nothing, and one that invalidates nothing.
NothingToPropagate(s) ==
  OriginIn(known, s.rhs) = None \/ s.lhs = None \/ s.lhs \in known.ambiguous
    \/ known.aliases[s.lhs] = OriginIn(known, s.rhs)
NothingToInvalidate(s) ==
  \/ s.spec \/ s.lhs = None \/ s.lhs \in known.ambiguous \/ known.aliases[s.lhs] = None
  \/ s.rhs # None /\ s.rhs \notin known.ambiguous

AliasInv ==
  /\ ConstructorOK
  /\ loop \in {"propagate", "invalidate", "over"}
  /\ known \in [aliases : [Variables -> Parameters \cup {None}], ambiguous : SUBSET Variables,
                changed : BOOLEAN]
  /\ position \in 0..Len(ctor.body)
  /\ \A i \in DOMAIN ctor.body :
       /\ loop = "propagate" /\ ~known.changed /\ i <= position => NothingToPropagate(ctor.body[i])
       /\ loop # "propagate" => NothingToPropagate(ctor.body[i])
       /\ loop = "invalidate" /\ ~known.changed /\ i <= position => NothingToInvalidate(ctor.body[i])
       /\ loop = "over" => NothingToInvalidate(ctor.body[i])

StatementSet == [spec : BOOLEAN, lhs : Variables \cup {None}, rhs : Variables \cup {None}]
KnownSet == [aliases : [Variables -> Parameters \cup {None}], ambiguous : SUBSET Variables,
             changed : BOOLEAN]

LEMMA OriginTyped ==
  ASSUME NEW k \in KnownSet, NEW v \in Variables \cup {None}
  PROVE  OriginIn(k, v) \in Parameters \cup {None}
BY ConstructorAssumption DEF KnownSet, OriginIn

\* A statement either has nothing to propagate, or changes something.
LEMMA PropagatedFacts ==
  ASSUME NEW k \in KnownSet, NEW s \in StatementSet
  PROVE  /\ Propagated(k, s) \in KnownSet
         /\ \/ Propagated(k, s) = k
               /\ (\/ OriginIn(k, s.rhs) = None \/ s.lhs = None \/ s.lhs \in k.ambiguous
                   \/ k.aliases[s.lhs] = OriginIn(k, s.rhs))
            \/ Propagated(k, s).changed
<1>1. OriginIn(k, s.rhs) \in Parameters \cup {None}
  BY OriginTyped DEF StatementSet
<1> QED BY <1>1, ConstructorAssumption DEF KnownSet, StatementSet, Propagated

LEMMA InvalidatedFacts ==
  ASSUME NEW k \in KnownSet, NEW s \in StatementSet
  PROVE  /\ Invalidated(k, s) \in KnownSet
         /\ Invalidated(k, s).aliases = k.aliases
         /\ k.ambiguous \subseteq Invalidated(k, s).ambiguous
         /\ \/ Invalidated(k, s) = k
               /\ \/ s.spec \/ s.lhs = None \/ s.lhs \in k.ambiguous \/ k.aliases[s.lhs] = None
                  \/ s.rhs # None /\ s.rhs \notin k.ambiguous
            \/ Invalidated(k, s).changed
BY ConstructorAssumption DEF KnownSet, StatementSet, Invalidated

\* A variable that loses its origin leaves nothing to propagate behind.
LEMMA StaysSettled ==
  ASSUME known \in KnownSet, known' \in KnownSet,
         known'.aliases = known.aliases, known.ambiguous \subseteq known'.ambiguous,
         NEW s \in StatementSet, NothingToPropagate(s)
  PROVE  /\ OriginIn(known', s.rhs) = None \/ s.lhs = None \/ s.lhs \in known'.ambiguous
            \/ known'.aliases[s.lhs] = OriginIn(known', s.rhs)
BY DEF NothingToPropagate, OriginIn

LEMMA AliasStep == AliasInv /\ [ConstructorNext]_ctorVars => AliasInv'
<1> SUFFICES ASSUME AliasInv, [ConstructorNext]_ctorVars PROVE AliasInv'
  OBVIOUS
<1> DEFINE Settled(i) ==
       /\ loop = "propagate" /\ ~known.changed /\ i <= position => NothingToPropagate(ctor.body[i])
       /\ loop # "propagate" => NothingToPropagate(ctor.body[i])
       /\ loop = "invalidate" /\ ~known.changed /\ i <= position => NothingToInvalidate(ctor.body[i])
       /\ loop = "over" => NothingToInvalidate(ctor.body[i])
<1>1. /\ ctor.body \in Seq(StatementSet) /\ known \in KnownSet
      /\ position \in 0..Len(ctor.body) /\ Len(ctor.body) \in Nat
      /\ DOMAIN ctor.body = 1..Len(ctor.body)
      /\ \A i \in DOMAIN ctor.body : ctor.body[i] \in StatementSet
  <2>1. ctor.body \in Seq(StatementSet)
    BY DEF AliasInv, ConstructorOK, StatementSet
  <2>2. known \in KnownSet /\ position \in 0..Len(ctor.body)
    BY DEF AliasInv, KnownSet
  <2> QED BY <2>1, <2>2
<1>2. \A i \in DOMAIN ctor.body : Settled(i)
  BY DEF AliasInv
<1>3. ctor' = ctor
  BY DEF ConstructorNext, Propagate, Invalidate, NextRound, NextLoop, ctorVars
<1>4. SUFFICES /\ loop' \in {"propagate", "invalidate", "over"}
               /\ known' \in KnownSet
               /\ position' \in 0..Len(ctor.body)
               /\ \A i \in DOMAIN ctor.body : Settled(i)'
  BY <1>3 DEF AliasInv, ConstructorOK, KnownSet
<1>5. loop \in {"propagate", "invalidate", "over"}
  BY DEF AliasInv
<1>6. CASE Propagate
  <2>1. /\ loop = "propagate" /\ loop' = loop /\ position' = position + 1
        /\ position + 1 \in DOMAIN ctor.body
        /\ known' = Propagated(known, ctor.body[position + 1])
    BY <1>1, <1>6 DEF Propagate, RoundOver
  <2>2. known' \in KnownSet /\ position' \in 0..Len(ctor.body)
    BY <1>1, <2>1, PropagatedFacts
  <2>3. ASSUME NEW i \in DOMAIN ctor.body PROVE Settled(i)'
    <3>1. CASE known'.changed
      BY <2>1, <3>1
    <3>2. CASE ~known'.changed
      <4>1. known' = known /\ NothingToPropagate(ctor.body[position + 1])
        BY <1>1, <2>1, <3>2, PropagatedFacts DEF NothingToPropagate
      <4>2. i <= position + 1 => NothingToPropagate(ctor.body[i])
        BY <1>1, <1>2, <2>1, <3>2, <4>1
      <4>3. NothingToPropagate(ctor.body[i])' = NothingToPropagate(ctor.body[i])
        BY <1>3, <4>1 DEF NothingToPropagate
      <4> QED BY <2>1, <4>2, <4>3
    <3> QED BY <3>1, <3>2
  <2> QED BY <1>5, <2>1, <2>2, <2>3
<1>7. CASE Invalidate
  <2>1. /\ loop = "invalidate" /\ loop' = loop /\ position' = position + 1
        /\ position + 1 \in DOMAIN ctor.body
        /\ known' = Invalidated(known, ctor.body[position + 1])
    BY <1>1, <1>7 DEF Invalidate, RoundOver
  <2>2. /\ known' \in KnownSet /\ position' \in 0..Len(ctor.body)
        /\ known'.aliases = known.aliases /\ known.ambiguous \subseteq known'.ambiguous
    <3>1. ctor.body[position + 1] \in StatementSet
      BY <1>1, <2>1
    <3>2. /\ known' \in KnownSet /\ known'.aliases = known.aliases
          /\ known.ambiguous \subseteq known'.ambiguous
      BY <1>1, <2>1, <3>1, InvalidatedFacts
    <3> QED BY <1>1, <2>1, <3>2
  <2>3. ASSUME NEW i \in DOMAIN ctor.body PROVE Settled(i)'
    <3>1. NothingToPropagate(ctor.body[i])'
      <4>1. NothingToPropagate(ctor.body[i])
        BY <1>2, <2>1
      <4> QED BY <1>1, <1>3, <2>2, <4>1, StaysSettled DEF NothingToPropagate
    <3>2. CASE known'.changed
      BY <2>1, <3>1, <3>2
    <3>3. CASE ~known'.changed
      <4>1. known' = known /\ NothingToInvalidate(ctor.body[position + 1])
        BY <1>1, <2>1, <3>3, InvalidatedFacts DEF NothingToInvalidate
      <4>2. i <= position + 1 => NothingToInvalidate(ctor.body[i])
        BY <1>1, <1>2, <2>1, <3>3, <4>1
      <4>3. NothingToInvalidate(ctor.body[i])' = NothingToInvalidate(ctor.body[i])
        BY <1>3, <4>1 DEF NothingToInvalidate
      <4> QED BY <2>1, <3>1, <4>2, <4>3
    <3> QED BY <3>2, <3>3
  <2> QED BY <1>5, <2>1, <2>2, <2>3
<1>8. CASE NextRound
  <2>1. /\ loop' = loop /\ loop # "over" /\ position' = 0
        /\ known' = [known EXCEPT !.changed = FALSE]
    BY <1>8 DEF NextRound
  <2>2. /\ known' \in KnownSet /\ known'.aliases = known.aliases
        /\ known'.ambiguous = known.ambiguous
    BY <1>1, <2>1 DEF KnownSet
  <2>3. ASSUME NEW i \in DOMAIN ctor.body PROVE Settled(i)'
    <3>1. NothingToPropagate(ctor.body[i])' = NothingToPropagate(ctor.body[i])
      BY <1>3, <2>2 DEF NothingToPropagate, OriginIn
    <3>2. ~ (i <= position')
      BY <1>1, <2>1
    <3> QED BY <1>2, <2>1, <3>1, <3>2
  <2> QED BY <1>1, <1>5, <2>1, <2>2, <2>3
<1>9. CASE NextLoop
  <2>1. /\ position = Len(ctor.body) /\ ~known.changed /\ known' = known /\ position' = 0
        /\ loop' = IF loop = "propagate" THEN "invalidate" ELSE "over"
        /\ loop # "over"
    BY <1>9 DEF NextLoop, RoundOver
  <2>2. ASSUME NEW i \in DOMAIN ctor.body PROVE Settled(i)'
    <3>1. /\ NothingToPropagate(ctor.body[i])' = NothingToPropagate(ctor.body[i])
          /\ NothingToInvalidate(ctor.body[i])' = NothingToInvalidate(ctor.body[i])
      BY <1>3, <2>1 DEF NothingToPropagate, NothingToInvalidate
    <3>2. i <= position /\ ~ (i <= position')
      BY <1>1, <2>1
    <3> QED BY <1>2, <1>5, <2>1, <3>1, <3>2
  <2> QED BY <1>1, <2>1, <2>2
<1>10. CASE UNCHANGED ctorVars
  <2>1. UNCHANGED <<ctor, loop, position, known>>
    BY <1>10 DEF ctorVars
  <2> QED BY <1>1, <1>2, <1>5, <2>1 DEF NothingToPropagate, NothingToInvalidate
<1> QED BY <1>6, <1>7, <1>8, <1>9, <1>10 DEF ConstructorNext

\* What has been accounted for stays so.
LEMMA OriginsStay == ConstructorOK /\ ConstructorSpec => []AliasInv
<1>1. ConstructorOK /\ ConstructorInit => AliasInv
  <2> SUFFICES ASSUME ConstructorOK, ConstructorInit PROVE AliasInv
    OBVIOUS
  <2>1. known = Unaliased /\ loop = "propagate" /\ position = 0
    BY DEF ConstructorInit
  <2>2. known \in KnownSet
    BY <2>1, ConstructorAssumption DEF Unaliased, KnownSet
  <2>3. /\ Len(ctor.body) \in Nat /\ DOMAIN ctor.body = 1..Len(ctor.body)
        /\ \A i \in DOMAIN ctor.body : ~ (i <= position)
    BY <2>1 DEF ConstructorOK
  <2> QED BY <2>1, <2>2, <2>3 DEF AliasInv, KnownSet
<1> QED BY <1>1, AliasStep, PTL DEF ConstructorSpec

\* No assignment of a constructor is left half accounted for, however the
\* origins spread and are lost (isp_constructor.go:48 and :89).
THEOREM OriginsSettle == ConstructorOK /\ ConstructorSpec => []OriginsAreSettled
<1>1. AliasInv => OriginsAreSettled
  <2> SUFFICES ASSUME AliasInv, loop = "over", NEW i \in DOMAIN ctor.body,
                      ~ctor.body[i].spec, ctor.body[i].lhs # None,
                      Origin(ctor.body[i].lhs) # None
               PROVE  /\ ctor.body[i].rhs # None /\ ctor.body[i].rhs \notin known.ambiguous
                      /\ Origin(ctor.body[i].rhs) \in {Origin(ctor.body[i].lhs), None}
    BY DEF OriginsAreSettled, ConstructorDone
  <2>1. NothingToPropagate(ctor.body[i]) /\ NothingToInvalidate(ctor.body[i])
    BY DEF AliasInv
  <2> QED BY <2>1 DEF NothingToPropagate, NothingToInvalidate, Origin, OriginIn
<1> QED BY <1>1, OriginsStay, PTL

(***************************************************************************)
(* The loops end.  A round is repeated when a variable got an origin or    *)
(* lost its own for good in it, and there are only so many variables.      *)
(***************************************************************************)
FiniteVariables == IsFiniteSet(Variables)

Nameless(k) == {v \in Variables : k.aliases[v] = None}
Certain(k) == Variables \ k.ambiguous
ChangesLeft(k) == Cardinality(Nameless(k)) + Cardinality(Certain(k))

RoundsLeft ==
  ChangesLeft(known) + (IF known.changed THEN 1 ELSE 0)
    + (IF loop = "propagate" THEN 2 ELSE IF loop = "invalidate" THEN 1 ELSE 0)
StatementsLeft ==
  RoundsLeft * (Len(ctor.body) + 1) + (Len(ctor.body) - position)
MostStatements ==
  (2 * Cardinality(Variables) + 3) * (Len(ctor.body) + 1) + Len(ctor.body)

LEMMA ChangesAreFew ==
  ASSUME FiniteVariables, NEW k
  PROVE  /\ Cardinality(Nameless(k)) \in Nat /\ Cardinality(Certain(k)) \in Nat
         /\ ChangesLeft(k) \in 0..(2 * Cardinality(Variables))
<1>1. Nameless(k) \in SUBSET Variables /\ Certain(k) \in SUBSET Variables
  BY DEF Nameless, Certain
<1>2. /\ IsFiniteSet(Nameless(k)) /\ Cardinality(Nameless(k)) <= Cardinality(Variables)
      /\ IsFiniteSet(Certain(k)) /\ Cardinality(Certain(k)) <= Cardinality(Variables)
  BY <1>1, FS_Subset DEF FiniteVariables
<1>3. /\ Cardinality(Nameless(k)) \in Nat /\ Cardinality(Certain(k)) \in Nat
      /\ Cardinality(Variables) \in Nat
  BY <1>2, FS_CardinalityType DEF FiniteVariables
<1> QED
  BY <1>2, <1>3 DEF ChangesLeft

\* Whoever has an origin keeps it or becomes ambiguous, and stays so.
LEMMA OneChangeLess ==
  ASSUME FiniteVariables, NEW k, NEW q,
         Nameless(q) \subseteq Nameless(k), Certain(q) \subseteq Certain(k),
         Nameless(q) # Nameless(k) \/ Certain(q) # Certain(k)
  PROVE  ChangesLeft(q) < ChangesLeft(k)
<1>1. IsFiniteSet(Nameless(k)) /\ IsFiniteSet(Certain(k))
  <2>1. Nameless(k) \in SUBSET Variables /\ Certain(k) \in SUBSET Variables
    BY DEF Nameless, Certain
  <2> QED
    BY <2>1, FS_Subset DEF FiniteVariables
<1>2. /\ Cardinality(Nameless(q)) <= Cardinality(Nameless(k))
      /\ Nameless(q) # Nameless(k) => Cardinality(Nameless(q)) # Cardinality(Nameless(k))
  BY <1>1, FS_Subset
<1>3. /\ Cardinality(Certain(q)) <= Cardinality(Certain(k))
      /\ Certain(q) # Certain(k) => Cardinality(Certain(q)) # Cardinality(Certain(k))
  BY <1>1, FS_Subset
<1>4. /\ Cardinality(Nameless(q)) \in Nat /\ Cardinality(Certain(q)) \in Nat
      /\ Cardinality(Nameless(k)) \in Nat /\ Cardinality(Certain(k)) \in Nat
  BY ChangesAreFew
<1> QED
  BY <1>2, <1>3, <1>4 DEF ChangesLeft

LEMMA StatementTakesOff ==
  ASSUME FiniteVariables, NEW k \in KnownSet, NEW s \in StatementSet, NEW q,
         q = Propagated(k, s) \/ q = Invalidated(k, s)
  PROVE  q = k \/ (q.changed = TRUE /\ ChangesLeft(q) < ChangesLeft(k))
<1> DEFINE v == s.lhs
<1>1. \/ q = k
      \/ /\ v \in Variables /\ v \notin k.ambiguous
         /\ \/ q = [k EXCEPT !.ambiguous = @ \cup {v}, !.changed = TRUE]
            \/ /\ k.aliases[v] = None
               /\ \E root \in Parameters :
                    q = [k EXCEPT !.aliases[v] = root, !.changed = TRUE]
  <2>1. OriginIn(k, s.rhs) \in Parameters \cup {None} /\ v \in Variables \cup {None}
    BY OriginTyped DEF StatementSet
  <2> QED
    BY <2>1 DEF Propagated, Invalidated
<1>2. CASE v \in Variables /\ v \notin k.ambiguous
             /\ q = [k EXCEPT !.ambiguous = @ \cup {v}, !.changed = TRUE]
  <2>1. q.aliases = k.aliases /\ q.ambiguous = k.ambiguous \cup {v} /\ q.changed = TRUE
    BY <1>2 DEF KnownSet
  <2>2. Nameless(q) = Nameless(k) /\ Certain(q) \subseteq Certain(k) /\ Certain(q) # Certain(k)
    BY <1>2, <2>1 DEF Nameless, Certain
  <2> QED
    BY <2>1, <2>2, OneChangeLess
<1>3. ASSUME v \in Variables, k.aliases[v] = None, NEW root \in Parameters,
             q = [k EXCEPT !.aliases[v] = root, !.changed = TRUE]
      PROVE  q.changed = TRUE /\ ChangesLeft(q) < ChangesLeft(k)
  <2>1. /\ q.ambiguous = k.ambiguous /\ q.changed = TRUE
        /\ \A u \in Variables : q.aliases[u] = IF u = v THEN root ELSE k.aliases[u]
    BY <1>3 DEF KnownSet
  <2>2. root # None
    BY ConstructorAssumption
  <2>3. Certain(q) = Certain(k) /\ Nameless(q) \subseteq Nameless(k) /\ Nameless(q) # Nameless(k)
    BY <1>3, <2>1, <2>2 DEF Nameless, Certain
  <2> QED
    BY <2>1, <2>3, OneChangeLess
<1> QED
  BY <1>1, <1>2, <1>3

\* A round counts for more than the statements of one.
LEMMA RoundsAndStatements ==
  ASSUME NEW n \in Nat, NEW r \in Nat, NEW q \in Nat, NEW i \in 0..n
  PROVE  /\ q <= r /\ i < n => q * (n + 1) + (n - (i + 1)) < r * (n + 1) + (n - i)
         /\ q < r => q * (n + 1) + n < r * (n + 1)
         /\ r * (n + 1) \in Nat
         /\ q <= r => q * (n + 1) + (n - i) <= r * (n + 1) + n
<1>1. r * (n + 1) \in Nat /\ q * (n + 1) \in Nat
  OBVIOUS
<1>2. ASSUME q <= r PROVE q * (n + 1) <= r * (n + 1)
  BY <1>2
<1>3. ASSUME q < r PROVE q * (n + 1) + (n + 1) <= r * (n + 1)
  <2>1. q + 1 <= r
    BY <1>3
  <2>2. (q + 1) * (n + 1) <= r * (n + 1)
    BY <2>1
  <2>3. (q + 1) * (n + 1) = q * (n + 1) + (n + 1)
    OBVIOUS
  <2> QED
    BY <2>2, <2>3
<1> DEFINE a == q * (n + 1)
           b == r * (n + 1)
<1> HIDE DEF a, b
<1>4. a \in Nat /\ b \in Nat
  BY <1>1 DEF a, b
<1>5. q <= r /\ i < n => a + (n - (i + 1)) < b + (n - i)
  BY <1>2, <1>4 DEF a, b
<1>6. q < r => a + n < b
  <2> SUFFICES ASSUME q < r PROVE a + n < b
    OBVIOUS
  <2>1. a + (n + 1) <= b
    BY <1>3 DEF a, b
  <2> QED
    BY <1>4, <2>1
<1>7. q <= r => a + (n - i) <= b + n
  BY <1>2, <1>4 DEF a, b
<1> QED
  BY <1>4, <1>5, <1>6, <1>7 DEF a, b

\* Every step of the two loops leaves fewer statements to look at, and there
\* is a number of them to begin with: the loops over a constructor end, which
\* each go on for as long as a round has changed something
\* (isp_constructor.go:48 and :89).
THEOREM AliasLoopsEnd ==
  ConstructorOK /\ FiniteVariables /\ ConstructorSpec
    => [](StatementsLeft \in 0..MostStatements) /\ [][StatementsLeft' < StatementsLeft]_ctorVars
<1>1. AliasInv /\ FiniteVariables
        => /\ RoundsLeft \in Nat /\ Len(ctor.body) \in Nat
           /\ StatementsLeft \in 0..MostStatements
  <2> SUFFICES ASSUME AliasInv, FiniteVariables
               PROVE  /\ RoundsLeft \in Nat /\ Len(ctor.body) \in Nat
                      /\ StatementsLeft \in 0..MostStatements
    OBVIOUS
  <2> DEFINE n == Len(ctor.body)
             most == 2 * Cardinality(Variables) + 3
  <2>1. n \in Nat /\ position \in 0..n /\ Cardinality(Variables) \in Nat
    BY FS_CardinalityType DEF AliasInv, ConstructorOK, FiniteVariables
  <2>2. RoundsLeft \in Nat /\ most \in Nat /\ RoundsLeft <= most
    BY <2>1, ChangesAreFew DEF RoundsLeft
  <2> HIDE DEF n, most
  <2>3. /\ RoundsLeft * (n + 1) \in Nat
        /\ RoundsLeft * (n + 1) + (n - position) <= most * (n + 1) + n
        /\ most * (n + 1) \in Nat
    BY <2>1, <2>2, RoundsAndStatements
  <2> DEFINE a == RoundsLeft * (n + 1)
             b == most * (n + 1)
  <2>4. a \in Nat /\ b \in Nat /\ a + (n - position) <= b + n
    BY <2>3
  <2> HIDE DEF a, b
  <2>5. a + (n - position) \in 0..(b + n)
    BY <2>1, <2>4
  <2> QED
    BY <2>1, <2>2, <2>5 DEF StatementsLeft, MostStatements, n, most, a, b
<1>2. AliasInv /\ AliasInv' /\ FiniteVariables /\ [ConstructorNext]_ctorVars
        => [StatementsLeft' < StatementsLeft]_ctorVars
  <2> SUFFICES ASSUME AliasInv, AliasInv', FiniteVariables, ConstructorNext
               PROVE  StatementsLeft' < StatementsLeft
    OBVIOUS
  <2> DEFINE n == Len(ctor.body)
  <2>1. /\ n \in Nat /\ position \in 0..n /\ DOMAIN ctor.body = 1..n
        /\ known \in KnownSet /\ loop \in {"propagate", "invalidate", "over"}
        /\ \A i \in DOMAIN ctor.body : ctor.body[i] \in StatementSet
    <3>1. ctor.body \in Seq(StatementSet)
      BY DEF AliasInv, ConstructorOK, StatementSet
    <3>2. known \in KnownSet /\ position \in 0..n /\ loop \in {"propagate", "invalidate", "over"}
      BY DEF AliasInv, KnownSet
    <3> QED
      BY <3>1, <3>2
  <2>2. RoundsLeft \in Nat /\ RoundsLeft' \in Nat
    <3>1. FiniteVariables'
      BY DEF FiniteVariables
    <3> QED
      BY <1>1, <3>1, ChangesAreFew DEF RoundsLeft, AliasInv
  <2>3. ctor' = ctor /\ known.changed \in BOOLEAN /\ \A k : ChangesLeft(k) \in Nat
    BY <2>1, ChangesAreFew DEF ConstructorNext, Propagate, Invalidate, NextRound, NextLoop, KnownSet
  <2>4. CASE Propagate \/ Invalidate
    <3>1. /\ loop' = loop /\ position' = position + 1 /\ position < n
          /\ \/ known' = Propagated(known, ctor.body[position + 1])
             \/ known' = Invalidated(known, ctor.body[position + 1])
          /\ position + 1 \in DOMAIN ctor.body
      BY <2>1, <2>4 DEF Propagate, Invalidate, RoundOver
    <3>2. known' = known \/ (known'.changed = TRUE /\ ChangesLeft(known') < ChangesLeft(known))
      BY <2>1, <3>1, StatementTakesOff
    <3>3. RoundsLeft' <= RoundsLeft
      <4>1. CASE known' = known
        <5>1. RoundsLeft' = RoundsLeft
          BY <3>1, <4>1 DEF RoundsLeft
        <5> QED
          BY <2>2, <5>1
      <4>2. CASE known'.changed = TRUE /\ ChangesLeft(known') < ChangesLeft(known)
        BY <2>3, <3>1, <4>2 DEF RoundsLeft
      <4> QED
        BY <3>2, <4>1, <4>2
    <3> QED
      BY <2>1, <2>2, <2>3, <3>1, <3>3, RoundsAndStatements DEF StatementsLeft
  <2>5. CASE NextRound \/ NextLoop
    <3>1. /\ position = n /\ position' = 0
          /\ \/ known.changed /\ known' = [known EXCEPT !.changed = FALSE] /\ loop' = loop
             \/ /\ known' = known
                /\ \/ loop = "propagate" /\ loop' = "invalidate"
                   \/ loop = "invalidate" /\ loop' = "over"
      BY <2>1, <2>5 DEF NextRound, NextLoop, RoundOver
    <3>2. RoundsLeft' < RoundsLeft
      <4>1. CASE known.changed /\ known' = [known EXCEPT !.changed = FALSE] /\ loop' = loop
        <5>1. /\ known'.aliases = known.aliases /\ known'.ambiguous = known.ambiguous
              /\ known'.changed = FALSE
          BY <2>1, <4>1 DEF KnownSet
        <5>2. ChangesLeft(known') = ChangesLeft(known)
          BY <5>1 DEF ChangesLeft, Nameless, Certain
        <5> QED
          BY <2>3, <4>1, <5>1, <5>2 DEF RoundsLeft
      <4>2. CASE /\ known' = known
                 /\ \/ loop = "propagate" /\ loop' = "invalidate"
                    \/ loop = "invalidate" /\ loop' = "over"
        BY <2>3, <4>2 DEF RoundsLeft
      <4> QED
        BY <3>1, <4>1, <4>2
    <3>3. RoundsLeft' * (n + 1) + n < RoundsLeft * (n + 1)
      BY <2>1, <2>2, <3>2, RoundsAndStatements
    <3>4. RoundsLeft' * (n + 1) \in Nat /\ RoundsLeft * (n + 1) \in Nat
      BY <2>1, <2>2, RoundsAndStatements
    <3>5. /\ StatementsLeft' = RoundsLeft' * (n + 1) + (n - 0)
          /\ StatementsLeft = RoundsLeft * (n + 1) + (n - n)
      BY <2>3, <3>1 DEF StatementsLeft
    <3> DEFINE a == RoundsLeft' * (n + 1)
               b == RoundsLeft * (n + 1)
    <3>6. /\ StatementsLeft' = a + (n - 0) /\ StatementsLeft = b + (n - n)
          /\ a \in Nat /\ b \in Nat /\ a + n < b
      BY <3>3, <3>4, <3>5
    <3> HIDE DEF a, b, n
    <3> QED
      BY <2>1, <3>6
  <2> QED
    BY <2>4, <2>5 DEF ConstructorNext
<1>3. FiniteVariables => FiniteVariables'
  BY DEF FiniteVariables
<1> QED
  BY <1>1, <1>2, <1>3, OriginsStay, PTL DEF ConstructorSpec

-----------------------------------------------------------------------------
(***************************************************************************)
(* SOLID-O/parallel-implementations, for any functions and thresholds: the *)
(* leaders of groups are well defined, since whether a function leads one  *)
(* depends on the functions before it alone, and a function that leads     *)
(* none although its group is large enough is in the group of another.     *)
(***************************************************************************)
\* The functions of a program are listed in some order.
FunctionsListed == \E n \in Nat : DOMAIN code.functions = 1..n

Leading(leaders, i) ==
  ~UsedBefore(leaders, i) /\ Cardinality(ParallelGroup(i)) >= MinParallel
LeadUpTo(n, leaders) ==
  /\ leaders \subseteq {i \in Compared : i <= n}
  /\ \A i \in Compared : i <= n => (i \in leaders <=> Leading(leaders, i))

\* A set of numbers has a least one: of the sets of its members up to one of
\* them, one lies in all the others.
LEMMA LeastNatural ==
  ASSUME NEW S \in SUBSET Nat, S # {}
  PROVE  \E n \in S : \A m \in S : n <= m
<1> DEFINE Below(n) == {m \in S : m <= n}
           T == {Below(n) : n \in S}
<1>1. \A n \in S : n \in Nat
  OBVIOUS
<1>2. \A n \in S : Below(n) \in FiniteSubsetsOf(S)
  <2> TAKE n \in S
  <2>1. Below(n) \in SUBSET Nat /\ \A m \in Below(n) : m <= n
    OBVIOUS
  <2>2. Below(n) \in SUBSET S
    OBVIOUS
  <2> HIDE DEF Below
  <2>3. IsFiniteSet(Below(n))
    BY <1>1, <2>1, FS_BoundedSetOfNaturals
  <2> QED
    BY <2>2, <2>3 DEF FiniteSubsetsOf
<1>3. T \subseteq FiniteSubsetsOf(S) /\ T # {}
  <2> HIDE DEF Below
  <2> QED
    BY <1>2
<1>4. PICK B \in T : \A C \in T : ~ (<<C, B>> \in StrictSubsetOrdering(S))
  <2> HIDE DEF T
  <2> QED
    BY <1>3, FS_StrictSubsetOrderingWellFounded, WFMin
<1>5. PICK n \in S : B = Below(n)
  BY <1>4
<1>6. ASSUME NEW m \in S, m < n
      PROVE  FALSE
  <2>1. n \in Below(n) /\ n \notin Below(m)
    BY <1>1, <1>6
  <2>2. ASSUME NEW x \in Below(m) PROVE x \in Below(n)
    <3>1. x \in S /\ x <= m
      OBVIOUS
    <3>2. x \in Nat /\ m \in Nat /\ n \in Nat
      BY <1>1, <3>1
    <3>3. x <= n
      BY <1>6, <3>1, <3>2
    <3> QED
      BY <3>1, <3>3
  <2>3. Below(m) \in T
    OBVIOUS
  <2>4. <<Below(m), Below(n)>> \in StrictSubsetOrdering(S)
    <3> HIDE DEF Below
    <3> QED
      BY <1>2, <2>1, <2>2 DEF StrictSubsetOrdering, FiniteSubsetsOf
  <2> QED
    BY <1>4, <1>5, <2>3, <2>4
<1> QED
  BY <1>1, <1>6

LEMMA OneMoreLeader ==
  ASSUME FunctionsListed, NEW n \in Nat, NEW leaders, LeadUpTo(n, leaders)
  PROVE  \E more : LeadUpTo(n + 1, more)
<1> DEFINE more == leaders \cup {i \in Compared : i = n + 1 /\ Leading(leaders, i)}
<1>1. \A i \in Compared : i \in Nat
  BY DEF FunctionsListed, Compared
<1>2. \A i \in leaders : i \in Compared /\ i <= n
  BY DEF LeadUpTo
<1>3. ASSUME NEW i \in Compared, i <= n + 1
      PROVE  UsedBefore(more, i) = UsedBefore(leaders, i)
  <2>1. \A j : j \in more /\ j < i <=> j \in leaders /\ j < i
    BY <1>1, <1>2, <1>3
  <2> HIDE DEF more
  <2> QED BY <2>1 DEF UsedBefore
<1>4. ASSUME NEW i \in Compared, i <= n + 1
      PROVE  i \in more <=> Leading(leaders, i)
  <2>1. CASE i = n + 1
    <3>1. i \notin leaders
      BY <1>2, <2>1
    <3> QED BY <2>1, <3>1
  <2>2. CASE i # n + 1
    <3>1. i <= n
      BY <1>1, <1>4, <2>2
    <3> QED BY <2>2, <3>1 DEF LeadUpTo
  <2> QED BY <2>1, <2>2
<1>5. more \subseteq {i \in Compared : i <= n + 1}
  BY <1>1, <1>2
<1> HIDE DEF more
<1>6. LeadUpTo(n + 1, more)
  BY <1>3, <1>4, <1>5 DEF LeadUpTo, Leading
<1> QED BY <1>6

LEMMA LeadersExist ==
  ASSUME FunctionsListed
  PROVE  \E leaders \in SUBSET Compared :
           \A i \in Compared : i \in leaders <=> Leading(leaders, i)
<1>1. PICK len \in Nat : DOMAIN code.functions = 1..len
  BY DEF FunctionsListed
<1>2. \A i \in Compared : i \in 1..len
  BY <1>1 DEF Compared
<1> DEFINE stuck == {n \in Nat : ~\E leaders : LeadUpTo(n, leaders)}
<1>3. stuck = {}
  <2> SUFFICES ASSUME stuck # {} PROVE FALSE
    OBVIOUS
  <2>1. PICK n \in stuck : \A m \in stuck : n <= m
    <3>1. stuck \in SUBSET Nat
      OBVIOUS
    <3> HIDE DEF stuck
    <3> QED BY <3>1, LeastNatural
  <2>2. LeadUpTo(0, {})
    <3>1. \A i \in Compared : ~ (i <= 0)
      BY <1>2
    <3> QED BY <3>1 DEF LeadUpTo
  <2>3. n # 0 /\ n - 1 \in Nat /\ n - 1 \notin stuck /\ (n - 1) + 1 = n
    <3>1. 0 \notin stuck
      BY <2>2
    <3>2. n \in Nat /\ n # 0
      BY <3>1
    <3>3. ~ (n <= n - 1) /\ n - 1 \in Nat /\ (n - 1) + 1 = n
      BY <3>2
    <3> HIDE DEF stuck
    <3> QED BY <2>1, <3>2, <3>3
  <2>4. PICK leaders : LeadUpTo(n - 1, leaders)
    BY <2>3
  <2>5. \E more : LeadUpTo(n, more)
    BY <2>3, <2>4, OneMoreLeader
  <2> QED BY <2>1, <2>5
<1>4. PICK leaders : LeadUpTo(len, leaders)
  BY <1>3
<1>5. \A i \in Compared : i <= len
  BY <1>2
<1> QED BY <1>4, <1>5 DEF LeadUpTo

\* A function with enough counterparts is named by a finding
\* (ocp_parallel.go:49).
THEOREM ParallelNamed == FunctionsListed /\ DispatchSpec => []ParallelFunctionsAreNamed
<1>1. FunctionsListed => ParallelFunctionsAreNamed
  <2> SUFFICES ASSUME FunctionsListed, NEW i \in Compared,
                      Cardinality(Counterparts(i)) + 1 >= MinParallel
               PROVE  i \in UNION ParallelGroups
    BY DEF ParallelFunctionsAreNamed
  <2>1. /\ Leaders \in SUBSET Compared
        /\ \A k \in Compared : k \in Leaders <=> Leading(Leaders, k)
    BY LeadersExist DEF Leaders, Leading
  <2>2. Cardinality(ParallelGroup(i)) = Cardinality(Counterparts(i)) + 1
    <3>1. PICK n \in Nat : DOMAIN code.functions = 1..n
      BY DEF FunctionsListed
    <3>2. Counterparts(i) \subseteq 1..n /\ i \notin Counterparts(i)
      BY <3>1 DEF Counterparts, Compared
    <3>3. IsFiniteSet(Counterparts(i))
      <4>1. IsFiniteSet(1..n)
        BY ONLY <3>1, FS_Interval
      <4> QED BY ONLY <3>2, <4>1, FS_Subset
    <3>4. Cardinality(Counterparts(i) \cup {i}) = Cardinality(Counterparts(i)) + 1
      BY ONLY <3>2, <3>3, FS_AddElement
    <3> QED BY ONLY <3>4 DEF ParallelGroup
  <2>3. CASE i \in Leaders
    BY <2>3 DEF ParallelGroups, ParallelGroup
  <2>4. CASE i \notin Leaders
    <3>1. UsedBefore(Leaders, i)
      BY <2>1, <2>2, <2>4 DEF Leading
    <3> QED BY <3>1 DEF UsedBefore, ParallelGroups
  <2> QED BY <2>3, <2>4
<1>2. FunctionsListed /\ [DispatchNext]_dispatchVars => FunctionsListed'
  <2>1. [DispatchNext]_dispatchVars => code' = code
    BY DEF DispatchNext, dispatchVars, EmitDispatch, EmitDiscriminators, EmitRuntime,
           EmitConcreteParameters, EmitFactories, EmitImplementationCoupling,
           EmitParallelImplementations, Turn
  <2> QED BY <2>1 DEF FunctionsListed
<1> QED BY <1>1, <1>2, PTL DEF DispatchSpec

-----------------------------------------------------------------------------
(***************************************************************************)
(* SOLID-O, families of sites, for any sites and links between them: the   *)
(* two loops unite pairs until sites have one root exactly when a chain of *)
(* links joins them.  The argument follows the loops: after each pair, the *)
(* way along the parents ends at a root from every site, and two sites     *)
(* have one root if and only if no set that keeps the links done so far    *)
(* together parts them.                                                    *)
(***************************************************************************)
\* The sites of a program are listed by their positions.
SitesListed ==
  /\ \E n \in Nat :
       /\ \A s \in code.dispatches : s.at \in 1..n
       /\ \A i \in DOMAIN code.discriminators : code.discriminators[i].at \in 1..n
  /\ \A s, t \in code.dispatches : s.at = t.at => s = t
  /\ \A i, j \in DOMAIN code.discriminators :
       code.discriminators[i].at = code.discriminators[j].at => i = j
  /\ \A i \in DOMAIN code.discriminators : "at" \in DOMAIN code.discriminators[i]

Rooted(places, parent, root) ==
  /\ parent \in [places -> places] /\ root \in [places -> places]
  /\ \A k \in places :
       /\ root[parent[k]] = root[k] /\ parent[root[k]] = root[k]
       /\ OnTheWay(parent, k, root[k])
KeepsTogether(some, links, places) ==
  \A i, j \in places : <<i, j>> \in links => (i \in some <=> j \in some)
RootClasses(places, links, root) ==
  /\ \A i, j \in places : <<i, j>> \in links => root[i] = root[j]
  /\ \A some \in SUBSET places : KeepsTogether(some, links, places) =>
       \A k, l \in places : root[k] = root[l] => (k \in some <=> l \in some)
Forest(places, links, parent) ==
  \E root \in [places -> places] :
    Rooted(places, parent, root) /\ RootClasses(places, links, root)
Forests(places) ==
  {parent \in [places -> places] :
     \E links \in SUBSET (places \X places) : Forest(places, links, parent)}

LoopOf(first, last, X, start, body, after) ==
  /\ after \in [first..last -> X] /\ after[first] = start
  /\ \A k \in first..last : k # first => after[k] = body[k][after[k - 1]]

\* Induction over an interval, for a set.
LEMMA IntervalInduction ==
  ASSUME NEW first \in Nat, NEW last \in Nat, NEW S, first \in S,
         \A k \in first..last : k \in S /\ k < last => k + 1 \in S
  PROVE  \A k \in first..last : k \in S
<1> DEFINE rest == {k \in first..last : k \notin S}
<1> SUFFICES ASSUME rest # {} PROVE FALSE
  OBVIOUS
<1>1. PICK n \in rest : \A m \in rest : n <= m
  <2>1. rest \in SUBSET Nat
    OBVIOUS
  <2> HIDE DEF rest
  <2> QED BY <2>1, LeastNatural
<1>2. n \in first..last /\ n # first
  OBVIOUS
<1>3. n - 1 \in first..last /\ n - 1 < last /\ (n - 1) + 1 = n /\ ~ (n <= n - 1)
  BY <1>2
<1>4. n - 1 \in S
  BY <1>1, <1>3
<1> QED BY <1>3, <1>4

\* A loop over an interval whose body is a function has values.
LEMMA LoopExists ==
  ASSUME NEW first \in Nat, NEW last \in Nat, first <= last, NEW X, NEW start \in X,
         NEW body \in [first..last -> [X -> X]]
  PROVE  \E after : LoopOf(first, last, X, start, body, after)
<1> DEFINE Values(n, after) ==
             /\ after \in [first..n -> X] /\ after[first] = start
             /\ \A k \in first..n : k # first => after[k] = body[k][after[k - 1]]
           S == {n \in first..last : \E after : Values(n, after)}
<1>1. first \in S
  <2>1. Values(first, [k \in first..first |-> start])
    OBVIOUS
  <2>2. first \in first..last
    OBVIOUS
  <2> HIDE DEF Values
  <2> QED BY <2>1, <2>2
<1>2. ASSUME NEW n \in first..last, n \in S, n < last
      PROVE  n + 1 \in S
  <2>1. PICK after : Values(n, after)
    BY <1>2
  <2> DEFINE more == [k \in first..(n + 1) |-> IF k = n + 1 THEN body[n + 1][after[n]] ELSE after[k]]
  <2>2. n + 1 \in first..last /\ n \in first..n /\ n \in Nat
    BY <1>2
  <2>3. after[n] \in X /\ body[n + 1][after[n]] \in X
    BY <2>1, <2>2
  <2>4. more \in [first..(n + 1) -> X]
    BY <2>1, <2>2, <2>3
  <2>5. more[first] = start
    BY <2>1, <2>2
  <2>6. ASSUME NEW k \in first..(n + 1), k # first
        PROVE  more[k] = body[k][more[k - 1]]
    <3>1. CASE k = n + 1
      <4>1. k - 1 = n /\ n \in first..(n + 1) /\ n # n + 1
        BY <2>2, <3>1
      <4>2. more[k - 1] = after[n]
        BY <4>1
      <4> QED BY <3>1, <4>2
    <3>2. CASE k # n + 1
      <4>1. k \in first..n /\ k - 1 \in first..(n + 1) /\ k - 1 # n + 1
        BY <2>2, <2>6, <3>2
      <4>2. more[k] = after[k] /\ more[k - 1] = after[k - 1]
        BY <3>2, <4>1
      <4> QED BY <2>1, <2>6, <4>1, <4>2
    <3> QED BY <3>1, <3>2
  <2> HIDE DEF more
  <2>7. Values(n + 1, more)
    BY <2>4, <2>5, <2>6
  <2> QED BY <2>2, <2>7
<1>3. last \in S
  <2> HIDE DEF S
  <2>1. \A k \in first..last : k \in S
    BY <1>1, <1>2, IntervalInduction
  <2> QED BY <2>1
<1> QED BY <1>3 DEF LoopOf

LEMMA RootOfRoot ==
  ASSUME NEW places, NEW parent, NEW root, Rooted(places, parent, root),
         NEW k \in places, parent[k] = k
  PROVE  root[k] = k
<1>1. {k} \in SUBSET places /\ \A m \in {k} : parent[m] \in {k}
  OBVIOUS
<1>2. DOMAIN parent = places /\ OnTheWay(parent, k, root[k])
  BY DEF Rooted
<1>3. root[k] \in {k}
  BY <1>1, <1>2 DEF OnTheWay
<1> QED BY <1>3

\* The root of a site is what Find returns.
LEMMA RootIsFound ==
  ASSUME NEW places, NEW parent, NEW root, Rooted(places, parent, root), NEW i \in places
  PROVE  Find(parent, i) = root[i]
<1>1. /\ DOMAIN parent = places /\ root[i] \in places
      /\ parent[root[i]] = root[i] /\ OnTheWay(parent, i, root[i])
  BY DEF Rooted
<1>2. ASSUME NEW k \in places, parent[k] = k, OnTheWay(parent, i, k)
      PROVE  k = root[i]
  <2> DEFINE same == {m \in places : root[m] = root[i]}
  <2>1. same \in SUBSET places /\ i \in same /\ \A m \in same : parent[m] \in same
    BY DEF Rooted
  <2>2. k \in same
    BY <1>1, <1>2, <2>1 DEF OnTheWay
  <2>3. root[k] = k
    BY <1>2, RootOfRoot
  <2> QED BY <2>2, <2>3
<1> QED BY <1>1, <1>2 DEF Find

\* Putting one root under another joins two classes and no more.
LEMMA UnionJoins ==
  ASSUME NEW places, NEW links, NEW parent, Forest(places, links, parent),
         NEW i \in places, NEW j \in places
  PROVE  Forest(places, links \cup {<<i, j>>}, UnionRoots(parent, i, j))
<1>1. PICK root \in [places -> places] :
        Rooted(places, parent, root) /\ RootClasses(places, links, root)
  BY DEF Forest
<1> DEFINE a == root[i]
           b == root[j]
           joined == [parent EXCEPT ![b] = a]
           more == [k \in places |-> IF root[k] = b THEN a ELSE root[k]]
<1>2. UnionRoots(parent, i, j) = joined
  <2>1. Find(parent, i) = a /\ Find(parent, j) = b
    BY <1>1, RootIsFound
  <2> QED BY <2>1 DEF UnionRoots
<1>3. /\ a \in places /\ b \in places /\ parent[a] = a /\ parent[b] = b
      /\ root[a] = a /\ root[b] = b
  <2>1. a \in places /\ b \in places /\ parent[a] = a /\ parent[b] = b
    BY <1>1 DEF Rooted
  <2> QED BY <1>1, <2>1, RootOfRoot
<1>4. /\ parent \in [places -> places]
      /\ \A k \in places : root[parent[k]] = root[k] /\ parent[root[k]] = root[k]
  BY <1>1 DEF Rooted
<1>5. /\ joined \in [places -> places] /\ more \in [places -> places]
      /\ joined[b] = a /\ \A k \in places : k # b => joined[k] = parent[k]
      /\ \A k \in places : more[k] = IF root[k] = b THEN a ELSE root[k]
  BY <1>3, <1>4
<1> HIDE DEF joined, more, a, b
<1>6. ASSUME NEW k \in places
      PROVE  /\ more[joined[k]] = more[k] /\ joined[more[k]] = more[k]
             /\ OnTheWay(joined, k, more[k])
  <2>1. more[joined[k]] = more[k]
    BY <1>3, <1>4, <1>5
  <2>2. joined[more[k]] = more[k]
    BY <1>3, <1>4, <1>5
  <2>3. ASSUME NEW way \in SUBSET places, k \in way, \A m \in way : joined[m] \in way
        PROVE  more[k] \in way
    <3>1. \A m \in way : parent[m] \in way
      BY <1>3, <1>5, <2>3
    <3>2. DOMAIN parent = places /\ OnTheWay(parent, k, root[k])
      BY <1>1 DEF Rooted
    <3>3. root[k] \in way
      BY <2>3, <3>1, <3>2 DEF OnTheWay
    <3> QED BY <1>5, <2>3, <3>3
  <2>4. DOMAIN joined = places
    BY <1>5
  <2> QED BY <2>1, <2>2, <2>3, <2>4 DEF OnTheWay
<1>7. Rooted(places, joined, more)
  BY <1>5, <1>6 DEF Rooted
<1>8. ASSUME NEW k \in places, NEW l \in places, <<k, l>> \in links \cup {<<i, j>>}
      PROVE  more[k] = more[l]
  <2>1. CASE <<k, l>> \in links
    BY <1>1, <1>5, <2>1 DEF RootClasses
  <2>2. CASE k = i /\ l = j
    BY <1>5, <2>2 DEF a, b
  <2> QED BY <1>8, <2>1, <2>2
<1>9. ASSUME NEW some \in SUBSET places, KeepsTogether(some, links \cup {<<i, j>>}, places),
             NEW k \in places, NEW l \in places, more[k] = more[l]
      PROVE  k \in some <=> l \in some
  <2>1. KeepsTogether(some, links, places) /\ (i \in some <=> j \in some)
    BY <1>9 DEF KeepsTogether
  <2>2. \A m, n \in places : root[m] = root[n] => (m \in some <=> n \in some)
    BY <1>1, <2>1 DEF RootClasses
  <2>3. root[k] = root[l] \/ (root[k] = b /\ root[l] = a) \/ (root[k] = a /\ root[l] = b)
    BY <1>5, <1>9
  <2> QED BY <2>1, <2>2, <2>3 DEF a, b
<1>10. RootClasses(places, links \cup {<<i, j>>}, more)
  BY <1>8, <1>9 DEF RootClasses
<1> QED BY <1>2, <1>5, <1>7, <1>10 DEF Forest

LEMMA SinglesAreAForest ==
  ASSUME NEW places
  PROVE  Forest(places, {}, [k \in places |-> k])
<1> DEFINE alone == [k \in places |-> k]
<1>1. alone \in [places -> places] /\ \A k \in places : alone[k] = k
  OBVIOUS
<1> HIDE DEF alone
<1>2. Rooted(places, alone, alone)
  BY <1>1 DEF Rooted, OnTheWay
<1>3. RootClasses(places, {}, alone)
  BY <1>1 DEF RootClasses
<1>4. Forest(places, {}, alone)
  BY <1>1, <1>2, <1>3 DEF Forest
<1> QED BY <1>4 DEF alone

\* What is a forest for some links is one of the forests.
LEMMA ForestsAre ==
  ASSUME NEW places, NEW links \in SUBSET (places \X places), NEW parent,
         Forest(places, links, parent)
  PROVE  parent \in Forests(places)
<1>1. parent \in [places -> places]
  BY DEF Forest, Rooted
<1> QED BY <1>1 DEF Forests

LEMMA RowUnites ==
  ASSUME NEW places, NEW last \in Nat, \A k \in places : k \in 1..last,
         NEW linked \in SUBSET (places \X places),
         NEW i \in 1..last, NEW links \in SUBSET (places \X places),
         NEW parent, Forest(places, links, parent)
  PROVE  Forest(places, links \cup {p \in linked : p[1] = i /\ i < p[2]},
                UniteRow(linked, parent, i, last))
<1> DEFINE X == Forests(places)
           Body(q, j) == IF <<i, j>> \in linked THEN UnionRoots(q, i, j) ELSE q
           body == [j \in i..last |-> [q \in X |-> Body(q, j)]]
           Done(j) == links \cup {p \in linked : p[1] = i /\ i < p[2] /\ p[2] <= j}
<1>1. i \in Nat /\ i <= last /\ i \in i..last /\ last \in i..last
  OBVIOUS
<1>2. ASSUME NEW q \in X, NEW j \in i..last PROVE Body(q, j) \in X
  <2>1. PICK some \in SUBSET (places \X places) : Forest(places, some, q)
    BY DEF Forests
  <2>2. CASE <<i, j>> \in linked
    <3>1. i \in places /\ j \in places
      BY <2>2
    <3>2. Forest(places, some \cup {<<i, j>>}, UnionRoots(q, i, j))
      BY <2>1, <3>1, UnionJoins
    <3>3. some \cup {<<i, j>>} \in SUBSET (places \X places)
      BY <3>1
    <3>4. UnionRoots(q, i, j) \in X
      BY <3>2, <3>3, ForestsAre
    <3> QED BY <2>2, <3>4
  <2>3. CASE <<i, j>> \notin linked
    BY <2>3
  <2> QED BY <2>2, <2>3
<1> HIDE DEF X, Body
<1>3. parent \in X
  BY ForestsAre DEF X
<1>4. body \in [i..last -> [X -> X]]
  BY <1>2
<1>5. PICK run : LoopOf(i, last, X, parent, body, run)
  <2> HIDE DEF body
  <2>1. i \in Nat /\ last \in Nat /\ i <= last
    BY <1>1
  <2> QED BY <1>3, <1>4, <2>1, LoopExists
<1> DEFINE Is(f) == f = [j \in i..last |-> IF j = i THEN parent
                                           ELSE IF <<i, j>> \in linked
                                                THEN UnionRoots(f[j - 1], i, j) ELSE f[j - 1]]
           after == CHOOSE f : Is(f)
<1>6. Is(run)
  <2>1. \A j \in i..last : j # i => run[j] = Body(run[j - 1], j)
    <3>1. \A j \in i..last : j # i => j - 1 \in i..last
      BY <1>1
    <3> QED BY <1>5, <3>1 DEF LoopOf
  <2>2. \A j \in i..last :
          run[j] = IF j = i THEN parent
                   ELSE IF <<i, j>> \in linked
                        THEN UnionRoots(run[j - 1], i, j) ELSE run[j - 1]
    BY <1>5, <2>1 DEF Body, LoopOf
  <2>3. DOMAIN run = i..last /\ run = [j \in DOMAIN run |-> run[j]]
    BY <1>5 DEF LoopOf
  <2> QED BY <2>2, <2>3
<1>7. Is(after)
  <2> HIDE DEF Is
  <2> QED BY <1>6
<1>8. /\ after[i] = parent
      /\ \A j \in i..last : j # i => after[j] = Body(after[j - 1], j)
  BY <1>1, <1>7 DEF Body
<1>9. UniteRow(linked, parent, i, last) = after[last]
  BY DEF UniteRow
<1> HIDE DEF Is, after, body
<1> DEFINE S == {j \in i..last : Forest(places, Done(j), after[j])}
<1>10. i \in S
  <2>1. \A p \in linked : ~ (i < p[2] /\ p[2] <= i)
    <3>1. \A p \in linked : p[2] \in Nat
      OBVIOUS
    <3> QED BY <1>1, <3>1
  <2>2. Done(i) = links
    BY <2>1
  <2> HIDE DEF Done
  <2> QED BY <1>1, <1>8, <2>2
<1>11. ASSUME NEW j \in i..last, j \in S, j < last PROVE j + 1 \in S
  <2>1. j + 1 \in i..last /\ j + 1 # i /\ (j + 1) - 1 = j
    BY <1>1, <1>11
  <2>2. after[j + 1] = Body(after[j], j + 1)
    BY <1>8, <2>1
  <2>3. Forest(places, Done(j), after[j])
    BY <1>11
  <2>4. \A p \in linked : p[2] \in Nat /\ p = <<p[1], p[2]>>
    OBVIOUS
  <2>5. CASE <<i, j + 1>> \in linked
    <3>1. i \in places /\ j + 1 \in places
      BY <2>5
    <3>2. Forest(places, Done(j) \cup {<<i, j + 1>>}, UnionRoots(after[j], i, j + 1))
      BY <2>3, <3>1, UnionJoins
    <3>3. Done(j + 1) = Done(j) \cup {<<i, j + 1>>}
      <4>1. \A p \in linked : p[1] = i /\ i < p[2] /\ p[2] <= j + 1 <=>
                                (p[1] = i /\ i < p[2] /\ p[2] <= j) \/ p = <<i, j + 1>>
        BY <1>1, <2>1, <2>4
      <4> QED BY <2>5, <4>1
    <3>4. Body(after[j], j + 1) = UnionRoots(after[j], i, j + 1)
      BY <2>5 DEF Body
    <3> QED BY <2>1, <2>2, <3>2, <3>3, <3>4
  <2>6. CASE <<i, j + 1>> \notin linked
    <3>1. Done(j + 1) = Done(j)
      <4>1. \A p \in linked : p[1] = i /\ i < p[2] /\ p[2] <= j + 1 <=>
                                p[1] = i /\ i < p[2] /\ p[2] <= j
        BY <1>1, <2>1, <2>4, <2>6
      <4> QED BY <4>1
    <3>2. Body(after[j], j + 1) = after[j]
      BY <2>6 DEF Body
    <3> QED BY <2>1, <2>2, <2>3, <3>1, <3>2
  <2> QED BY <2>5, <2>6
<1>12. Forest(places, Done(last), after[last])
  <2> HIDE DEF S
  <2>1. \A j \in i..last : j \in S
    BY <1>1, <1>10, <1>11, IntervalInduction
  <2>2. last \in S
    BY <1>1, <2>1
  <2> QED BY <2>2 DEF S
<1>13. Done(last) = links \cup {p \in linked : p[1] = i /\ i < p[2]}
  <2>1. \A p \in linked : p[2] <= last
    OBVIOUS
  <2> QED BY <2>1
<1> QED BY <1>9, <1>12, <1>13

LEMMA LoopsUnite ==
  ASSUME NEW places, NEW last \in Nat, \A k \in places : k \in 1..last,
         NEW linked \in SUBSET (places \X places)
  PROVE  Forest(places, {p \in linked : p[1] < p[2]}, United(places, linked, last))
<1> DEFINE X == Forests(places)
           alone == [k \in places |-> k]
           body == [i \in 0..last |-> [q \in X |-> IF i = 0 THEN q ELSE UniteRow(linked, q, i, last)]]
           Done(i) == {p \in linked : p[1] <= i /\ p[1] < p[2]}
<1>1. 0 \in 0..last /\ last \in 0..last
  OBVIOUS
<1>2. ASSUME NEW q \in X, NEW i \in 1..last PROVE UniteRow(linked, q, i, last) \in X
  <2>1. PICK some \in SUBSET (places \X places) : Forest(places, some, q)
    BY DEF Forests
  <2>2. Forest(places, some \cup {p \in linked : p[1] = i /\ i < p[2]},
               UniteRow(linked, q, i, last))
    BY <2>1, RowUnites
  <2>3. some \cup {p \in linked : p[1] = i /\ i < p[2]} \in SUBSET (places \X places)
    OBVIOUS
  <2> QED BY <2>2, <2>3, ForestsAre
<1>3. alone \in X /\ Forest(places, {}, alone)
  <2>1. Forest(places, {}, alone)
    BY SinglesAreAForest
  <2> QED BY <2>1, ForestsAre
<1> HIDE DEF X, alone
<1>4. body \in [0..last -> [X -> X]]
  BY <1>2
<1>5. PICK run : LoopOf(0, last, X, alone, body, run)
  <2> HIDE DEF body
  <2>1. 0 \in Nat /\ last \in Nat /\ 0 <= last
    OBVIOUS
  <2> QED BY <1>3, <1>4, <2>1, LoopExists
<1> DEFINE Is(f) == f = [i \in 0..last |-> IF i = 0 THEN [k \in places |-> k]
                                           ELSE UniteRow(linked, f[i - 1], i, last)]
           after == CHOOSE f : Is(f)
<1>6. Is(run)
  <2>1. \A i \in 0..last : i # 0 => run[i] = UniteRow(linked, run[i - 1], i, last)
    <3>1. \A i \in 0..last : i # 0 => i - 1 \in 0..last
      OBVIOUS
    <3> QED BY <1>5, <3>1 DEF LoopOf
  <2>2. \A i \in 0..last :
          run[i] = IF i = 0 THEN [k \in places |-> k] ELSE UniteRow(linked, run[i - 1], i, last)
    BY <1>5, <2>1 DEF alone, LoopOf
  <2>3. DOMAIN run = 0..last /\ run = [i \in DOMAIN run |-> run[i]]
    BY <1>5 DEF LoopOf
  <2> QED BY <2>2, <2>3
<1>7. Is(after)
  <2> HIDE DEF Is
  <2> QED BY <1>6
<1>8. /\ after[0] = alone
      /\ \A i \in 0..last : i # 0 => after[i] = UniteRow(linked, after[i - 1], i, last)
  BY <1>1, <1>7 DEF alone
<1>9. United(places, linked, last) = after[last]
  BY DEF United
<1> HIDE DEF Is, after, body
<1> DEFINE S == {i \in 0..last : Forest(places, Done(i), after[i])}
<1>10. 0 \in S
  <2>1. \A p \in linked : ~ (p[1] <= 0)
    <3>1. \A p \in linked : p[1] \in 1..last
      OBVIOUS
    <3> QED BY <3>1
  <2>2. Done(0) = {}
    BY <2>1
  <2> HIDE DEF Done
  <2> QED BY <1>1, <1>3, <1>8, <2>2
<1>11. ASSUME NEW i \in 0..last, i \in S, i < last PROVE i + 1 \in S
  <2>1. i + 1 \in 0..last /\ i + 1 \in 1..last /\ i + 1 # 0 /\ (i + 1) - 1 = i
    BY <1>11
  <2>2. Forest(places, Done(i), after[i])
    BY <1>11
  <2>3. Forest(places, Done(i) \cup {p \in linked : p[1] = i + 1 /\ i + 1 < p[2]},
               UniteRow(linked, after[i], i + 1, last))
    <3>1. Done(i) \in SUBSET (places \X places)
      OBVIOUS
    <3> HIDE DEF Done
    <3> QED BY <2>1, <2>2, <3>1, RowUnites
  <2>4. Done(i + 1) = Done(i) \cup {p \in linked : p[1] = i + 1 /\ i + 1 < p[2]}
    <3>1. \A p \in linked : p[1] \in Nat /\ p[2] \in Nat
      OBVIOUS
    <3>2. \A p \in linked : p[1] <= i + 1 /\ p[1] < p[2] <=>
                              (p[1] <= i /\ p[1] < p[2]) \/ (p[1] = i + 1 /\ i + 1 < p[2])
      BY <2>1, <3>1
    <3> QED BY <3>2
  <2>5. after[i + 1] = UniteRow(linked, after[i], i + 1, last)
    BY <1>8, <2>1
  <2> HIDE DEF Done
  <2> QED BY <2>1, <2>3, <2>4, <2>5
<1>12. Forest(places, Done(last), after[last])
  <2> HIDE DEF S
  <2>1. \A i \in 0..last : i \in S
    BY <1>1, <1>10, <1>11, IntervalInduction
  <2>2. last \in S
    BY <1>1, <2>1
  <2> QED BY <2>2 DEF S
<1>13. Done(last) = {p \in linked : p[1] < p[2]}
  <2>1. \A p \in linked : p[1] <= last
    OBVIOUS
  <2> QED BY <2>1
<1> QED BY <1>9, <1>12, <1>13

\* The components of finitely many sites are the classes that chains of links
\* make of them.
LEMMA ComponentsAreClasses ==
  ASSUME NEW S, NEW n \in Nat, \A u \in S : u.at \in 1..n, \A u, v \in S : u.at = v.at => u = v,
         NEW together, \A u, v \in S : <<u, v>> \in together => <<v, u>> \in together,
         NEW s \in S, NEW t \in S
  PROVE  (\E F \in Components(S, together) : {s, t} \subseteq F) <=> Chained(S, together, s, t)
<1> DEFINE places == {u.at : u \in S}
           linked == {<<p[1].at, p[2].at>> : p \in together \cap (S \X S)}
           last == Max(places)
           Joined(i, j) == \E u \in S, v \in S : <<u, v>> \in together /\ i = u.at /\ j = v.at
           parent == United(places, linked, last)
<1>1. last \in places /\ \A k \in places : last >= k
  <2> DEFINE bounds == {m \in Nat : \A k \in places : k <= m}
  <2>1. places \subseteq 1..n /\ s.at \in places
    OBVIOUS
  <2> HIDE DEF places
  <2>2. PICK m \in bounds : \A other \in bounds : m <= other
    <3>1. bounds \in SUBSET Nat /\ n \in bounds
      BY <2>1
    <3> HIDE DEF bounds
    <3> QED BY <3>1, LeastNatural
  <2>3. m \in places
    <3> SUFFICES ASSUME m \notin places PROVE FALSE
      OBVIOUS
    <3>1. m \in Nat /\ \A k \in places : k \in Nat /\ k <= m /\ k # m /\ 1 <= k
      BY <2>1
    <3>2. m - 1 \in Nat /\ \A k \in places : k <= m - 1
      BY <2>1, <3>1
    <3>3. m <= m - 1
      BY <2>2, <3>2
    <3> QED BY <3>1, <3>3
  <2>4. \A k \in places : m >= k
    BY <2>1, <2>2
  <2> QED BY <2>3, <2>4 DEF Max
<1>2. last \in Nat /\ \A k \in places : k \in 1..last
  <2>1. \A k \in places : k \in 1..n
    OBVIOUS
  <2> HIDE DEF places, last
  <2> QED BY <1>1, <2>1
<1>3. linked \in SUBSET (places \X places)
  OBVIOUS
<1>4. \A i, j : <<i, j>> \in linked <=> Joined(i, j)
  <2>1. ASSUME NEW i, NEW j, Joined(i, j) PROVE <<i, j>> \in linked
    BY <2>1
  <2>2. ASSUME NEW i, NEW j, <<i, j>> \in linked PROVE Joined(i, j)
    <3>1. PICK p \in together \cap (S \X S) : <<i, j>> = <<p[1].at, p[2].at>>
      BY <2>2
    <3>2. p = <<p[1], p[2]>> /\ p[1] \in S /\ p[2] \in S /\ i = p[1].at /\ j = p[2].at
      BY <3>1
    <3> QED BY <3>1, <3>2
  <2> HIDE DEF linked, Joined
  <2> QED BY <2>1, <2>2
<1> DEFINE Under(top) == {u \in S : Find(parent, u.at) = top}
<1>5. Components(S, together) = {Under(top) : top \in {Find(parent, i) : i \in places}}
  BY DEF Components
<1>6. \A u \in S : u.at \in places
  OBVIOUS
<1>7. \A i \in places : \E u \in S : i = u.at
  OBVIOUS
<1> HIDE DEF places, linked, last, Joined
<1> DEFINE done == {p \in linked : p[1] < p[2]}
<1>8. PICK root \in [places -> places] :
        Rooted(places, parent, root) /\ RootClasses(places, done, root)
  <2>1. Forest(places, done, parent)
    BY <1>2, <1>3, LoopsUnite
  <2> QED BY <2>1 DEF Forest
<1>9. \A i \in places : Find(parent, i) = root[i]
  BY <1>8, RootIsFound
<1> HIDE DEF parent
<1>10. (\E F \in Components(S, together) : {s, t} \subseteq F) <=> root[s.at] = root[t.at]
  <2>1. ASSUME NEW F \in Components(S, together), {s, t} \subseteq F
        PROVE  root[s.at] = root[t.at]
    <3>1. PICK top : F = Under(top)
      <4> HIDE DEF Under
      <4> QED BY <1>5
    <3> QED BY <1>6, <1>9, <2>1, <3>1
  <2>2. ASSUME root[s.at] = root[t.at]
        PROVE  \E F \in Components(S, together) : {s, t} \subseteq F
    <3> DEFINE F == Under(Find(parent, s.at))
    <3>1. F \in Components(S, together)
      <4> HIDE DEF Under
      <4> QED BY <1>5, <1>6
    <3>2. {s, t} \subseteq F
      BY <1>6, <1>9, <2>2
    <3> QED BY <3>1, <3>2
  <2> QED BY <2>1, <2>2
<1>11. \A i, j : <<i, j>> \in done <=> <<i, j>> \in linked /\ i < j
  OBVIOUS
<1> HIDE DEF done
<1>12. ASSUME root[s.at] = root[t.at], NEW closed \in SUBSET S, s \in closed,
              \A u \in closed, v \in S : <<u, v>> \in together => v \in closed
       PROVE  t \in closed
  <2> DEFINE some == {i \in places : \E u \in closed : i = u.at}
  <2>1. \A u \in S : u.at \in some <=> u \in closed
    BY <1>6
  <2>2. some \in SUBSET places
    OBVIOUS
  <2> HIDE DEF some
  <2>3. ASSUME NEW i \in places, NEW j \in places, <<i, j>> \in done
        PROVE  i \in some <=> j \in some
    <3>1. Joined(i, j)
      BY <1>4, <1>11, <2>3
    <3>2. PICK u \in S, v \in S : <<u, v>> \in together /\ i = u.at /\ j = v.at
      BY <3>1 DEF Joined
    <3> QED BY <1>12, <2>1, <3>2
  <2>4. KeepsTogether(some, done, places)
    BY <2>3 DEF KeepsTogether
  <2>5. s.at \in some <=> t.at \in some
    BY <1>6, <1>8, <1>12, <2>2, <2>4 DEF RootClasses
  <2> QED BY <1>12, <2>1, <2>5
<1>13. ASSUME Chained(S, together, s, t) PROVE root[s.at] = root[t.at]
  <2> DEFINE closed == {u \in S : root[u.at] = root[s.at]}
  <2>1. ASSUME NEW u \in closed, NEW v \in S, <<u, v>> \in together
        PROVE  v \in closed
    <3>1. u.at \in places /\ v.at \in places /\ u \in S
      BY <1>6
    <3>2. <<u.at, v.at>> \in linked /\ <<v.at, u.at>> \in linked
      BY <1>4, <2>1, <3>1 DEF Joined
    <3>3. u.at = v.at \/ u.at < v.at \/ v.at < u.at
      BY <1>2, <3>1
    <3>4. root[u.at] = root[v.at]
      BY <1>8, <1>11, <3>1, <3>2, <3>3 DEF RootClasses
    <3> QED BY <3>4
  <2>2. closed \in SUBSET S /\ s \in closed
    OBVIOUS
  <2>3. t \in closed
    <3> HIDE DEF closed
    <3> QED BY <1>13, <2>1, <2>2 DEF Chained
  <2> QED BY <2>3
<1> QED BY <1>10, <1>12, <1>13 DEF Chained

\* What belongs together does so in both orders.
LEMMA LinksAreMutual ==
  /\ \A s, t : <<s, t>> \in DispatchLinks => <<t, s>> \in DispatchLinks
  /\ \A s, t : <<s, t>> \in DiscriminatorLinks => <<t, s>> \in DiscriminatorLinks
<1>1. \A s, t : s.cases \cap t.cases = t.cases \cap s.cases /\ s.cases \cup t.cases = t.cases \cup s.cases
  OBVIOUS
<1>2. \A s, t : Overlap(s, t) = Overlap(t, s)
  BY <1>1 DEF Overlap
<1>3. \A s, t : SameDispatch(s, t) => SameDispatch(t, s)
  BY <1>1, <1>2 DEF SameDispatch
<1>4. \A s, t : <<s, t>> \in DispatchLinks <=>
                  s \in code.dispatches /\ t \in code.dispatches /\ SameDispatch(s, t)
  BY DEF DispatchLinks
<1>5. \A s, t : <<s, t>> \in DiscriminatorLinks <=>
                  /\ s \in Discriminators /\ t \in Discriminators
                  /\ Cardinality(s.cases \cap t.cases) >= MinShared
  BY DEF DiscriminatorLinks
<1>6. \A s, t : Cardinality(s.cases \cap t.cases) = Cardinality(t.cases \cap s.cases)
  BY <1>1
<1> QED BY <1>3, <1>4, <1>5, <1>6

\* The first of the guards of a function keeps its place.
LEMMA MergedKeepPlaces ==
  ASSUME SitesListed, NEW n, \A i \in DOMAIN code.discriminators : code.discriminators[i].at \in 1..n
  PROVE  /\ \A d \in Discriminators : d.at \in 1..n
         /\ \A d, e \in Discriminators : d.at = e.at => d = e
<1> DEFINE found == code.discriminators
           Merged(i) == [found[i] EXCEPT !.cases = UNION {found[j].cases : j \in Guards(found, i)},
                                         !.bad = \E j \in Guards(found, i) : found[j].bad]
<1>1. \A d \in Discriminators : \E i \in DOMAIN found : d = Merged(i)
  BY DEF Discriminators, MergeEnumFunctionSites
<1>2. \A i \in DOMAIN found : Merged(i).at = found[i].at
  BY DEF SitesListed
<1> HIDE DEF Merged
<1>3. \A i, j \in DOMAIN found : found[i].at = found[j].at => i = j
  BY DEF SitesListed
<1> QED BY <1>1, <1>2, <1>3

\* Families are the classes that chains of sites which belong together make of
\* the sites of one source (ocp_util.go:506 and :558).
THEOREM FamiliesOfChains == SitesListed /\ DispatchSpec => []FamiliesAreClasses
<1>1. SitesListed => FamiliesAreClasses
  <2> SUFFICES ASSUME SitesListed PROVE FamiliesAreClasses
    OBVIOUS
  <2>1. PICK n \in Nat :
          /\ \A s \in code.dispatches : s.at \in 1..n
          /\ \A i \in DOMAIN code.discriminators : code.discriminators[i].at \in 1..n
    BY DEF SitesListed
  <2>2. ASSUME NEW s \in {x \in code.dispatches : x.source \notin AllowedSources},
               NEW t \in {x \in code.dispatches : x.source \notin AllowedSources}
        PROVE  (\E F \in DispatchFamilies : {s, t} \subseteq F) <=>
                 s.source = t.source /\
                   Chained({x \in code.dispatches : x.source = s.source}, DispatchLinks, s, t)
    <3> DEFINE Of(k) == {x \in code.dispatches : x.source = k}
    <3>1. ASSUME NEW k, NEW u \in Of(k), NEW v \in Of(k)
          PROVE  (\E F \in Components(Of(k), DispatchLinks) : {u, v} \subseteq F) <=>
                   Chained(Of(k), DispatchLinks, u, v)
      <4>1. /\ \A x \in Of(k) : x.at \in 1..n
            /\ \A x, y \in Of(k) : x.at = y.at => x = y
        BY <2>1 DEF SitesListed
      <4>2. \A x, y \in Of(k) : <<x, y>> \in DispatchLinks => <<y, x>> \in DispatchLinks
        BY LinksAreMutual
      <4> HIDE DEF Of
      <4> QED BY <4>1, <4>2, ComponentsAreClasses
    <3>2. \A k : \A F \in Components(Of(k), DispatchLinks) : F \subseteq Of(k)
      BY DEF Components
    <3>3. \A F : F \in DispatchFamilies <=>
            \E k \in {x.source : x \in code.dispatches} \ AllowedSources :
              F \in Components(Of(k), DispatchLinks)
      BY DEF DispatchFamilies
    <3>4. s \in Of(s.source) /\ \A k : s \in Of(k) <=> k = s.source
      OBVIOUS
    <3>5. \A k : t \in Of(k) <=> k = t.source
      OBVIOUS
    <3>6. s.source \in {x.source : x \in code.dispatches} \ AllowedSources
      OBVIOUS
    <3> HIDE DEF Of
    <3>7. ASSUME NEW F \in DispatchFamilies, {s, t} \subseteq F
          PROVE  s.source = t.source /\ Chained(Of(s.source), DispatchLinks, s, t)
      <4>1. PICK k : F \in Components(Of(k), DispatchLinks)
        BY <3>3
      <4>2. s \in Of(k) /\ t \in Of(k)
        BY <3>2, <3>7, <4>1
      <4> QED BY <3>1, <3>4, <3>5, <3>7, <4>1, <4>2
    <3>8. ASSUME s.source = t.source, Chained(Of(s.source), DispatchLinks, s, t)
          PROVE  \E F \in DispatchFamilies : {s, t} \subseteq F
      <4>1. \E F \in Components(Of(s.source), DispatchLinks) : {s, t} \subseteq F
        BY <3>1, <3>4, <3>5, <3>8
      <4> QED BY <3>3, <3>6, <4>1
    <3>9. (\E F \in DispatchFamilies : {s, t} \subseteq F) <=>
            s.source = t.source /\ Chained(Of(s.source), DispatchLinks, s, t)
      BY <3>7, <3>8
    <3> QED BY <3>9 DEF Of
  <2>3. ASSUME NEW s \in Discriminators, NEW t \in Discriminators
        PROVE  (\E F \in DiscriminatorFamilies : {s, t} \subseteq F) <=>
                 s.field = t.field /\
                   Chained({x \in Discriminators : x.field = s.field}, DiscriminatorLinks, s, t)
    <3> DEFINE Of(k) == {x \in Discriminators : x.field = k}
    <3>1. ASSUME NEW k, NEW u \in Of(k), NEW v \in Of(k)
          PROVE  (\E F \in Components(Of(k), DiscriminatorLinks) : {u, v} \subseteq F) <=>
                   Chained(Of(k), DiscriminatorLinks, u, v)
      <4>1. /\ \A x \in Of(k) : x.at \in 1..n
            /\ \A x, y \in Of(k) : x.at = y.at => x = y
        BY <2>1, MergedKeepPlaces
      <4>2. \A x, y \in Of(k) : <<x, y>> \in DiscriminatorLinks => <<y, x>> \in DiscriminatorLinks
        BY LinksAreMutual
      <4> HIDE DEF Of
      <4> QED BY <4>1, <4>2, ComponentsAreClasses
    <3>2. \A k : \A F \in Components(Of(k), DiscriminatorLinks) : F \subseteq Of(k)
      BY DEF Components
    <3>3. \A F : F \in DiscriminatorFamilies <=>
            \E k \in {x.field : x \in Discriminators} : F \in Components(Of(k), DiscriminatorLinks)
      BY DEF DiscriminatorFamilies
    <3>4. s \in Of(s.field) /\ \A k : s \in Of(k) <=> k = s.field
      OBVIOUS
    <3>5. \A k : t \in Of(k) <=> k = t.field
      OBVIOUS
    <3>6. s.field \in {x.field : x \in Discriminators}
      OBVIOUS
    <3> HIDE DEF Of
    <3>7. ASSUME NEW F \in DiscriminatorFamilies, {s, t} \subseteq F
          PROVE  s.field = t.field /\ Chained(Of(s.field), DiscriminatorLinks, s, t)
      <4>1. PICK k : F \in Components(Of(k), DiscriminatorLinks)
        BY <3>3
      <4>2. s \in Of(k) /\ t \in Of(k)
        BY <3>2, <3>7, <4>1
      <4> QED BY <3>1, <3>4, <3>5, <3>7, <4>1, <4>2
    <3>8. ASSUME s.field = t.field, Chained(Of(s.field), DiscriminatorLinks, s, t)
          PROVE  \E F \in DiscriminatorFamilies : {s, t} \subseteq F
      <4>1. \E F \in Components(Of(s.field), DiscriminatorLinks) : {s, t} \subseteq F
        BY <3>1, <3>4, <3>5, <3>8
      <4> QED BY <3>3, <3>6, <4>1
    <3>9. (\E F \in DiscriminatorFamilies : {s, t} \subseteq F) <=>
            s.field = t.field /\ Chained(Of(s.field), DiscriminatorLinks, s, t)
      BY <3>7, <3>8
    <3> QED BY <3>9 DEF Of
  <2> QED BY <2>2, <2>3 DEF FamiliesAreClasses
<1>2. SitesListed /\ [DispatchNext]_dispatchVars => SitesListed'
  <2>1. [DispatchNext]_dispatchVars => code' = code
    BY DEF DispatchNext, dispatchVars, EmitDispatch, EmitDiscriminators, EmitRuntime,
           EmitConcreteParameters, EmitFactories, EmitImplementationCoupling,
           EmitParallelImplementations, Turn
  <2> QED BY <2>1 DEF SitesListed
<1> QED BY <1>1, <1>2, PTL DEF DispatchSpec

-----------------------------------------------------------------------------
(***************************************************************************)
(* What the searches of the checks reach.  Three of them go along calls or *)
(* links, and come to no function twice on one way: the model gathers what *)
(* is near a start, one call further in each round, for as many rounds as  *)
(* there are functions.  That is far enough: the result is the least set   *)
(* around the start that holds what its members lead to.                   *)
(***************************************************************************)
RepeatOf(repeat, X, start, move) ==
  /\ repeat \in [Nat -> X] /\ repeat[0] = start
  /\ \A n \in Nat : repeat[n + 1] = move[repeat[n]]

RepeatUpTo(n, X, start, move, after) ==
  LoopOf(0, n, X, start, [k \in 0..n |-> move], after)

Further(near, next) == near \cup UNION {next[h] : h \in near \cap DOMAIN next}
SearchOf(near, start, next) ==
  /\ near[0] = start
  /\ \A n \in Nat : near[n + 1] = Further(near[n], next)
Gathers(near, start, next) ==
  near = [n \in Nat |-> IF n = 0 THEN start ELSE Further(near[n - 1], next)]

HoldsNext(S, next) == \A h \in S \cap DOMAIN next : next[h] \subseteq S
Reached(S, start, next) ==
  /\ start \subseteq S /\ HoldsNext(S, next)
  /\ \A T : start \subseteq T /\ HoldsNext(T, next) => S \subseteq T

\* Two loops with the same body agree as far as both go.
LEMMA LoopsAgree ==
  ASSUME NEW X, NEW start, NEW move, NEW m \in Nat, NEW n \in Nat, m <= n,
         NEW a, RepeatUpTo(m, X, start, move, a),
         NEW b, RepeatUpTo(n, X, start, move, b)
  PROVE  a[m] = b[m]
<1> DEFINE S == {k \in 0..m : a[k] = b[k]}
<1>1. 0 \in S
  BY DEF RepeatUpTo, LoopOf
<1>2. ASSUME NEW k \in 0..m, k \in S, k < m PROVE k + 1 \in S
  <2>1. /\ k + 1 \in 0..m /\ k + 1 \in 0..n /\ k + 1 # 0 /\ (k + 1) - 1 = k
    BY <1>2
  <2>2. a[k + 1] = move[a[k]] /\ b[k + 1] = move[b[k]]
    BY <2>1 DEF RepeatUpTo, LoopOf
  <2> QED BY <1>2, <2>1, <2>2
<1>3. 0 \in Nat /\ m \in 0..m
  OBVIOUS
<1> HIDE DEF S
<1>4. m \in S
  BY <1>1, <1>2, <1>3, IntervalInduction
<1> QED BY <1>4 DEF S

\* A step that is a function can be repeated forever.
LEMMA RepeatExists ==
  ASSUME NEW X, NEW start \in X, NEW move \in [X -> X]
  PROVE  \E repeat : RepeatOf(repeat, X, start, move)
<1> DEFINE after == [n \in Nat |-> CHOOSE a : RepeatUpTo(n, X, start, move, a)]
           repeat == [n \in Nat |-> after[n][n]]
<1>1. ASSUME NEW n \in Nat PROVE \E a : RepeatUpTo(n, X, start, move, a)
  <2>1. 0 \in Nat /\ 0 <= n /\ [k \in 0..n |-> move] \in [0..n -> [X -> X]]
    OBVIOUS
  <2> QED BY <2>1, LoopExists DEF RepeatUpTo
<1>2. ASSUME NEW n \in Nat PROVE RepeatUpTo(n, X, start, move, after[n])
  BY <1>1
<1> HIDE DEF after
<1>3. ASSUME NEW n \in Nat
      PROVE  after[n] \in [0..n -> X] /\ after[n][0] = start
             /\ \A k \in 0..n : k # 0 => after[n][k] = move[after[n][k - 1]]
  BY <1>2 DEF RepeatUpTo, LoopOf
<1>4. repeat \in [Nat -> X]
  <2>1. ASSUME NEW n \in Nat PROVE after[n][n] \in X
    BY <1>3
  <2> QED BY <2>1
<1>5. repeat[0] = start
  BY <1>3
<1>6. ASSUME NEW n \in Nat PROVE repeat[n + 1] = move[repeat[n]]
  <2>1. n + 1 \in Nat /\ n + 1 \in 0..(n + 1) /\ n + 1 # 0 /\ (n + 1) - 1 = n /\ n <= n + 1
    OBVIOUS
  <2>2. after[n + 1][n + 1] = move[after[n + 1][n]]
    BY <1>3, <2>1
  <2>3. after[n][n] = after[n + 1][n]
    BY <1>2, <2>1, LoopsAgree
  <2> QED BY <2>1, <2>2, <2>3
<1> HIDE DEF repeat
<1>7. RepeatOf(repeat, X, start, move)
  BY <1>4, <1>5, <1>6 DEF RepeatOf
<1> QED BY <1>7

LEMMA SearchExists ==
  ASSUME NEW start, NEW next
  PROVE  \E near : near = [n \in Nat |-> near[n]] /\ SearchOf(near, start, next)
<1> DEFINE all == start \cup UNION {next[h] : h \in DOMAIN next}
           X == SUBSET all
           move == [near \in X |-> Further(near, next)]
<1>1. start \in X
  OBVIOUS
<1>2. ASSUME NEW near \in X PROVE Further(near, next) \in X
  BY DEF Further
<1>3. move \in [X -> X]
  BY <1>2
<1>4. PICK near : RepeatOf(near, X, start, move)
  <2> HIDE DEF X, move
  <2> QED BY <1>1, <1>3, RepeatExists
<1>5. near = [n \in Nat |-> near[n]]
  BY <1>4 DEF RepeatOf
<1>6. ASSUME NEW n \in Nat PROVE near[n + 1] = Further(near[n], next)
  <2>1. near[n] \in X /\ near[n + 1] = move[near[n]]
    BY <1>4 DEF RepeatOf
  <2> HIDE DEF X
  <2> QED BY <2>1
<1>7. SearchOf(near, start, next)
  BY <1>4, <1>6 DEF RepeatOf, SearchOf
<1> QED BY <1>5, <1>7

\* No round leaves a set that holds what its members lead to.
LEMMA SearchStaysInside ==
  ASSUME NEW near, NEW start, NEW next, SearchOf(near, start, next),
         NEW T, start \subseteq T, HoldsNext(T, next)
  PROVE  \A n \in Nat : near[n] \subseteq T
<1> TAKE n \in Nat
<1> DEFINE S == {k \in 0..n : near[k] \subseteq T}
<1>1. 0 \in S
  BY DEF SearchOf
<1>2. ASSUME NEW k \in 0..n, k \in S, k < n PROVE k + 1 \in S
  <2>1. k \in Nat /\ k + 1 \in 0..n
    BY <1>2
  <2>2. near[k + 1] = Further(near[k], next) /\ near[k] \subseteq T
    BY <1>2, <2>1 DEF SearchOf
  <2>3. near[k + 1] \subseteq T
    BY <2>2 DEF Further, HoldsNext
  <2> QED BY <2>1, <2>3
<1>3. 0 \in Nat /\ n \in 0..n
  OBVIOUS
<1> HIDE DEF S
<1>4. n \in S
  BY <1>1, <1>2, <1>3, IntervalInduction
<1> QED BY <1>4 DEF S

\* Each round enters one more function, or there is nothing more to reach.
LEMMA SearchReaches ==
  ASSUME NEW near, NEW start, NEW next, SearchOf(near, start, next),
         IsFiniteSet(DOMAIN next)
  PROVE  Reached(near[Cardinality(DOMAIN next)], start, next)
<1> DEFINE D == DOMAIN next
           N == Cardinality(D)
           Held(n) == near[n] \cap D
           S == {n \in 0..N : HoldsNext(near[n], next) \/ n + 1 <= Cardinality(Held(n))}
<1>1. N \in Nat /\ 0 \in Nat /\ 0 \in 0..N /\ N \in 0..N
  BY FS_CardinalityType
<1>2. ASSUME NEW n \in Nat
      PROVE  IsFiniteSet(Held(n)) /\ Cardinality(Held(n)) \in Nat /\ Cardinality(Held(n)) <= N
  <2>1. Held(n) \subseteq D
    OBVIOUS
  <2> HIDE DEF Held
  <2> QED BY <2>1, FS_Subset, FS_CardinalityType
<1>3. 0 \in S
  <2>1. CASE Held(0) = {}
    BY <1>1, <2>1 DEF HoldsNext
  <2>2. CASE Held(0) # {}
    <3> HIDE DEF Held
    <3>1. Cardinality(Held(0)) # 0
      BY <1>1, <1>2, <2>2, FS_EmptySet
    <3>2. 0 + 1 <= Cardinality(Held(0))
      BY <1>1, <1>2, <3>1
    <3> QED BY <1>1, <3>2
  <2> QED BY <2>1, <2>2
<1>4. ASSUME NEW n \in 0..N, n \in S, n < N PROVE n + 1 \in S
  <2>1. n \in Nat /\ n + 1 \in 0..N /\ n + 1 \in Nat
    BY <1>1, <1>4
  <2>2. near[n + 1] = Further(near[n], next)
    BY <2>1 DEF SearchOf
  <2>3. CASE HoldsNext(near[n], next)
    <3>1. near[n + 1] = near[n]
      BY <2>2, <2>3 DEF Further, HoldsNext
    <3> QED BY <2>1, <2>3, <3>1
  <2>4. CASE Held(n + 1) = Held(n)
    <3>1. HoldsNext(near[n + 1], next)
      BY <2>2, <2>4 DEF Further, HoldsNext
    <3> QED BY <2>1, <3>1
  <2>5. CASE ~ HoldsNext(near[n], next) /\ Held(n + 1) # Held(n)
    <3>1. n + 1 <= Cardinality(Held(n))
      BY <1>4, <2>5
    <3>2. Held(n) \subseteq Held(n + 1)
      BY <2>2 DEF Further
    <3> HIDE DEF Held
    <3>3. Cardinality(Held(n)) < Cardinality(Held(n + 1))
      BY <1>2, <2>1, <2>5, <3>2, FS_Subset
    <3>4. (n + 1) + 1 <= Cardinality(Held(n + 1))
      BY <1>2, <2>1, <3>1, <3>3
    <3> QED BY <2>1, <3>4
  <2> QED BY <2>3, <2>4, <2>5
<1>5. N \in S
  <2> HIDE DEF S, N
  <2> QED BY <1>1, <1>3, <1>4, IntervalInduction
<1>6. HoldsNext(near[N], next)
  <2>1. ~ (N + 1 <= Cardinality(Held(N)))
    <3> HIDE DEF Held, N
    <3> QED BY <1>1, <1>2
  <2> QED BY <1>5, <2>1
<1>7. start \subseteq near[N]
  <2> DEFINE T == {n \in 0..N : start \subseteq near[n]}
  <2>1. 0 \in T
    BY <1>1 DEF SearchOf
  <2>2. ASSUME NEW n \in 0..N, n \in T, n < N PROVE n + 1 \in T
    <3>1. n \in Nat /\ n + 1 \in 0..N
      BY <1>1, <2>2
    <3>2. near[n + 1] = Further(near[n], next)
      BY <3>1 DEF SearchOf
    <3> QED BY <2>2, <3>1, <3>2 DEF Further
  <2>3. N \in T
    <3> HIDE DEF T, N
    <3> QED BY <1>1, <2>1, <2>2, IntervalInduction
  <2> QED BY <2>3
<1>8. \A T : start \subseteq T /\ HoldsNext(T, next) => near[N] \subseteq T
  BY <1>1, SearchStaysInside
<1> QED BY <1>6, <1>7, <1>8 DEF Reached

\* What a search for the model's recursion finds, when the rounds are the
\* recursion's.
LEMMA RecursionReaches ==
  ASSUME NEW start, NEW next, IsFiniteSet(DOMAIN next),
         NEW near, Gathers(near, start, next)
  PROVE  Reached(near[Cardinality(DOMAIN next)], start, next)
<1>1. near[0] = start
  BY DEF Gathers
<1>2. ASSUME NEW n \in Nat PROVE near[n + 1] = Further(near[n], next)
  <2>1. n + 1 \in Nat /\ n + 1 # 0 /\ (n + 1) - 1 = n
    OBVIOUS
  <2> QED BY <2>1 DEF Gathers
<1>3. SearchOf(near, start, next)
  BY <1>1, <1>2 DEF SearchOf
<1> QED BY <1>3, SearchReaches

LEMMA RecursionExists ==
  ASSUME NEW start, NEW next
  PROVE  \E near : Gathers(near, start, next)
<1>1. PICK near : near = [n \in Nat |-> near[n]] /\ SearchOf(near, start, next)
  BY SearchExists
<1>2. ASSUME NEW n \in Nat
      PROVE  near[n] = IF n = 0 THEN start ELSE Further(near[n - 1], next)
  <2>1. CASE n = 0
    BY <1>1, <2>1 DEF SearchOf
  <2>2. CASE n # 0
    <3>1. n - 1 \in Nat /\ (n - 1) + 1 = n
      BY <2>2
    <3>2. near[(n - 1) + 1] = Further(near[n - 1], next)
      BY <1>1, <3>1 DEF SearchOf
    <3> QED BY <2>2, <3>1, <3>2
  <2> QED BY <2>1, <2>2
<1>3. Gathers(near, start, next)
  BY <1>1, <1>2 DEF Gathers
<1> QED BY <1>3

-----------------------------------------------------------------------------
\* The methods a transport entry calls on its own receiver, other entries
\* apart.
CallsOf == [h \in source.functions |-> {g \in source.functions : ~g.entry /\ g.at \in h.helpers}]

\* A transport workflow is judged by the entry point, the helpers it calls,
\* those they call, and nothing else (srp_transport_workflow.go:27): the least
\* set around the entry that holds the helpers of its members.
THEOREM WorkflowsAreClosed ==
  IsFiniteSet(source.functions)
    => \A f \in source.functions : Reached(Entered(f), {f}, CallsOf)
<1> SUFFICES ASSUME IsFiniteSet(source.functions), NEW f \in source.functions
             PROVE  Reached(Entered(f), {f}, CallsOf)
  OBVIOUS
<1> DEFINE all == source.functions
           Onward(S) == S \cup {g \in all : ~g.entry /\ \E h \in S : g.at \in h.helpers}
           Is(near) == near = [n \in Nat |-> IF n = 0 THEN {f} ELSE Onward(near[n - 1])]
           after == CHOOSE near : Is(near)
<1>1. DOMAIN CallsOf = all
  BY DEF CallsOf
<1>2. ASSUME NEW S, S \subseteq all PROVE Onward(S) = Further(S, CallsOf)
  <2>1. \A h \in S : h \in all /\ CallsOf[h] = {g \in all : ~g.entry /\ g.at \in h.helpers}
    BY <1>2 DEF CallsOf
  <2>2. S \cap DOMAIN CallsOf = S
    BY <1>1, <1>2
  <2> HIDE DEF all
  <2>3. {g \in all : ~g.entry /\ \E h \in S : g.at \in h.helpers} = UNION {CallsOf[h] : h \in S}
    BY <2>1
  <2> QED BY <2>2, <2>3 DEF Further
<1>3. ASSUME NEW near, Gathers(near, {f}, CallsOf)
      PROVE  Is(near)
  <2>1. SearchOf(near, {f}, CallsOf)
    <3>1. near[0] = {f}
      BY <1>3 DEF Gathers
    <3>2. ASSUME NEW n \in Nat PROVE near[n + 1] = Further(near[n], CallsOf)
      <4>1. n + 1 \in Nat /\ n + 1 # 0 /\ (n + 1) - 1 = n
        OBVIOUS
      <4> QED BY <1>3, <4>1 DEF Gathers
    <3> QED BY <3>1, <3>2 DEF SearchOf
  <2>2. {f} \subseteq all /\ HoldsNext(all, CallsOf)
    BY DEF HoldsNext, CallsOf
  <2>3. \A n \in Nat : near[n] \subseteq all
    <3> HIDE DEF all
    <3> QED BY <2>1, <2>2, SearchStaysInside
  <2>4. ASSUME NEW n \in Nat
        PROVE  near[n] = IF n = 0 THEN {f} ELSE Onward(near[n - 1])
    <3>1. n # 0 => n - 1 \in Nat
      OBVIOUS
    <3>2. near[n] = IF n = 0 THEN {f} ELSE Further(near[n - 1], CallsOf)
      BY <1>3 DEF Gathers
    <3> HIDE DEF Onward, all
    <3> QED BY <1>2, <2>3, <3>1, <3>2
  <2>5. near = [n \in Nat |-> near[n]]
    BY <1>3 DEF Gathers
  <2> HIDE DEF Onward
  <2> QED BY <2>4, <2>5
<1>4. \E near : Is(near)
  <2> HIDE DEF Is
  <2> QED BY <1>3, RecursionExists
<1>5. Is(after)
  <2> HIDE DEF Is
  <2> QED BY <1>4
<1>6. Entered(f) = after[Cardinality(all)]
  BY DEF Entered
<1> HIDE DEF after
<1>7. \A n \in Nat : after[n] \subseteq all
  <2> TAKE n \in Nat
  <2> DEFINE S == {k \in 0..n : after[k] \subseteq all}
  <2>1. 0 \in S
    BY <1>5
  <2>2. ASSUME NEW k \in 0..n, k \in S, k < n PROVE k + 1 \in S
    <3>1. k + 1 \in Nat /\ k + 1 \in 0..n /\ k + 1 # 0 /\ (k + 1) - 1 = k
      BY <2>2
    <3>2. after[k + 1] = Onward(after[k])
      BY <1>5, <3>1
    <3> QED BY <2>2, <3>1, <3>2
  <2>3. 0 \in Nat /\ n \in 0..n
    OBVIOUS
  <2> HIDE DEF S
  <2>4. n \in S
    BY <2>1, <2>2, <2>3, IntervalInduction
  <2> QED BY <2>4 DEF S
<1>8. Gathers(after, {f}, CallsOf)
  <2>1. ASSUME NEW n \in Nat
        PROVE  after[n] = IF n = 0 THEN {f} ELSE Further(after[n - 1], CallsOf)
    <3>1. n # 0 => n - 1 \in Nat
      OBVIOUS
    <3>2. after[n] = IF n = 0 THEN {f} ELSE Onward(after[n - 1])
      BY <1>5
    <3> HIDE DEF Onward, all
    <3> QED BY <1>2, <1>7, <3>1, <3>2
  <2>2. after = [n \in Nat |-> after[n]]
    BY <1>5
  <2> QED BY <2>1, <2>2 DEF Gathers
<1> HIDE DEF Is
<1>9. Reached(after[Cardinality(DOMAIN CallsOf)], {f}, CallsOf)
  <2>1. IsFiniteSet(DOMAIN CallsOf)
    BY <1>1
  <2> QED BY <1>8, <2>1, RecursionReaches
<1> QED BY <1>1, <1>6, <1>9

\* The products of a factory are the concrete types its branches return, by
\* themselves or through helpers, however these call each other and whichever
\* is followed first (ocp_factory.go:199): the least set around what the
\* branches return that holds what its helpers return, without the helpers.
THEOREM ProductsAreReached ==
  IsFiniteSet(DOMAIN code.helpers)
    => \A f \in code.factories :
         \E S : Reached(S, f.returns, code.helpers) /\ Products(f) = S \ DOMAIN code.helpers
<1> SUFFICES ASSUME IsFiniteSet(DOMAIN code.helpers), NEW f \in code.factories
             PROVE  \E S : /\ Reached(S, f.returns, code.helpers)
                           /\ Products(f) = S \ DOMAIN code.helpers
  OBVIOUS
<1> DEFINE Is(near) == near = [n \in Nat |->
                         IF n = 0 THEN f.returns
                         ELSE near[n - 1] \cup
                              UNION {code.helpers[h] : h \in near[n - 1] \cap DOMAIN code.helpers}]
           seen == CHOOSE near : Is(near)
<1>1. \A near : Is(near) <=> Gathers(near, f.returns, code.helpers)
  BY DEF Gathers, Further
<1>2. \E near : Is(near)
  <2> HIDE DEF Is
  <2> QED BY <1>1, RecursionExists
<1>3. Is(seen)
  <2> HIDE DEF Is
  <2> QED BY <1>2
<1>4. Products(f) = seen[Cardinality(DOMAIN code.helpers)] \ DOMAIN code.helpers
  BY DEF Products
<1> HIDE DEF Is, seen
<1>5. Reached(seen[Cardinality(DOMAIN code.helpers)], f.returns, code.helpers)
  BY <1>1, <1>3, RecursionReaches
<1> QED BY <1>4, <1>5

-----------------------------------------------------------------------------
\* A link holds in both directions.
BothWays(links) == links \cup {<<p[2], p[1]>> : p \in links}
LinkedTo(methods, links) ==
  [o \in methods |-> {k \in methods : <<o, k>> \in links \/ <<k, o>> \in links}]

LEMMA LinksHoldBothWays ==
  ASSUME NEW methods, NEW links \in SUBSET (methods \X methods), NEW o \in methods, NEW k \in methods
  PROVE  /\ <<o, k>> \in BothWays(links) <=> <<o, k>> \in links \/ <<k, o>> \in links
         /\ <<o, k>> \in BothWays(links) <=> k \in LinkedTo(methods, links)[o]
         /\ <<o, k>> \in BothWays(links) <=> <<k, o>> \in BothWays(links)
<1>1. ASSUME NEW a \in methods, NEW b \in methods
      PROVE  <<a, b>> \in BothWays(links) <=> <<a, b>> \in links \/ <<b, a>> \in links
  <2>1. CASE <<b, a>> \in links
    <3>1. <<a, b>> = <<(<<b, a>>)[2], (<<b, a>>)[1]>>
      OBVIOUS
    <3> QED BY <2>1, <3>1 DEF BothWays
  <2>2. ASSUME <<a, b>> \in BothWays(links), <<a, b>> \notin links PROVE <<b, a>> \in links
    <3>1. PICK p \in links : <<a, b>> = <<p[2], p[1]>>
      BY <2>2 DEF BothWays
    <3>2. p = <<p[1], p[2]>>
      OBVIOUS
    <3> QED BY <3>1, <3>2
  <2> QED BY <2>1, <2>2 DEF BothWays
<1> QED BY <1>1 DEF LinkedTo

\* What is reached from a method is what a chain of links leads to.
LEMMA ReachedByChains ==
  ASSUME NEW methods, NEW links \in SUBSET (methods \X methods), NEW m \in methods, NEW k \in methods,
         NEW S, Reached(S, {m}, LinkedTo(methods, links))
  PROVE  k \in S <=> Chained(methods, BothWays(links), m, k)
<1> DEFINE next == LinkedTo(methods, links)
<1>1. /\ DOMAIN next = methods
      /\ \A o \in methods : next[o] \subseteq methods
      /\ \A o, l \in methods : <<o, l>> \in BothWays(links) <=> l \in next[o]
  BY LinksHoldBothWays DEF LinkedTo
<1> HIDE DEF next
<1>2. S \subseteq methods
  <2>1. {m} \subseteq methods /\ HoldsNext(methods, next)
    BY <1>1 DEF HoldsNext
  <2> QED BY <2>1 DEF Reached, next
<1>3. ASSUME k \in S, NEW closed \in SUBSET methods, m \in closed,
             \A u \in closed, v \in methods : <<u, v>> \in BothWays(links) => v \in closed
      PROVE  k \in closed
  <2>1. {m} \subseteq closed /\ HoldsNext(closed, next)
    BY <1>1, <1>3 DEF HoldsNext
  <2>2. S \subseteq closed
    BY <2>1 DEF Reached, next
  <2> QED BY <1>3, <2>2
<1>4. ASSUME Chained(methods, BothWays(links), m, k) PROVE k \in S
  <2>1. m \in S /\ HoldsNext(S, next)
    BY DEF Reached, next
  <2>2. ASSUME NEW u \in S, NEW v \in methods, <<u, v>> \in BothWays(links) PROVE v \in S
    <3>1. u \in methods /\ v \in next[u] /\ u \in S \cap DOMAIN next
      BY <1>1, <1>2, <2>2
    <3> QED BY <2>1, <3>1 DEF HoldsNext
  <2> QED BY <1>2, <1>4, <2>1, <2>2 DEF Chained
<1> QED BY <1>3, <1>4 DEF Chained

\* A chain of links leads back.
LEMMA ChainsAreMutual ==
  ASSUME NEW S, NEW together, NEW s \in S, NEW t \in S,
         \A u, v \in S : <<u, v>> \in together => <<v, u>> \in together,
         Chained(S, together, s, t)
  PROVE  \A r \in S : Chained(S, together, s, r) <=> Chained(S, together, t, r)
<1> DEFINE Closed(some) == \A u \in some, v \in S : <<u, v>> \in together => v \in some
<1>1. ASSUME NEW some \in SUBSET S, Closed(some), t \in some PROVE s \in some
  <2> SUFFICES ASSUME s \notin some PROVE FALSE
    OBVIOUS
  <2>1. S \ some \in SUBSET S /\ s \in S \ some
    OBVIOUS
  <2>2. Closed(S \ some)
    BY <1>1
  <2>3. t \in S \ some
    BY <2>1, <2>2 DEF Chained
  <2> QED BY <1>1, <2>3
<1>2. \A some \in SUBSET S : Closed(some) => (s \in some <=> t \in some)
  BY <1>1 DEF Chained
<1> QED BY <1>2 DEF Chained

\* Round for round, what is near one method is what a search from it gathers.
LEMMA ClassesAreGathered ==
  ASSUME NEW methods, NEW links, NEW near, NEW m \in methods,
         near = [n \in Nat |->
                   IF n = 0 THEN [o \in methods |-> {o}]
                   ELSE [o \in methods |-> near[n - 1][o] \cup
                           {k \in methods : \E l \in near[n - 1][o] :
                                              <<l, k>> \in links \/ <<k, l>> \in links}]]
  PROVE  Gathers([n \in Nat |-> near[n][m]], {m}, LinkedTo(methods, links))
<1> DEFINE next == LinkedTo(methods, links)
           around == [n \in Nat |-> near[n][m]]
           Onward(T) == T \cup {k \in methods : \E l \in T : <<l, k>> \in links \/ <<k, l>> \in links}
<1>1. around[0] = {m}
  OBVIOUS
<1>2. ASSUME NEW n \in Nat, n # 0 PROVE around[n] = Onward(around[n - 1])
  <2>1. n - 1 \in Nat
    BY <1>2
  <2>2. near[n] = [o \in methods |-> near[n - 1][o] \cup
                     {k \in methods : \E l \in near[n - 1][o] :
                                        <<l, k>> \in links \/ <<k, l>> \in links}]
    BY <1>2
  <2>3. near[n][m] = Onward(near[n - 1][m])
    BY <2>2
  <2>4. around[n] = near[n][m] /\ around[n - 1] = near[n - 1][m]
    BY <2>1
  <2> HIDE DEF around, Onward
  <2> QED BY <2>3, <2>4
<1> HIDE DEF around
<1>3. \A n \in Nat : around[n] \subseteq methods
  <2> TAKE n \in Nat
  <2> DEFINE S == {k \in 0..n : around[k] \subseteq methods}
  <2>1. 0 \in S
    BY <1>1
  <2>2. ASSUME NEW k \in 0..n, k \in S, k < n PROVE k + 1 \in S
    <3>1. k + 1 \in Nat /\ k + 1 \in 0..n /\ k + 1 # 0 /\ (k + 1) - 1 = k
      BY <2>2
    <3>2. around[k + 1] = Onward(around[k])
      <4> HIDE DEF Onward
      <4> QED BY <1>2, <3>1
    <3> QED BY <2>2, <3>1, <3>2
  <2>3. 0 \in Nat /\ n \in 0..n
    OBVIOUS
  <2> HIDE DEF S
  <2>4. n \in S
    BY <2>1, <2>2, <2>3, IntervalInduction
  <2> QED BY <2>4 DEF S
<1>4. ASSUME NEW T, T \subseteq methods PROVE Onward(T) = Further(T, next)
  <2>1. T \cap DOMAIN next = T
    BY <1>4 DEF LinkedTo
  <2>2. \A l \in T : next[l] = {k \in methods : <<l, k>> \in links \/ <<k, l>> \in links}
    BY <1>4 DEF LinkedTo
  <2> HIDE DEF next
  <2>3. {k \in methods : \E l \in T : <<l, k>> \in links \/ <<k, l>> \in links}
          = UNION {next[l] : l \in T}
    <3>1. \A l \in T : \A k : k \in next[l] <=> k \in methods /\ (<<l, k>> \in links \/ <<k, l>> \in links)
      BY <2>2
    <3>2. \A k : k \in UNION {next[l] : l \in T} <=> \E l \in T : k \in next[l]
      OBVIOUS
    <3> QED BY <3>1, <3>2
  <2> QED BY <2>1, <2>3 DEF Further
<1>5. ASSUME NEW n \in Nat
      PROVE  around[n] = IF n = 0 THEN {m} ELSE Further(around[n - 1], next)
  <2>1. n # 0 => n - 1 \in Nat
    OBVIOUS
  <2> HIDE DEF Onward, next
  <2> QED BY <1>1, <1>2, <1>3, <1>4, <2>1
<1>6. around = [n \in Nat |-> around[n]]
  BY DEF around
<1> HIDE DEF next
<1>7. Gathers(around, {m}, next)
  BY <1>5, <1>6 DEF Gathers
<1> QED BY <1>7 DEF around, next

\* The classes of methods of a type, by shared fields and calls
\* (srp_profile.go:326) or by shared imports (srp_profile.go:855), are its
\* connected components: every method is in one class and no other, and two
\* methods are in one exactly when a chain of links, in either direction,
\* leads from one to the other.
THEOREM ClassesAreComponents ==
  ASSUME NEW methods, IsFiniteSet(methods), NEW links \in SUBSET (methods \X methods)
  PROVE  /\ UNION Classes(methods, links) = methods
         /\ \A C, D \in Classes(methods, links) : C = D \/ C \cap D = {}
         /\ \A m, k \in methods :
              (\E C \in Classes(methods, links) : {m, k} \subseteq C) <=>
                Chained(methods, BothWays(links), m, k)
<1> DEFINE Rows(near) == [o \in methods |-> near[o] \cup
                           {k \in methods : \E l \in near[o] :
                                              <<l, k>> \in links \/ <<k, l>> \in links}]
           Is(near) == near = [n \in Nat |-> IF n = 0 THEN [m \in methods |-> {m}]
                                             ELSE Rows(near[n - 1])]
           after == CHOOSE near : Is(near)
           last == Cardinality(methods)
           Class(m) == after[last][m]
<1>1. \E near : Is(near)
  <2> DEFINE X == [methods -> SUBSET methods]
             alone == [m \in methods |-> {m}]
             move == [near \in X |-> Rows(near)]
  <2>1. alone \in X /\ move \in [X -> X]
    OBVIOUS
  <2>2. PICK near : RepeatOf(near, X, alone, move)
    <3> HIDE DEF X, alone, move
    <3> QED BY <2>1, RepeatExists
  <2>3. ASSUME NEW n \in Nat PROVE near[n] = IF n = 0 THEN alone ELSE Rows(near[n - 1])
    <3>1. CASE n = 0
      BY <2>2, <3>1 DEF RepeatOf
    <3>2. CASE n # 0
      <4>1. n - 1 \in Nat /\ (n - 1) + 1 = n
        BY <3>2
      <4>2. near[(n - 1) + 1] = move[near[n - 1]] /\ near[n - 1] \in X
        <5> HIDE DEF X, move
        <5> QED BY <2>2, <4>1 DEF RepeatOf
      <4>3. move[near[n - 1]] = Rows(near[n - 1])
        BY <4>2
      <4> HIDE DEF Rows
      <4> QED BY <3>2, <4>1, <4>2, <4>3
    <3> QED BY <3>1, <3>2
  <2>4. near = [n \in Nat |-> near[n]]
    BY <2>2 DEF RepeatOf
  <2> HIDE DEF Rows
  <2>5. Is(near)
    BY <2>3, <2>4
  <2> HIDE DEF Is
  <2> QED BY <2>5
<1>2. Is(after)
  <2> HIDE DEF Is
  <2> QED BY <1>1
<1>3. Classes(methods, links) = {Class(m) : m \in methods}
  BY DEF Classes
<1> HIDE DEF after
<1>4. ASSUME NEW m \in methods
      PROVE  Reached(Class(m), {m}, LinkedTo(methods, links))
  <2> DEFINE around == [n \in Nat |-> after[n][m]]
  <2>1. Gathers(around, {m}, LinkedTo(methods, links))
    BY <1>2, ClassesAreGathered
  <2>2. DOMAIN LinkedTo(methods, links) = methods
    BY DEF LinkedTo
  <2> HIDE DEF around
  <2>3. Reached(around[last], {m}, LinkedTo(methods, links))
    BY <2>1, <2>2, RecursionReaches
  <2>4. last \in Nat
    BY FS_CardinalityType
  <2>5. around[last] = Class(m)
    BY <2>4 DEF around
  <2> QED BY <2>3, <2>5
<1> HIDE DEF Is, Class
<1>5. \A m, k \in methods : k \in Class(m) <=> Chained(methods, BothWays(links), m, k)
  BY <1>4, ReachedByChains
<1>6. \A m \in methods : m \in Class(m) /\ Class(m) \subseteq methods
  <2> TAKE m \in methods
  <2>1. {m} \subseteq methods /\ HoldsNext(methods, LinkedTo(methods, links))
    BY DEF HoldsNext, LinkedTo
  <2> QED BY <1>4, <2>1 DEF Reached
<1>7. ASSUME NEW m \in methods, NEW k \in methods, k \in Class(m)
      PROVE  Class(k) = Class(m)
  <2>1. Chained(methods, BothWays(links), m, k)
    BY <1>5, <1>7
  <2>2. \A u, v \in methods : <<u, v>> \in BothWays(links) => <<v, u>> \in BothWays(links)
    BY LinksHoldBothWays
  <2>3. \A r \in methods : Chained(methods, BothWays(links), m, r)
                             <=> Chained(methods, BothWays(links), k, r)
    BY <2>1, <2>2, ChainsAreMutual
  <2>4. \A r \in methods : r \in Class(m) <=> r \in Class(k)
    BY <1>5, <2>3
  <2> QED BY <1>6, <2>4
<1>8. UNION Classes(methods, links) = methods
  BY <1>3, <1>6
<1>9. ASSUME NEW C \in Classes(methods, links), NEW D \in Classes(methods, links), C \cap D # {}
      PROVE  C = D
  <2>1. PICK m \in methods : C = Class(m)
    BY <1>3
  <2>2. PICK k \in methods : D = Class(k)
    BY <1>3
  <2>3. PICK r \in methods : r \in Class(m) /\ r \in Class(k)
    BY <1>6, <1>9, <2>1, <2>2
  <2> QED BY <1>7, <2>1, <2>2, <2>3
<1>10. ASSUME NEW m \in methods, NEW k \in methods
       PROVE  (\E C \in Classes(methods, links) : {m, k} \subseteq C) <=> k \in Class(m)
  <2>1. ASSUME NEW C \in Classes(methods, links), {m, k} \subseteq C PROVE k \in Class(m)
    <3>1. PICK r \in methods : C = Class(r)
      BY <1>3
    <3>2. Class(m) = Class(r)
      BY <1>7, <2>1, <3>1
    <3> QED BY <2>1, <3>1, <3>2
  <2>2. ASSUME k \in Class(m) PROVE \E C \in Classes(methods, links) : {m, k} \subseteq C
    BY <1>3, <1>6, <2>2
  <2> QED BY <2>1, <2>2
<1> QED BY <1>5, <1>8, <1>9, <1>10

-----------------------------------------------------------------------------
(***************************************************************************)
(* The groups together.                                                    *)
(***************************************************************************)
\* A run of the checks is a run of each group of checks.
THEOREM GroupsAreIndependent ==
  Spec => FlowSpec /\ ConstructorSpec /\ PackageSpec /\ DispatchSpec /\ LayerSpec
<1>1. Init => FlowInit /\ ConstructorInit /\ PackageInit /\ DispatchInit /\ LayerInit
  BY DEF Init
<1>2. [Next]_vars => [FlowNext]_flowVars
  BY DEF Next, vars, SearchFlows, FollowAliases, ExaminePackage, RunDispatchGroup,
         RunLayerGroup, flowVars
<1>3. [Next]_vars => [ConstructorNext]_ctorVars
  BY DEF Next, vars, SearchFlows, FollowAliases, ExaminePackage, RunDispatchGroup,
         RunLayerGroup, ctorVars
<1>4. [Next]_vars => [PackageNext]_packageVars
  BY DEF Next, vars, SearchFlows, FollowAliases, ExaminePackage, RunDispatchGroup,
         RunLayerGroup, packageVars
<1>5. [Next]_vars => [DispatchNext]_dispatchVars
  BY DEF Next, vars, SearchFlows, FollowAliases, ExaminePackage, RunDispatchGroup,
         RunLayerGroup, dispatchVars
<1>6. [Next]_vars => [LayerNext]_layerVars
  BY DEF Next, vars, SearchFlows, FollowAliases, ExaminePackage, RunDispatchGroup,
         RunLayerGroup, layerVars
<1> QED BY <1>1, <1>2, <1>3, <1>4, <1>5, <1>6, PTL
        DEF Spec, FlowSpec, ConstructorSpec, PackageSpec, DispatchSpec, LayerSpec

\* In a run of all the checks over a program whose packages are as the syntax
\* makes them, the properties of the groups hold together.
THEOREM ChecksKeepTheirPromises ==
  /\ PackageOK /\ FinitePackage /\ ConstructorOK
  /\ FiniteParameters /\ OwnPositions /\ FunctionsListed /\ SitesListed
  /\ Spec
  => [](/\ MemoIsOrderless /\ UnreadIsClosed /\ FieldVerdictsAgree /\ OriginsAreSettled
        /\ ClumpsAreTheWidest /\ OneParameterFindingEach
        /\ DispatchSelectionOnlyFilters /\ ParallelFunctionsAreNamed /\ FamiliesAreClasses
        /\ LayerSelectionOnlyFilters)
BY GroupsAreIndependent, MemoOrderless, UnreadClosed, VerdictsAgree, OriginsSettle,
   TheWidestAreLeft, ParametersReportedOnce, DispatchSelection, ParallelNamed,
   FamiliesOfChains, LayerSelection, PTL

-----------------------------------------------------------------------------
(***************************************************************************)
(* A run of all the checks ends: every step of any group leaves less to be *)
(* done.  For a package's SOLID-S group that is the stages to come, each   *)
(* with a walk over as many clumps as there may be, and the clumps left to *)
(* visit in this one; for the program groups, the checks whose turn it is  *)
(* not yet.                                                                *)
(***************************************************************************)
FiniteFunctions == IsFiniteSet(source.functions)

AllClumps == BuildParameterClumps("syntax") \cup BuildParameterClumps("types")
StagesLeft ==
  CASE stage = "functions" -> 6 [] stage = "clumps" -> 5 [] stage = "workflow" -> 4
    [] stage = "parameters" -> 3 [] stage = "typed clumps" -> 2 [] stage = "structs" -> 1
    [] stage = "over" -> 0
PackageLeft == StagesLeft * (Cardinality(AllClumps) + 1) + Cardinality(unvisited)
DispatchLeft == Len(DispatchChecks) - step
LayerLeft == Len(LayerChecks) - turn

Stages ==
  {"functions", "clumps", "workflow", "parameters", "typed clumps", "structs", "over"}
WalkInv ==
  /\ FiniteFunctions /\ StagesLeft \in 0..6
  /\ stage \in Stages
  /\ unvisited \subseteq AllClumps

LEMMA ClumpsAreFinite ==
  ASSUME FiniteFunctions, NEW pass
  PROVE  IsFiniteSet(BuildParameterClumps(pass))
<1> DEFINE pairs == SharingPairs(pass)
           sets == {Shared(p, pass) : p \in pairs}
           Clump(s) == [params |-> s,
                        funcs |-> UNION {{p[1].at, p[2].at} : p \in {q \in pairs : Shared(q, pass) = s}}]
<1>1. IsFiniteSet(pairs)
  <2>1. pairs \subseteq source.functions \X source.functions
    BY DEF SharingPairs, Unreported
  <2>2. IsFiniteSet(source.functions \X source.functions)
    BY FS_Product DEF FiniteFunctions
  <2> HIDE DEF pairs
  <2> QED BY <2>1, <2>2, FS_Subset
<1>2. BuildParameterClumps(pass) = {Clump(s) : s \in sets}
  BY DEF BuildParameterClumps
<1> HIDE DEF pairs, Clump
<1>3. IsFiniteSet(sets)
  <2>1. sets = {[p \in pairs |-> Shared(p, pass)][x] : x \in pairs}
    OBVIOUS
  <2> HIDE DEF sets
  <2>2. IsFiniteSet({[p \in pairs |-> Shared(p, pass)][x] : x \in pairs})
    BY <1>1, FunctionImage
  <2> QED BY <2>1, <2>2
<1> HIDE DEF sets
<1>4. IsFiniteSet({Clump(s) : s \in sets})
  <2>1. {Clump(s) : s \in sets} = {[s \in sets |-> Clump(s)][x] : x \in sets}
    OBVIOUS
  <2>2. IsFiniteSet({[s \in sets |-> Clump(s)][x] : x \in sets})
    BY <1>3, FunctionImage
  <2> QED BY <2>1, <2>2
<1> QED BY <1>2, <1>4

LEMMA FewClumps ==
  ASSUME WalkInv
  PROVE  /\ IsFiniteSet(AllClumps) /\ IsFiniteSet(unvisited)
         /\ Cardinality(AllClumps) \in Nat /\ Cardinality(unvisited) \in Nat
         /\ Cardinality(unvisited) <= Cardinality(AllClumps)
<1>1. IsFiniteSet(AllClumps)
  BY ClumpsAreFinite, FS_Union DEF AllClumps, WalkInv
<1> QED BY <1>1, FS_Subset, FS_CardinalityType DEF WalkInv

\* A stage less outweighs the walk it may begin.
LEMMA OneStageLess ==
  ASSUME NEW s \in Nat, NEW t \in Nat, t < s, NEW m \in Nat,
         NEW u \in Nat, NEW v \in Nat, v <= m
  PROVE  t * (m + 1) + v < s * (m + 1) + u
<1>1. (t + 1) * (m + 1) <= s * (m + 1)
  <2>1. t + 1 <= s /\ t + 1 \in Nat /\ s \in Nat /\ m + 1 \in Nat
    OBVIOUS
  <2>2. PICK d \in Nat : s = t + 1 + d
    <3>1. s - (t + 1) \in Nat /\ s = t + 1 + (s - (t + 1))
      BY <2>1
    <3> QED BY <3>1
  <2>3. s * (m + 1) = (t + 1) * (m + 1) + d * (m + 1)
    BY <2>2
  <2>4. d * (m + 1) \in Nat /\ (t + 1) * (m + 1) \in Nat
    OBVIOUS
  <2> QED BY <2>3, <2>4
<1>2. (t + 1) * (m + 1) = t * (m + 1) + (m + 1)
  OBVIOUS
<1>3. t * (m + 1) \in Nat /\ s * (m + 1) \in Nat
  OBVIOUS
<1> QED BY <1>1, <1>2, <1>3

LEMMA WalkStep ==
  ASSUME WalkInv, PackageNext
  PROVE  WalkInv' /\ PackageLeft' < PackageLeft
<1>1. source' = source
  BY DEF PackageNext, ExamineFunctions, ReportClumps, ExamineWorkflows, ExamineParameters,
         ReportTypedClumps, ExamineStructs, VisitClump
<1>2. AllClumps' = AllClumps /\ FiniteFunctions'
  <2>1. \A pass : BuildParameterClumps(pass)' = BuildParameterClumps(pass)
    BY <1>1, SourceDecides
  <2> QED BY <1>1, <2>1 DEF AllClumps, FiniteFunctions, WalkInv
<1> DEFINE m == Cardinality(AllClumps)
<1>3. m \in Nat /\ m' = m /\ Cardinality(unvisited) \in Nat /\ IsFiniteSet(unvisited)
  BY <1>2, FewClumps
<1>4. ASSUME StagesLeft \in Nat, StagesLeft' \in Nat, StagesLeft' < StagesLeft, WalkInv'
      PROVE  PackageLeft' < PackageLeft
  <2>1. /\ Cardinality(unvisited') \in Nat /\ Cardinality(unvisited') <= m
    <3>1. WalkInv' => Cardinality(unvisited') \in Nat /\ Cardinality(unvisited') <= Cardinality(AllClumps')
      BY <1>2, FS_Subset, FS_CardinalityType, FewClumps DEF WalkInv
    <3> QED BY <1>2, <1>4, <3>1
  <2> DEFINE u == Cardinality(unvisited)
             v == Cardinality(unvisited')
             s == StagesLeft
             t == StagesLeft'
  <2>2. PackageLeft = s * (m + 1) + u /\ PackageLeft' = t * (m + 1) + v
    BY <1>2 DEF PackageLeft
  <2>3. s \in Nat /\ t \in Nat /\ t < s /\ u \in Nat /\ v \in Nat /\ v <= m
    BY <1>3, <1>4, <2>1
  <2> HIDE DEF s, t, u, v, m
  <2> QED BY <1>3, <2>2, <2>3, OneStageLess
<1>12. ASSUME StagesLeft' \in 0..6, unvisited' \subseteq AllClumps,
              stage' \in Stages
       PROVE  WalkInv'
  <2>1. FiniteFunctions' /\ unvisited' \subseteq AllClumps'
    BY <1>2, <1>12
  <2> QED BY <1>12, <2>1 DEF WalkInv
<1>13. unvisited \subseteq AllClumps /\ StagesLeft \in 0..6
  BY DEF WalkInv
<1>5. CASE ExamineFunctions
  <2>1. stage = "functions" /\ stage' = "clumps" /\ unvisited' \subseteq AllClumps
    BY <1>5 DEF ExamineFunctions, AllClumps
  <2>2. StagesLeft = 6 /\ StagesLeft' = 5
    BY <2>1 DEF StagesLeft
  <2>3. WalkInv'
    <3>1. StagesLeft' \in 0..6
      BY <2>2
    <3>2. unvisited' \subseteq AllClumps /\ stage' \in Stages
      BY <2>1 DEF Stages
    <3> QED BY <1>12, <3>1, <3>2
  <2> QED BY <1>4, <2>2, <2>3
<1>6. CASE ReportClumps
  <2>1. stage = "clumps" /\ stage' = "workflow" /\ unvisited' \subseteq AllClumps
    BY <1>6, <1>13 DEF ReportClumps
  <2>2. StagesLeft = 5 /\ StagesLeft' = 4
    BY <2>1 DEF StagesLeft
  <2>3. WalkInv'
    <3>1. StagesLeft' \in 0..6
      BY <2>2
    <3>2. unvisited' \subseteq AllClumps /\ stage' \in Stages
      BY <2>1 DEF Stages
    <3> QED BY <1>12, <3>1, <3>2
  <2> QED BY <1>4, <2>2, <2>3
<1>7. CASE ExamineWorkflows
  <2>1. stage = "workflow" /\ stage' \in {"parameters", "structs"} /\ unvisited' \subseteq AllClumps
    BY <1>7, <1>13 DEF ExamineWorkflows
  <2>2. StagesLeft = 4 /\ StagesLeft' \in {3, 1}
    BY <2>1 DEF StagesLeft
  <2>3. WalkInv'
    <3>1. StagesLeft' \in 0..6
      BY <2>2
    <3>2. unvisited' \subseteq AllClumps /\ stage' \in Stages
      BY <2>1 DEF Stages
    <3> QED BY <1>12, <3>1, <3>2
  <2> QED BY <1>4, <2>2, <2>3
<1>8. CASE ExamineParameters
  <2>1. stage = "parameters" /\ stage' = "typed clumps" /\ unvisited' \subseteq AllClumps
    BY <1>8 DEF ExamineParameters, AllClumps
  <2>2. StagesLeft = 3 /\ StagesLeft' = 2
    BY <2>1 DEF StagesLeft
  <2>3. WalkInv'
    <3>1. StagesLeft' \in 0..6
      BY <2>2
    <3>2. unvisited' \subseteq AllClumps /\ stage' \in Stages
      BY <2>1 DEF Stages
    <3> QED BY <1>12, <3>1, <3>2
  <2> QED BY <1>4, <2>2, <2>3
<1>9. CASE ReportTypedClumps
  <2>1. stage = "typed clumps" /\ stage' = "structs" /\ unvisited' \subseteq AllClumps
    BY <1>9, <1>13 DEF ReportTypedClumps
  <2>2. StagesLeft = 2 /\ StagesLeft' = 1
    BY <2>1 DEF StagesLeft
  <2>3. WalkInv'
    <3>1. StagesLeft' \in 0..6
      BY <2>2
    <3>2. unvisited' \subseteq AllClumps /\ stage' \in Stages
      BY <2>1 DEF Stages
    <3> QED BY <1>12, <3>1, <3>2
  <2> QED BY <1>4, <2>2, <2>3
<1>10. CASE ExamineStructs
  <2>1. stage = "structs" /\ stage' = "over" /\ unvisited' \subseteq AllClumps
    BY <1>10, <1>13 DEF ExamineStructs
  <2>2. StagesLeft = 1 /\ StagesLeft' = 0
    BY <2>1 DEF StagesLeft
  <2>3. WalkInv'
    <3>1. StagesLeft' \in 0..6
      BY <2>2
    <3>2. unvisited' \subseteq AllClumps /\ stage' \in Stages
      BY <2>1 DEF Stages
    <3> QED BY <1>12, <3>1, <3>2
  <2> QED BY <1>4, <2>2, <2>3
<1>11. ASSUME NEW c \in unvisited, VisitClump(c)
       PROVE  WalkInv' /\ PackageLeft' < PackageLeft
  <2>1. unvisited' = unvisited \ {c} /\ stage' = stage
    BY <1>11 DEF VisitClump
  <2>2. StagesLeft' = StagesLeft
    BY <2>1 DEF StagesLeft
  <2>3. WalkInv'
    <3>1. unvisited' \subseteq AllClumps
      BY <1>13, <2>1
    <3>2. StagesLeft' \in 0..6
      BY <1>13, <2>2
    <3>3. stage' \in Stages
      BY <2>1 DEF WalkInv
    <3> QED BY <1>12, <3>1, <3>2, <3>3
  <2>4. Cardinality(unvisited') = Cardinality(unvisited) - 1
    BY <1>3, <2>1, FS_RemoveElement
  <2> DEFINE rest == StagesLeft * (m + 1)
  <2>5. rest \in Nat
    <3>1. m \in Nat /\ StagesLeft \in Nat
      BY <1>3, <1>13
    <3> HIDE DEF m
    <3> QED BY <3>1
  <2>6. PackageLeft = rest + Cardinality(unvisited) /\ PackageLeft' = rest + Cardinality(unvisited')
    BY <1>2, <2>2 DEF PackageLeft
  <2> HIDE DEF rest
  <2> QED BY <1>3, <2>3, <2>4, <2>5, <2>6
<1> QED BY <1>5, <1>6, <1>7, <1>8, <1>9, <1>10, <1>11 DEF PackageNext

LEMMA WalksEnd ==
  FiniteFunctions /\ PackageSpec
    => [](PackageLeft \in Nat) /\ [][PackageLeft' < PackageLeft]_packageVars
<1>1. FiniteFunctions /\ PackageInit => WalkInv
  BY DEF WalkInv, PackageInit, StagesLeft, Stages
<1>2. WalkInv /\ [PackageNext]_packageVars => WalkInv' /\ [PackageLeft' < PackageLeft]_packageVars
  <2>1. ASSUME WalkInv, UNCHANGED packageVars PROVE WalkInv'
    <3>1. \A pass : BuildParameterClumps(pass)' = BuildParameterClumps(pass)
      BY <2>1, SourceDecides DEF packageVars
    <3> QED BY <2>1, <3>1 DEF WalkInv, packageVars, AllClumps, FiniteFunctions, StagesLeft
  <2> QED BY <2>1, WalkStep
<1>3. WalkInv => PackageLeft \in Nat
  <2> SUFFICES ASSUME WalkInv PROVE PackageLeft \in Nat
    OBVIOUS
  <2> DEFINE m == Cardinality(AllClumps)
  <2>1. m \in Nat /\ Cardinality(unvisited) \in Nat
    BY FewClumps
  <2>4. StagesLeft \in Nat
    <3>1. StagesLeft \in 0..6
      BY DEF WalkInv
    <3> QED BY <3>1
  <2>2. PackageLeft = StagesLeft * (m + 1) + Cardinality(unvisited)
    BY DEF PackageLeft
  <2> HIDE DEF m
  <2>3. StagesLeft * (m + 1) \in Nat
    BY <2>1, <2>4
  <2> QED BY <2>1, <2>2, <2>3
<1> QED BY <1>1, <1>2, <1>3, PTL DEF PackageSpec

LEMMA TurnsEnd ==
  /\ DispatchSpec => [](DispatchLeft \in Nat) /\ [][DispatchLeft' < DispatchLeft]_dispatchVars
  /\ LayerSpec => [](LayerLeft \in Nat) /\ [][LayerLeft' < LayerLeft]_layerVars
<1>1. DispatchInit => step \in 0..7
  BY DEF DispatchInit
<1>2. step \in 0..7 /\ [DispatchNext]_dispatchVars
        => (step \in 0..7)' /\ [DispatchLeft' < DispatchLeft]_dispatchVars
  BY SevenChecks
     DEF DispatchNext, dispatchVars, DispatchLeft, EmitDispatch, EmitDiscriminators, EmitRuntime,
         EmitConcreteParameters, EmitFactories, EmitImplementationCoupling,
         EmitParallelImplementations, Turn
<1>3. step \in 0..7 => DispatchLeft \in Nat
  BY SevenChecks DEF DispatchLeft
<1>4. LayerInit => turn \in 0..5
  BY DEF LayerInit
<1>5. turn \in 0..5 /\ [LayerNext]_layerVars
        => (turn \in 0..5)' /\ [LayerLeft' < LayerLeft]_layerVars
  BY FiveChecks
     DEF LayerNext, layerVars, LayerLeft, LayerImport, HiddenConstruction, Wiring, InfraErrorLeak,
         TransportLeak, Emit
<1>6. turn \in 0..5 => LayerLeft \in Nat
  BY FiveChecks DEF LayerLeft
<1> QED BY <1>1, <1>2, <1>3, <1>4, <1>5, <1>6, PTL DEF DispatchSpec, LayerSpec

OneFalls(a, b, c, d, e, u, v, w, x, y) ==
  \/ u < a /\ v = b /\ w = c /\ x = d /\ y = e
  \/ u = a /\ v < b /\ w = c /\ x = d /\ y = e
  \/ u = a /\ v = b /\ w < c /\ x = d /\ y = e
  \/ u = a /\ v = b /\ w = c /\ x < d /\ y = e
  \/ u = a /\ v = b /\ w = c /\ x = d /\ y < e

LEMMA SumFalls ==
  ASSUME NEW a \in Nat, NEW b \in Nat, NEW c \in Nat, NEW d \in Nat, NEW e \in Nat,
         NEW u \in Nat, NEW v \in Nat, NEW w \in Nat, NEW x \in Nat, NEW y \in Nat,
         OneFalls(a, b, c, d, e, u, v, w, x, y)
  PROVE  u + v + w + x + y < a + b + c + d + e
BY DEF OneFalls

ChecksLeft == SearchLeft + StatementsLeft + PackageLeft + DispatchLeft + LayerLeft

\* Whatever groups are planned and however those of the packages alternate,
\* every step of a run of the checks leaves less to be done: the run ends, and
\* no group keeps the pool or the program groups after it waiting forever
\* (run.go:103, :280 and :338).
THEOREM ChecksEnd ==
  /\ PackageOK /\ FiniteFields /\ ConstructorOK /\ FiniteVariables /\ FiniteFunctions
  /\ Spec
  => [](ChecksLeft \in Nat) /\ [][ChecksLeft' < ChecksLeft]_vars
<1> DEFINE Sizes == /\ SearchLeft \in Nat /\ StatementsLeft \in Nat /\ PackageLeft \in Nat
                    /\ DispatchLeft \in Nat /\ LayerLeft \in Nat
           Falls == /\ [SearchLeft' < SearchLeft]_flowVars
                    /\ [StatementsLeft' < StatementsLeft]_ctorVars
                    /\ [PackageLeft' < PackageLeft]_packageVars
                    /\ [DispatchLeft' < DispatchLeft]_dispatchVars
                    /\ [LayerLeft' < LayerLeft]_layerVars
<1>1. SearchLeft \in 0..MostSearch => SearchLeft \in Nat
  BY DEF MostSearch
<1>2. StatementsLeft \in 0..MostStatements => StatementsLeft \in Nat
  OBVIOUS
<1>3. /\ UNCHANGED flowVars => SearchLeft' = SearchLeft
      /\ UNCHANGED ctorVars => StatementsLeft' = StatementsLeft
      /\ UNCHANGED packageVars => PackageLeft' = PackageLeft
      /\ UNCHANGED dispatchVars => DispatchLeft' = DispatchLeft
      /\ UNCHANGED layerVars => LayerLeft' = LayerLeft
  <2>1. UNCHANGED flowVars => SearchLeft' = SearchLeft
    BY DEF flowVars, SearchLeft, ToAsk, ToEnter, ToAnswer, ToFollow, Visiting
  <2>2. UNCHANGED ctorVars => StatementsLeft' = StatementsLeft
    BY DEF ctorVars, StatementsLeft, RoundsLeft, ChangesLeft, Nameless, Certain
  <2>3. UNCHANGED packageVars => PackageLeft' = PackageLeft
    <3> SUFFICES ASSUME UNCHANGED packageVars PROVE PackageLeft' = PackageLeft
      OBVIOUS
    <3>1. \A pass : BuildParameterClumps(pass)' = BuildParameterClumps(pass)
      BY SourceDecides DEF packageVars
    <3> QED BY <3>1 DEF packageVars, PackageLeft, AllClumps, StagesLeft
  <2>4. UNCHANGED dispatchVars => DispatchLeft' = DispatchLeft
    BY DEF dispatchVars, DispatchLeft
  <2>5. UNCHANGED layerVars => LayerLeft' = LayerLeft
    BY DEF layerVars, LayerLeft
  <2> QED BY <2>1, <2>2, <2>3, <2>4, <2>5
<1>4. Sizes => ChecksLeft \in Nat
  BY DEF ChecksLeft
<1>8. ASSUME Sizes, Sizes',
             OneFalls(SearchLeft, StatementsLeft, PackageLeft, DispatchLeft, LayerLeft,
                      SearchLeft', StatementsLeft', PackageLeft', DispatchLeft', LayerLeft')
      PROVE  ChecksLeft' < ChecksLeft
  <2>1. /\ ChecksLeft = SearchLeft + StatementsLeft + PackageLeft + DispatchLeft + LayerLeft
        /\ ChecksLeft' = SearchLeft' + StatementsLeft' + PackageLeft' + DispatchLeft' + LayerLeft'
    BY DEF ChecksLeft
  <2>2. /\ SearchLeft \in Nat /\ StatementsLeft \in Nat /\ PackageLeft \in Nat
        /\ DispatchLeft \in Nat /\ LayerLeft \in Nat
        /\ SearchLeft' \in Nat /\ StatementsLeft' \in Nat /\ PackageLeft' \in Nat
        /\ DispatchLeft' \in Nat /\ LayerLeft' \in Nat
    BY <1>8
  <2> QED BY <1>8, <2>1, <2>2, SumFalls
<1>5. Sizes /\ Sizes' /\ Falls /\ [Next]_vars => [ChecksLeft' < ChecksLeft]_vars
  <2> SUFFICES ASSUME Sizes, Sizes', Falls, Next PROVE ChecksLeft' < ChecksLeft \/ UNCHANGED vars
    OBVIOUS
  <2>1. CASE SearchFlows
    <3>1. UNCHANGED <<planned, ctorVars, packageVars, dispatchVars, layerVars, unitVars>>
      BY <2>1 DEF SearchFlows
    <3>2. CASE UNCHANGED flowVars
      BY <3>1, <3>2 DEF vars
    <3>3. CASE SearchLeft' < SearchLeft
      <4>1. /\ StatementsLeft' = StatementsLeft /\ PackageLeft' = PackageLeft
            /\ DispatchLeft' = DispatchLeft /\ LayerLeft' = LayerLeft
        BY <1>3, <3>1
      <4>2. OneFalls(SearchLeft, StatementsLeft, PackageLeft, DispatchLeft, LayerLeft,
                     SearchLeft', StatementsLeft', PackageLeft', DispatchLeft', LayerLeft')
        BY <3>3, <4>1 DEF OneFalls
      <4> QED BY <1>8, <4>2
    <3> QED BY <3>2, <3>3
  <2>2. CASE FollowAliases
    <3>1. UNCHANGED <<planned, flowVars, packageVars, dispatchVars, layerVars, unitVars>>
      BY <2>2 DEF FollowAliases
    <3>2. CASE UNCHANGED ctorVars
      BY <3>1, <3>2 DEF vars
    <3>3. CASE StatementsLeft' < StatementsLeft
      <4>1. /\ SearchLeft' = SearchLeft /\ PackageLeft' = PackageLeft
            /\ DispatchLeft' = DispatchLeft /\ LayerLeft' = LayerLeft
        BY <1>3, <3>1
      <4>2. OneFalls(SearchLeft, StatementsLeft, PackageLeft, DispatchLeft, LayerLeft,
                     SearchLeft', StatementsLeft', PackageLeft', DispatchLeft', LayerLeft')
        BY <3>3, <4>1 DEF OneFalls
      <4> QED BY <1>8, <4>2
    <3> QED BY <3>2, <3>3
  <2>3. CASE ExaminePackage
    <3>1. UNCHANGED <<planned, flowVars, ctorVars, dispatchVars, layerVars, unitVars>>
      BY <2>3 DEF ExaminePackage
    <3>2. CASE UNCHANGED packageVars
      BY <3>1, <3>2 DEF vars
    <3>3. CASE PackageLeft' < PackageLeft
      <4>1. /\ SearchLeft' = SearchLeft /\ StatementsLeft' = StatementsLeft
            /\ DispatchLeft' = DispatchLeft /\ LayerLeft' = LayerLeft
        BY <1>3, <3>1
      <4>2. OneFalls(SearchLeft, StatementsLeft, PackageLeft, DispatchLeft, LayerLeft,
                     SearchLeft', StatementsLeft', PackageLeft', DispatchLeft', LayerLeft')
        BY <3>3, <4>1 DEF OneFalls
      <4> QED BY <1>8, <4>2
    <3> QED BY <3>2, <3>3
  <2>4. CASE RunDispatchGroup
    <3>1. UNCHANGED <<planned, flowVars, ctorVars, packageVars, layerVars, unitVars>>
      BY <2>4 DEF RunDispatchGroup
    <3>2. CASE UNCHANGED dispatchVars
      BY <3>1, <3>2 DEF vars
    <3>3. CASE DispatchLeft' < DispatchLeft
      <4>1. /\ SearchLeft' = SearchLeft /\ StatementsLeft' = StatementsLeft
            /\ PackageLeft' = PackageLeft /\ LayerLeft' = LayerLeft
        BY <1>3, <3>1
      <4>2. OneFalls(SearchLeft, StatementsLeft, PackageLeft, DispatchLeft, LayerLeft,
                     SearchLeft', StatementsLeft', PackageLeft', DispatchLeft', LayerLeft')
        BY <3>3, <4>1 DEF OneFalls
      <4> QED BY <1>8, <4>2
    <3> QED BY <3>2, <3>3
  <2>5. CASE RunLayerGroup
    <3>1. UNCHANGED <<planned, flowVars, ctorVars, packageVars, dispatchVars, unitVars>>
      BY <2>5 DEF RunLayerGroup
    <3>2. CASE UNCHANGED layerVars
      BY <3>1, <3>2 DEF vars
    <3>3. CASE LayerLeft' < LayerLeft
      <4>1. /\ SearchLeft' = SearchLeft /\ StatementsLeft' = StatementsLeft
            /\ PackageLeft' = PackageLeft /\ DispatchLeft' = DispatchLeft
        BY <1>3, <3>1
      <4>2. OneFalls(SearchLeft, StatementsLeft, PackageLeft, DispatchLeft, LayerLeft,
                     SearchLeft', StatementsLeft', PackageLeft', DispatchLeft', LayerLeft')
        BY <3>3, <4>1 DEF OneFalls
      <4> QED BY <1>8, <4>2
    <3> QED BY <3>2, <3>3
  <2> QED BY <2>1, <2>2, <2>3, <2>4, <2>5 DEF Next
<1> HIDE DEF Sizes, Falls
<1>6. SearchLeft \in Nat /\ StatementsLeft \in Nat /\ PackageLeft \in Nat /\ DispatchLeft \in Nat /\ LayerLeft \in Nat
        => Sizes
  BY DEF Sizes
<1>7. /\ [SearchLeft' < SearchLeft]_flowVars
      /\ [StatementsLeft' < StatementsLeft]_ctorVars
      /\ [PackageLeft' < PackageLeft]_packageVars
      /\ [DispatchLeft' < DispatchLeft]_dispatchVars
      /\ [LayerLeft' < LayerLeft]_layerVars
      => Falls
  BY DEF Falls
<1> QED BY <1>1, <1>2, <1>4, <1>5, <1>6, <1>7, GroupsAreIndependent, SearchEnds, AliasLoopsEnd,
           WalksEnd, TurnsEnd, PTL DEF Spec

=============================================================================
