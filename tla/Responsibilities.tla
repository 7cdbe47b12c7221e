-------------------------- MODULE Responsibilities --------------------------
(* The checks of SOLID-S over one package (srp*.go).  The functions are    *)
(* judged by their syntax; when the types are complete, what that pass     *)
(* said of parameters is thrown away and said again with types.  Groups of *)
(* parameters that functions share are built, and those that lie in a      *)
(* wider one are deleted while a Go map is walked.  Last come the structs  *)
(* with their methods.                                                     *)
EXTENDS Naturals, FiniteSets, FiniteSetsExt

CONSTANT Limits  \* the thresholds of Config, by name

VARIABLES
  source,     \* [functions, structs, info, typed, enabled]: a package, and the
              \* enabled checks; `info` when it has types, `typed` complete ones
  stage,      \* "functions", "clumps", "workflow", "parameters", "typed clumps",
              \* "structs" or "over"
  clumps,     \* the map from shared parameters to the functions that have them
  unvisited,  \* clumps the walk over the map has yet to come to
  smells      \* the report

packageVars == <<source, stage, clumps, unvisited, smells>>

\* A function has `params`, `count`, `distinct` and `flags` by its syntax and
\* by its types: f.seen["syntax"] and f.seen["types"].

Smell(check, at) == [check |-> check, at |-> at]
Enabled(checks) == checks \cap source.enabled # {}
Selected(found) == {s \in found : s.check \in source.enabled}

ParameterChecks == {"flag-argument", "mixed-input-surface", "data-clump"}
StructChecks ==
  {"large-type", "god-type", "high-fan-out-type", "mixed-import-clusters", "low-cohesion-type"}

-----------------------------------------------------------------------------
(* Functions and their parameters *)

ComplexFunction ==
  {Smell("complex-function", f.at) : f \in
     {f \in source.functions : f.lines > Limits.funcLines /\ f.complexity >= Limits.funcComplexity}}

MixedInput(p) == p.count > Limits.funcParams /\ p.distinct >= 3

\* srp.go:92 and srp_parameters.go:26  What is said of one function; with types
\* the selection is applied to the findings alone.
FlagArgument(f, pass) ==
  f.seen[pass].flags # {} /\ (pass = "syntax" => Enabled({"flag-argument"}))
MixedInputSurface(f, pass) ==
  /\ ~FlagArgument(f, pass)
  /\ MixedInput(f.seen[pass])
  /\ pass = "syntax" => Enabled({"mixed-input-surface"})

ParameterSmells(pass) ==
  {Smell("flag-argument", f.at) : f \in {g \in source.functions : FlagArgument(g, pass)}} \cup
  {Smell("mixed-input-surface", f.at) :
     f \in {g \in source.functions : MixedInputSurface(g, pass)}}

Unreported(pass) ==
  {f \in source.functions : ~FlagArgument(f, pass) /\ ~MixedInputSurface(f, pass)}

Shared(p, pass) == p[1].seen[pass].params \cap p[2].seen[pass].params

\* srp.go:133  Every pair of functions shares a set of parameters; those that
\* share the same one make a clump.
SharingPairs(pass) ==
  {p \in Unreported(pass) \X Unreported(pass) :
    /\ p[1].at < p[2].at
    /\ Cardinality(Shared(p, pass)) > Limits.funcParams}

BuildParameterClumps(pass) ==
  {[params |-> s,
    funcs |-> UNION {{p[1].at, p[2].at} : p \in {q \in SharingPairs(pass) : Shared(q, pass) = s}}] :
     s \in {Shared(p, pass) : p \in SharingPairs(pass)}}

SubsumedBySize(c, o) ==  \* fault: any clump with more parameters subsumes
  Cardinality(c.params) < Cardinality(o.params)

\* srp.go:184
SubsumedBy(c, o) ==
  Cardinality(c.params) < Cardinality(o.params) /\ c.params \subseteq o.params

\* srp.go:198  The last of the functions is reported, for the whole group.
ClumpSmells ==
  {[check |-> "data-clump", at |-> Max(c.funcs), group |-> c.funcs] : c \in clumps}

-----------------------------------------------------------------------------
(* Transport workflows.  A function has calls to `helpers`, methods of its  *)
(* own receiver, `domain` operations and `writes`, all as sets.             *)

\* srp_transport_workflow.go:27  Each helper is entered once; entry points,
\* never.
Entered(f) ==
  LET Near[n \in Nat] ==
        IF n = 0 THEN {f}
        ELSE Near[n - 1] \cup
             {g \in source.functions : ~g.entry /\ \E h \in Near[n - 1] : g.at \in h.helpers}
  IN Near[Cardinality(source.functions)]

\* srp_transport_workflow.go:81  Every function is entered once, so the list of
\* writes is the set of the call sites (`writes`).
TransportWorkflow ==
  {Smell("transport-workflow", f.at) : f \in
     {f \in source.functions :
       /\ source.info /\ f.entry
       /\ UNION {g.domain : g \in Entered(f)} # {}
       /\ Cardinality(UNION {g.writes : g \in Entered(f)}) >= 2}}

-----------------------------------------------------------------------------
(* Structs.  A struct has `fields` with a key for the type by syntax and by *)
(* types, and `methods` with the fields they use and the methods they call. *)

\* srp_profile.go:689 and :710
HasHomogeneousFieldSet(t, pass) ==
  /\ Cardinality(t.fields) >= 2
  /\ \E f \in t.fields :
       /\ f.key[pass] # ""
       /\ 2 * Cardinality({g \in t.fields : g.key[pass] = f.key[pass]}) >= Cardinality(t.fields)
HasRepetitiveMethods(t) ==
  /\ Cardinality(t.methods) >= 3
  /\ \E m \in t.methods :
       /\ ~m.constructor
       /\ 2 * Cardinality({n \in t.methods : ~n.constructor /\ n.shape = m.shape})
            >= Cardinality(t.methods)

Wmc(t) == MapThenSumSet(LAMBDA m : m.complexity, t.methods)
Exported(t) == {m \in t.methods : m.exported}

\* srp_profile.go:377  The percentage of pairs of methods that share a field,
\* against the threshold, without the division.
MethodPairs(t) == {p \in SUBSET t.methods : Cardinality(p) = 2}
Cohesive(t) ==
  LET sharing == {p \in MethodPairs(t) : \E f \in t.fields : \A m \in p : f.name \in m.uses}
  IN IF MethodPairs(t) = {} THEN Limits.tccPercent = 0
     ELSE 100 * Cardinality(sharing) >= Limits.tccPercent * Cardinality(MethodPairs(t))

\* srp_metrics.go:130
PureDelegating(t) == t.methods # {} /\ \A m \in t.methods : m.forwards

SizeSignals(t, pass) ==
  {signal \in {"methods", "exported", "fields", "lines", "complexity"} :
     CASE signal = "methods" -> Cardinality(t.methods) > Limits.methods
       [] signal = "exported" -> Cardinality(Exported(t)) > Limits.exported
       [] signal = "fields" -> /\ Cardinality(t.fields) > Limits.fields
                               /\ ~HasHomogeneousFieldSet(t, pass)
       [] signal = "lines" -> t.lines > Limits.lines
       [] signal = "complexity" -> Wmc(t) >= Limits.complexity}

\* srp_profile.go:434
LargeType(t, pass) ==
  /\ t.methods # {}
  /\ Cardinality(t.fields) \notin 1..2
  /\ Cardinality(t.methods) <= 3 =>
       Cardinality(t.fields) <= Limits.fields /\ \E m \in t.methods : ~m.accessor
  /\ ~(pass = "types" /\ Cohesive(t))
  /\ ~(HasHomogeneousFieldSet(t, pass) /\ HasRepetitiveMethods(t))
  /\ \/ Cardinality(SizeSignals(t, pass)) >= Limits.signals
     \/ Cardinality(t.methods) > 2 * Limits.methods /\ Cardinality(t.fields) > Limits.fields

GodType(t) ==
  /\ Wmc(t) >= Limits.complexity
  /\ ~Cohesive(t)
  /\ Cardinality(t.foreignFields) > Limits.foreignFields
     \/ Cardinality(t.foreign) > Limits.fanOut

HighFanOut(t) == Cardinality(t.foreign) > Limits.fanOut

\* Methods in one class are connected by a chain of links.
Classes(methods, links) ==
  LET Near[n \in Nat] ==
        IF n = 0 THEN [m \in methods |-> {m}]
        ELSE LET near == Near[n - 1]
             IN [m \in methods |-> near[m] \cup
                   {k \in methods : \E o \in near[m] : <<o, k>> \in links \/ <<k, o>> \in links}]
  IN {Near[Cardinality(methods)][m] : m \in methods}

\* srp_profile.go:855  Methods that import nothing are in no cluster.
SharedImports(t) == {p \in t.methods \X t.methods : p[1].imports \cap p[2].imports # {}}
MixedImportClusters(t) ==
  Cardinality({c \in Classes({m \in t.methods : m.imports # {}}, SharedImports(t)) :
                 Cardinality(c) >= Limits.clusterMethods}) >= 2

\* srp_profile.go:326 (LCOM4) and :495
Coupled(t) ==
  {p \in t.methods \X t.methods : p[1].uses \cap p[2].uses # {} \/ p[2].name \in p[1].calls}
SerializedDataCarrier(t) ==
  LET tagged == Cardinality({f \in t.fields : f.tagged})
  IN /\ Cardinality(t.fields) >= 2 /\ 2 * tagged >= Cardinality(t.fields)
     /\ 3 * Cardinality({m \in t.methods : m.accessor}) >= 2 * Cardinality(t.methods)
LowCohesion(t) ==
  /\ Cardinality(t.methods) >= Limits.cohesionMethods
  /\ Cardinality(t.fields) >= Limits.cohesionFields
  /\ ~t.orchestrator
  /\ ~SerializedDataCarrier(t)
  /\ Cardinality({c \in Classes(t.methods, Coupled(t)) :
                    Cardinality(c) >= Limits.componentMethods}) >= 2

\* srp_metrics.go:51  A god type is reported as nothing else that follows from
\* it, as long as god-type is enabled.
TypedSmells(t) ==
  LET god == GodType(t) /\ Enabled({"god-type"})
      holds == [c \in StructChecks |->
                  CASE c = "large-type" -> LargeType(t, "types")
                    [] c = "god-type" -> god
                    [] c = "high-fan-out-type" -> ~god /\ HighFanOut(t)
                    [] c = "mixed-import-clusters" -> MixedImportClusters(t)
                    [] c = "low-cohesion-type" -> ~god /\ LowCohesion(t)]
  IN IF PureDelegating(t) THEN {}
     ELSE {Smell(c, t.at) : c \in {d \in StructChecks : holds[d]}}

\* srp_metrics.go:46 and :91  Without complete types, size alone.
StructSmells ==
  IF source.typed
  THEN UNION {TypedSmells(t) : t \in source.structs}
  ELSE {Smell("large-type", t.at) : t \in {u \in source.structs : LargeType(u, "syntax")}}

-----------------------------------------------------------------------------

PackageInit ==
  /\ stage = "functions"
  /\ clumps = {}
  /\ unvisited = {}
  /\ smells = {}

\* srp.go:33  The walk over the declarations.
ExamineFunctions ==
  /\ stage = "functions"
  /\ smells' = Selected(ComplexFunction) \cup ParameterSmells("syntax")
  /\ clumps' = IF Enabled({"data-clump"}) THEN BuildParameterClumps("syntax") ELSE {}
  /\ unvisited' = clumps'
  /\ stage' = "clumps"
  /\ UNCHANGED source

\* srp.go:185  The walk over the map comes to a clump, in any order; one that
\* lies in another is deleted and is compared with no more.
VisitClump(c) ==
  /\ c \in unvisited
  /\ unvisited' = unvisited \ {c}
  /\ clumps' = IF \E o \in clumps : SubsumedBy(c, o) THEN clumps \ {c} ELSE clumps
  /\ UNCHANGED <<source, stage, smells>>

ReportClumps ==
  /\ stage = "clumps" /\ unvisited = {}
  /\ smells' = smells \cup ClumpSmells
  /\ stage' = "workflow"
  /\ UNCHANGED <<source, clumps, unvisited>>

ExamineWorkflows ==
  /\ stage = "workflow"
  /\ smells' = smells \cup Selected(TransportWorkflow)
  /\ stage' = IF Enabled(ParameterChecks) /\ source.typed THEN "parameters" ELSE "structs"
  /\ UNCHANGED <<source, clumps, unvisited>>

ForgetClumps(said) ==  \* fault: what the syntax said of flags and inputs stays
  {s \in said : s.check # "data-clump"}

\* srp_metrics.go:35
RemoveIssuesByCheck(said) == {s \in said : s.check \notin ParameterChecks}

\* srp_parameters.go:11
ExamineParameters ==
  /\ stage = "parameters"
  /\ smells' = RemoveIssuesByCheck(smells) \cup Selected(ParameterSmells("types"))
  /\ clumps' = BuildParameterClumps("types")
  /\ unvisited' = clumps'
  /\ stage' = "typed clumps"
  /\ UNCHANGED source

ReportTypedClumps ==
  /\ stage = "typed clumps" /\ unvisited = {}
  /\ smells' = smells \cup Selected(ClumpSmells)
  /\ stage' = "structs"
  /\ UNCHANGED <<source, clumps, unvisited>>

ExamineStructs ==
  /\ stage = "structs"
  /\ smells' = smells \cup Selected(StructSmells)
  /\ stage' = "over"
  /\ UNCHANGED <<source, clumps, unvisited>>

PackageNext ==
  \/ ExamineFunctions \/ ReportClumps \/ ExamineWorkflows
  \/ ExamineParameters \/ ReportTypedClumps \/ ExamineStructs
  \/ \E c \in unvisited : VisitClump(c)

PackageSpec == PackageInit /\ [][PackageNext]_packageVars
PackageDone == stage = "over"

-----------------------------------------------------------------------------
(* Properties. *)

Pass == IF stage = "clumps" THEN "syntax" ELSE "types"
Clumping == stage \in {"clumps", "typed clumps"}

\* In whatever order the map is walked while clumps are deleted from it
\* (srp.go:184), what a clump shares lies in one that is left, and when the
\* walk is over none that is left lies in another.
ClumpsAreTheWidest ==
  Clumping =>
    /\ Enabled({"data-clump"}) =>
         \A c \in BuildParameterClumps(Pass) : \E o \in clumps : c.params \subseteq o.params
    /\ unvisited = {} => \A c, o \in clumps : ~SubsumedBy(c, o)

\* A function whose parameters are reported as flags or as a broad input is
\* not reported for them again, nor named as part of a clump: neither by the
\* pass over the syntax and the one with types between them, which disagree
\* where a name is shadowed, nor by one alone (srp_metrics.go:34).
OneParameterFindingEach ==
  \A s, r \in smells :
    /\ s.check \in {"flag-argument", "mixed-input-surface"}
    /\ r.check \in ParameterChecks /\ r # s
    => IF r.check = "data-clump" THEN s.at \notin r.group ELSE r.at # s.at

=============================================================================
