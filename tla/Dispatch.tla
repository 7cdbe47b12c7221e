------------------------------ MODULE Dispatch ------------------------------
(* The checks of SOLID-O (ocp*.go): places of a program that tell variants *)
(* apart are collected, those of one source are put into families that     *)
(* share variants, and seven checks report one after the other.  Two of    *)
(* them leave marks on the sites that a third one reads, and one takes     *)
(* findings of another from the report.                                    *)
EXTENDS Naturals, FiniteSets, FiniteSetsExt, Sequences

CONSTANTS
  AllowedSources,   \* types of go/, encoding/ and reflect., and the configured
  MaxCases,         \* max_switch_cases
  MinSites,         \* ocp_min_dispatch_sites
  MinShared,        \* ocp_min_shared_variants
  OverlapPercent,   \* ocp_dispatch_overlap_percent
  MinCalls,         \* ocp_min_concrete_parameter_methods
  MinImports,       \* ocp_min_implementation_imports
  MinParallel,      \* ocp_min_parallel_functions
  MinNodes,         \* ocp_min_parallel_nodes
  SimilarityPercent \* ocp_parallel_similarity_percent

VARIABLES
  code,      \* what the walks over the syntax find, and the enabled checks
  step,      \* how many checks are over
  flagged,   \* [dispatches, discriminators] marked by the two checks of dispatch
  findings   \* the report

dispatchVars == <<code, step, flagged, findings>>

\* A site has a position `at`, its variants `cases`, and says whether its
\* default branch rejects (`bad`) and its function is a codec.  Sites of
\* types have a source and a kind, those of discriminators a field, the
\* declaration `decl` they stand in and its name without receiver `fn`.

-----------------------------------------------------------------------------
(* Families *)

\* ocp_enum.go:118  The first of the guard clauses on one enum in functions of
\* one name takes the variants of the others; any other site stays as it is.
Guards(found, i) ==
  IF found[i].enum
  THEN {j \in DOMAIN found :
          found[j].enum /\ found[j].field = found[i].field /\ found[j].fn = found[i].fn}
  ELSE {i}

MergeEnumFunctionSites(found) ==
  {[found[i] EXCEPT !.cases = UNION {found[j].cases : j \in Guards(found, i)},
                    !.bad = \E j \in Guards(found, i) : found[j].bad] :
     i \in {i \in DOMAIN found : \A j \in Guards(found, i) : i <= j}}

\* ocp_util.go:511  The root of a site, named by its position: where the way
\* along the parents ends.  That the code shortens the way changes no root.
OnTheWay(parent, i, k) ==
  \A way \in SUBSET DOMAIN parent :
    i \in way /\ (\A m \in way : parent[m] \in way) => k \in way

Find(parent, i) == CHOOSE k \in DOMAIN parent : parent[k] = k /\ OnTheWay(parent, i, k)

UnionSites(parent, i, j) ==  \* fault: the site itself is moved, not its root
  [parent EXCEPT ![j] = Find(parent, i)]

UnionRoots(parent, i, j) == [parent EXCEPT ![Find(parent, j)] = Find(parent, i)]

\* ocp_util.go:524  The inner and the outer loop over pairs of sites, which are
\* sorted by their positions.
UniteRow(linked, parent, i, last) ==
  LET After[j \in i..last] ==
        IF j = i THEN parent
        ELSE IF <<i, j>> \in linked THEN UnionRoots(After[j - 1], i, j) ELSE After[j - 1]
  IN After[last]

United(places, linked, last) ==
  LET After[i \in 0..last] ==
        IF i = 0 THEN [k \in places |-> k] ELSE UniteRow(linked, After[i - 1], i, last)
  IN After[last]

\* ocp_util.go:506 and :558  Pairs that belong together are united.
Components(S, together) ==
  LET places == {s.at : s \in S}
      linked == {<<p[1].at, p[2].at>> : p \in together \cap (S \X S)}
      parent == United(places, linked, Max(places))
  IN {{s \in S : Find(parent, s.at) = root} : root \in {Find(parent, i) : i \in places}}

Overlap(s, t) ==
  IF s.cases \cup t.cases = {} THEN 0
  ELSE (100 * Cardinality(s.cases \cap t.cases)) \div Cardinality(s.cases \cup t.cases)

SameDispatch(s, t) ==
  \/ s.kind = "assertion" /\ t.kind = "assertion"
  \/ /\ Cardinality(s.cases \cap t.cases) >= MinShared
     /\ Overlap(s, t) >= OverlapPercent
DispatchLinks == {p \in code.dispatches \X code.dispatches : SameDispatch(p[1], p[2])}

Discriminators == {d \in MergeEnumFunctionSites(code.discriminators) : ~d.codec}
DiscriminatorLinks ==
  {p \in Discriminators \X Discriminators : Cardinality(p[1].cases \cap p[2].cases) >= MinShared}

DispatchFamilies ==
  UNION {Components({s \in code.dispatches : s.source = k}, DispatchLinks) :
           k \in {s.source : s \in code.dispatches} \ AllowedSources}
DiscriminatorFamilies ==
  UNION {Components({d \in Discriminators : d.field = k}, DiscriminatorLinks) :
           k \in {d.field : d \in Discriminators}}

Variants(F) == UNION {s.cases : s \in F}

\* ocp_util.go:592  The threshold of shared variants is that of the sites that
\* must have one, as well.
Frequent(F) == {v \in Variants(F) : Cardinality({s \in F : v \in s.cases}) >= MinShared}

\* ocp_dispatch.go:37
LargeFamily(F) ==
  \/ \E s \in F : Cardinality(s.cases) > MaxCases
  \/ Cardinality(Frequent(F)) > MaxCases
  \/ Cardinality(F) >= MinSites /\ Cardinality(Variants(F)) > MaxCases

FlaggedDispatch ==
  {F \in DispatchFamilies :
    /\ LargeFamily(F)
    /\ Cardinality(F) > 1 =>
         /\ Cardinality(F) >= MinSites
         /\ \/ Cardinality(Frequent(F)) >= MinShared
            \/ \E s \in F : s.kind = "assertion" /\ s.concrete}

FlaggedDiscriminators ==
  {F \in DiscriminatorFamilies :
     Cardinality(F) >= MinSites /\ Cardinality(Frequent(F)) >= MinShared}

-----------------------------------------------------------------------------
(* What each check reports *)

DispatchChecks ==
  <<"type-dispatch", "discriminator-dispatch", "runtime-exhaustiveness",
    "concrete-parameter", "closed-factory", "implementation-coupling",
    "parallel-implementations">>

Report(check, at, severity) == [check |-> check, at |-> at, severity |-> severity]
Primary(F) == Min({s.at : s \in F})

TypeDispatch == {Report("type-dispatch", Primary(F), "warning") : F \in FlaggedDispatch}

DiscriminatorDispatch ==
  {Report("discriminator-dispatch", Primary(F),
          IF Cardinality(F) > MinSites THEN "warning" ELSE "note") : F \in FlaggedDiscriminators}

\* ocp_dispatch.go:104  Of the sites the other two checks have marked.
RuntimeExhaustiveness(marked) ==
  {Report("runtime-exhaustiveness", s.at, "note") : s \in
     {s \in code.dispatches \cap marked.dispatches : s.bad /\ ~s.codec /\ ~s.sealed}
       \cup {d \in marked.discriminators : d.bad}}

\* ocp_factory.go:10  A pointer to a type of another package that is used
\* through enough of its methods and in no other way.
ConcreteParameter ==
  {Report("concrete-parameter", p.at, "note") : p \in
     {p \in code.parameters :
        /\ p.complete /\ p.foreign /\ ~p.allowed /\ p.safe
        /\ Cardinality(p.methods) >= MinCalls
        /\ ~(p.domain /\ p.methods # {} /\ p.accessors)}}

\* ocp_factory.go:199  The concrete types a branch returns, by itself or
\* through functions of the package, each entered once on a way.
Products(f) ==
  LET Seen[n \in Nat] ==
        IF n = 0 THEN f.returns
        ELSE Seen[n - 1] \cup
             UNION {code.helpers[h] : h \in Seen[n - 1] \cap DOMAIN code.helpers}
  IN Seen[Cardinality(DOMAIN code.helpers)] \ DOMAIN code.helpers

\* ocp_factory.go:71  Switches of factories and tables of constructors.
ClosedFactory ==
  {Report("closed-factory", f.at, "warning") : f \in
     {f \in code.factories : f.complete /\ f.entries > MaxCases /\ Cardinality(Products(f)) > 1}}

FactoriesIfEnabled ==  \* fault: looked for by the check that reports them alone
  IF "closed-factory" \in code.enabled THEN {r.at : r \in ClosedFactory} ELSE {}

\* ocp.go:76
FactorySitePositions ==
  IF {"closed-factory", "type-dispatch"} \cap code.enabled # {}
  THEN {r.at : r \in ClosedFactory} ELSE {}

\* ocp_coupling.go:10
ImplementationCoupling ==
  {Report("implementation-coupling", p.at, "warning") : p \in
     {p \in code.packages : p.logic /\ ~p.root /\ Cardinality(p.implementations) >= MinImports}}

\* ocp_parallel.go:65
Distance(m, n) == IF m > n THEN m - n ELSE n - m
Similarity(f, g) ==
  IF f.shape = {} \/ g.shape = {} THEN 0
  ELSE (100 * Cardinality(f.shape \cap g.shape)) \div Cardinality(f.shape \cup g.shape)
Compared ==
  {i \in DOMAIN code.functions :
     LET f == code.functions[i] IN f.complete /\ f.arity > 0 /\ f.nodes >= MinNodes}
Counterparts(i) ==
  {j \in Compared \ {i} :
    LET f == code.functions[i]
        g == code.functions[j]
    IN /\ g.arity = f.arity /\ g.types # f.types
       /\ Distance(f.nodes \div 10, g.nodes \div 10) <= 2
       /\ Distance(f.nodes, g.nodes) <= f.nodes \div 5 + 1
       /\ Similarity(f, g) >= SimilarityPercent}
ParallelGroup(i) == {i} \cup Counterparts(i)

UsedByAnyGroup(leaders, i) ==  \* fault: a group that is too small uses up its members
  \E j \in Compared : j < i /\ i \in ParallelGroup(j)

\* ocp_parallel.go:54  A function leads a group unless it is in the group of one
\* before it, or its group is too small; members of earlier groups are included.
UsedBefore(leaders, i) == \E j \in leaders : j < i /\ i \in ParallelGroup(j)

Leaders ==
  CHOOSE leaders \in SUBSET Compared :
    \A i \in Compared :
      i \in leaders <=>
        ~UsedBefore(leaders, i) /\ Cardinality(ParallelGroup(i)) >= MinParallel
ParallelGroups == {ParallelGroup(i) : i \in Leaders}

\* ocp_parallel.go:79  A group is reported at the function with the first name;
\* names have no receiver, and methods of one name stand in the order in which
\* the map of candidates was walked.
FirstNamed(G) == {i \in G : \A j \in G : code.functions[i].name <= code.functions[j].name}
Primaries ==
  {p \in [ParallelGroups -> Compared] : \A G \in ParallelGroups : p[G] \in FirstNamed(G)}
ParallelImplementations(primary) ==
  {Report("parallel-implementations", code.functions[primary[G]].at, "note") :
     G \in ParallelGroups}

-----------------------------------------------------------------------------

DispatchInit ==
  /\ step = 0
  /\ flagged = [dispatches |-> {}, discriminators |-> {}]
  /\ findings = {}

Turn(check) ==
  /\ step < Len(DispatchChecks) /\ DispatchChecks[step + 1] = check
  /\ step' = step + 1
  /\ UNCHANGED code
Reporting(check, found) ==
  findings' = IF check \in code.enabled THEN findings \cup found ELSE findings

\* The two checks mark the sites of what they report.
EmitDispatch ==
  /\ Turn("type-dispatch")
  /\ Reporting("type-dispatch", TypeDispatch)
  /\ flagged' = IF "type-dispatch" \in code.enabled
                THEN [flagged EXCEPT !.dispatches = UNION FlaggedDispatch] ELSE flagged

EmitDiscriminators ==
  /\ Turn("discriminator-dispatch")
  /\ Reporting("discriminator-dispatch", DiscriminatorDispatch)
  /\ flagged' = IF "discriminator-dispatch" \in code.enabled
                THEN [flagged EXCEPT !.discriminators = UNION FlaggedDiscriminators] ELSE flagged

EmitRuntime ==
  /\ Turn("runtime-exhaustiveness")
  /\ Reporting("runtime-exhaustiveness", RuntimeExhaustiveness(flagged))
  /\ UNCHANGED flagged

EmitConcreteParameters ==
  /\ Turn("concrete-parameter")
  /\ Reporting("concrete-parameter", ConcreteParameter)
  /\ UNCHANGED flagged

\* A dispatch that is a closed factory is not reported as a dispatch.
EmitFactories ==
  /\ Turn("closed-factory")
  /\ LET kept == {r \in findings : r.check = "type-dispatch" => r.at \notin FactorySitePositions}
     IN findings' = IF "closed-factory" \in code.enabled THEN kept \cup ClosedFactory ELSE kept
  /\ UNCHANGED flagged

EmitImplementationCoupling ==
  /\ Turn("implementation-coupling")
  /\ Reporting("implementation-coupling", ImplementationCoupling)
  /\ UNCHANGED flagged

EmitParallelImplementations ==
  /\ Turn("parallel-implementations")
  /\ \E primary \in Primaries :
       Reporting("parallel-implementations", ParallelImplementations(primary))
  /\ UNCHANGED flagged

DispatchNext ==
  \/ EmitDispatch \/ EmitDiscriminators \/ EmitRuntime \/ EmitConcreteParameters
  \/ EmitFactories \/ EmitImplementationCoupling \/ EmitParallelImplementations

DispatchSpec == DispatchInit /\ [][DispatchNext]_dispatchVars
DispatchDone == step = Len(DispatchChecks)

-----------------------------------------------------------------------------
(* Properties. *)

\* What the checks say when all are enabled; of a site that two families
\* could mark, each by its own check; of a parallel group, at its primary.
WholeDispatchReport(primary) ==
  {r \in TypeDispatch : r.at \notin {c.at : c \in ClosedFactory}}
    \cup DiscriminatorDispatch \cup ConcreteParameter \cup ClosedFactory
    \cup ImplementationCoupling \cup ParallelImplementations(primary)

Marks ==
  [dispatches |->
     IF "type-dispatch" \in code.enabled THEN UNION FlaggedDispatch ELSE {},
   discriminators |->
     IF "discriminator-dispatch" \in code.enabled THEN UNION FlaggedDiscriminators ELSE {}]

\* Disabling a check changes nothing in what another one reports, with the one
\* exception of runtime-exhaustiveness, which sees the sites of the enabled
\* dispatch checks alone; a type dispatch that is a closed factory stays out
\* of the report when closed-factory is off (ocp.go:62-91).
DispatchSelectionOnlyFilters ==
  DispatchDone =>
    \E primary \in Primaries :
      findings = {r \in WholeDispatchReport(primary) \cup RuntimeExhaustiveness(Marks) :
                    r.check \in code.enabled}

\* Sites are in one family exactly when a chain of sites that belong together
\* leads from one to the other, in whatever order the pairs are united
\* (ocp_util.go:506 and :558).
Chained(S, together, s, t) ==
  \A closed \in SUBSET S :
    (/\ s \in closed
     /\ \A u \in closed, v \in S : <<u, v>> \in together => v \in closed) => t \in closed

FamiliesAreClasses ==
  /\ \A s, t \in {x \in code.dispatches : x.source \notin AllowedSources} :
       (\E F \in DispatchFamilies : {s, t} \subseteq F) <=>
         s.source = t.source /\
           Chained({x \in code.dispatches : x.source = s.source}, DispatchLinks, s, t)
  /\ \A s, t \in Discriminators :
       (\E F \in DiscriminatorFamilies : {s, t} \subseteq F) <=>
         s.field = t.field /\
           Chained({x \in Discriminators : x.field = s.field}, DiscriminatorLinks, s, t)

\* A function with enough counterparts is named by some finding, whatever
\* groups the functions before it were or were not reported in
\* (ocp_parallel.go:49, `used`).
ParallelFunctionsAreNamed ==
  \A i \in Compared :
    Cardinality(Counterparts(i)) + 1 >= MinParallel => i \in UNION ParallelGroups

=============================================================================
