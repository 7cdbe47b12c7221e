---------------------------- MODULE Dependencies ----------------------------
(* The checks of SOLID-D.  concrete-dependency (dip.go) judges the fields  *)
(* of one struct and the parameters of its constructors; the checks of the *)
(* program (dip_program.go) run one after the other over packages that the *)
(* configuration assigns to layers, and the second hands the third the     *)
(* places it has reported.                                                 *)
EXTENDS Naturals, FiniteSets, Sequences, Functions

VARIABLES
  unit,    \* a struct: [typed, root, test, fields, methods, returned, params]
  layers,  \* [packages, patterns, enabled]: the program and the configuration
  turn,    \* how many of the program's checks are over
  issues,  \* what they have reported
  sites    \* positions of hidden constructions, for the check after

unitVars == <<unit>>
layerVars == <<layers, turn, issues, sites>>

-----------------------------------------------------------------------------
(* concrete-dependency.  A declaration of fields has `names`, none when it *)
(* embeds its type; `type` is "abstract" (no struct), "local" (declared in *)
(* the package), "bag" (...Config), "stdlib", "passive" (a domain struct   *)
(* without methods), "domain", "dto" or "service".                         *)

Behavioral == {"domain", "dto", "service"}

\* dip.go:358  Without types the syntax knows the package's own structs only,
\* and those are exempt.
ConcreteFieldDependency(d) ==
  unit.typed /\ d.pointer /\ d.type \in Behavioral

ConcreteNames == UNION {Range(d.names) : d \in {e \in unit.fields : ConcreteFieldDependency(e)}}

Total(fields) == Cardinality({p \in fields \X (1..3) : p[2] <= Len(p[1].names)})

\* dip.go:344  Embedded fields and those of the standard library do not count.
CountRelevantFields ==
  Total({d \in unit.fields : ~(unit.typed /\ d.type = "stdlib")})

\* dip.go:276  Structs with one or two concrete dependencies: the fields that
\* some method hands its own arguments on to and no method uses otherwise.
ForwardedConcreteFields ==
  IF \/ Cardinality({d \in unit.fields : ConcreteFieldDependency(d)}) \notin 1..2
     \/ CountRelevantFields > 3
  THEN {}
  ELSE {n \in ConcreteNames :
         /\ \E m \in unit.methods : n \in m.refers /\ m.forwards = n
         /\ \A m \in unit.methods : n \in m.refers => m.forwards = n}

\* dip.go:332  One forwarded name exempts the whole declaration.
BridgeFieldForwarded(d) == Range(d.names) \cap ForwardedConcreteFields # {}

\* dip.go:147  What a fake in a test file only stores: the first name decides.
PassiveTestDataField(d) ==
  /\ unit.typed /\ unit.test
  /\ d.names # <<>>
  /\ d.type \in {"domain", "dto"}
  /\ \A m \in unit.methods : Head(d.names) \notin m.behaves

\* dip.go:648  A struct without methods that some signature returns.
ReturnedConcreteDataField == unit.typed /\ unit.methods = {} /\ unit.returned

\* dip.go:215  A method returns the field, and it as what it is.
ConcreteFieldIsExposed(d) ==
  /\ d.names # <<>>
  /\ \E m \in unit.methods : m.result = d.type /\ Head(d.names) \in m.returns

\* data_carrier.go:37  Embedded fields count here.
Weight(d) == IF d.names = <<>> THEN 1 ELSE Len(d.names)
Weighed(fields) == Cardinality({p \in fields \X (1..3) : p[2] <= Weight(p[1])})
SerializedDataCarrierStruct ==
  LET tagged == Weighed({d \in unit.fields : d.tagged})
      total == Weighed(unit.fields)
      trivial == Cardinality({m \in unit.methods : m.accessor})
  IN /\ total >= 2 /\ tagged * 2 >= total
     /\ trivial * 3 >= Cardinality(unit.methods) * 2

\* dip.go:64 and :112  The declarations that are reported.
FieldConcreteIssues ==
  IF unit.root \/ SerializedDataCarrierStruct THEN {}
  ELSE {d \in unit.fields :
         /\ ConcreteFieldDependency(d)
         /\ ~BridgeFieldForwarded(d)
         /\ ~d.allowed
         /\ ~PassiveTestDataField(d) /\ ~ReturnedConcreteDataField
         /\ ~ConcreteFieldIsExposed(d)}

\* dip.go:396  The parameters of New... functions.
ConstructorConcreteIssues ==
  IF unit.root THEN {}
  ELSE {p \in unit.params : unit.typed /\ p.pointer /\ p.type \in Behavioral /\ ~p.allowed}

-----------------------------------------------------------------------------
(* The program's checks.  A package lies in the layers whose patterns its  *)
(* path matches: "logic", "implementation", "root".                        *)

LayerChecks ==
  <<"layer-import", "hidden-construction", "wiring-outside-root",
    "infra-error-leak", "transport-leak">>

Finding(check, package, at) == [check |-> check, package |-> package.path, at |-> at]
In(package, layer) == layer \in package.layers /\ layer \in layers.patterns

ArchitectureEnabled == {"logic", "implementation"} \subseteq layers.patterns

LogicPackages ==
  {p \in layers.packages : In(p, "logic") /\ ~In(p, "root")}

\* dip_program.go:511  Every file that imports net/http names it, and uses
\* status codes and headers alone.
HttpImportIsDataOnly(p) ==
  /\ \A f \in p.http : f.named /\ f.uses \subseteq {"data"}
  /\ \E f \in p.http : f.uses # {}

ForbiddenLogicImport(i) ==
  i.detail \/ (i.implementation /\ "implementation" \in layers.patterns)

LayerImports ==
  UNION {{Finding("layer-import", p, i.path) :
            i \in {j \in p.imports :
                     /\ ArchitectureEnabled
                     /\ ForbiddenLogicImport(j)
                     /\ ~(j.path = "net/http" /\ HttpImportIsDataOnly(p))}} :
           p \in LogicPackages}

\* dip_program.go:290  A call of New..., Provide..., Open... or Must... of an
\* implementation package.
ImplementationConstructions(p) ==
  {c \in p.calls : p.typed /\ c.wires /\ c.implementation}

\* dip_program.go:119  In a New... or Provide... function of a logic package,
\* stored into a field.
HiddenConstructions(p) ==
  {c \in ImplementationConstructions(p) :
     ArchitectureEnabled /\ p \in LogicPackages /\ c.factory /\ c.stored}

Hidden ==
  UNION {{Finding("hidden-construction", p, c.at) : c \in HiddenConstructions(p)} :
           p \in layers.packages}

SitesOfTheOneCheck ==  \* fault: the sites are known to the check that reports them
  IF "hidden-construction" \in layers.enabled THEN {f.at : f \in Hidden} ELSE {}

\* dip_program.go:40  Either check needs the sites.
HiddenSites ==
  IF {"hidden-construction", "wiring-outside-root"} \cap layers.enabled # {}
  THEN {f.at : f \in Hidden} ELSE {}

\* dip_program.go:159  Any other such call, but in implementations and roots.
WiringOutsideRoot(known) ==
  UNION {{Finding("wiring-outside-root", p, c.at) :
            c \in {d \in ImplementationConstructions(p) :
                     /\ ArchitectureEnabled
                     /\ ~In(p, "implementation") /\ ~In(p, "root")
                     /\ d.at \notin known}} :
           p \in layers.packages}

\* dip_program.go:198  Comparisons and errors.Is or errors.As with an error of
\* an infrastructure package among the operands: one finding for each.
InfraErrorLeaks ==
  UNION {{Finding("infra-error-leak", p, e.at) :
            e \in {x \in p.errors : p.typed /\ x.infra}} : p \in LogicPackages}

\* dip_program.go:233  One finding for the parameters of a function, one for
\* its results.
TransportLeaks ==
  UNION {{Finding("transport-leak", p, l.at) :
            l \in {x \in p.signatures : p.typed /\ x.transport}} : p \in LogicPackages}

-----------------------------------------------------------------------------

LayerInit ==
  /\ turn = 0
  /\ issues = {}
  /\ sites = {}

\* The check whose turn it is reports when it is enabled.
Emit(check, found) ==
  /\ turn < Len(LayerChecks) /\ LayerChecks[turn + 1] = check
  /\ turn' = turn + 1
  /\ issues' = IF check \in layers.enabled THEN issues \cup found ELSE issues
  /\ UNCHANGED layers

LayerImport == Emit("layer-import", LayerImports) /\ UNCHANGED sites
HiddenConstruction == Emit("hidden-construction", Hidden) /\ sites' = HiddenSites
Wiring == Emit("wiring-outside-root", WiringOutsideRoot(sites)) /\ UNCHANGED sites
InfraErrorLeak == Emit("infra-error-leak", InfraErrorLeaks) /\ UNCHANGED sites
TransportLeak == Emit("transport-leak", TransportLeaks) /\ UNCHANGED sites

LayerNext ==
  LayerImport \/ HiddenConstruction \/ Wiring \/ InfraErrorLeak \/ TransportLeak

LayerSpec == LayerInit /\ [][LayerNext]_layerVars
LayerDone == turn = Len(LayerChecks)

-----------------------------------------------------------------------------
(* Properties. *)

\* What the five checks say of the program when none of them is disabled.
WholeReport ==
  LayerImports \cup Hidden \cup WiringOutsideRoot({f.at : f \in Hidden})
    \cup InfraErrorLeaks \cup TransportLeaks

\* Disabling a check takes its findings from the report and neither adds to
\* nor takes from those of another: above all, a construction that
\* hidden-construction would have reported is not reported as wiring when that
\* check is off (dip_program.go:38-47, the sites one check leaves the next).
LayerSelectionOnlyFilters ==
  LayerDone => issues = {f \in WholeReport : f.check \in layers.enabled}

=============================================================================
