------------------------------ MODULE MCChecks ------------------------------
(* One package or program for each group of checks that lets its hard      *)
(* cases happen; the groups of the others are not planned, but in the last *)
(* programs, where all run.                                                *)
EXTENDS Checks, SequencesExt

-----------------------------------------------------------------------------
(* Interfaces: A and B are parts of I; K has a part of another package. *)

MCFields == {"pf", "pg", "sf", "ef"}
MCOwner == [f \in MCFields |-> CASE f \in {"pf", "pg"} -> "Ports" [] f = "sf" -> "Svc" [] f = "ef" -> "Far"]
MCLocal == {"Ports", "Svc"}
MCPublic == MCFields \cup MCLocal \cup {"q"}
MCRole == [f \in MCFields |-> IF f = "ef" THEN "W" ELSE "I"]
MCMethods ==
  [I |-> {"Get", "Put", "List", "Drop"}, A |-> {"Get", "Put"}, B |-> {"List", "Drop"},
   K |-> {"Get", "Put", "List", "Drop"}, X |-> {"List", "Drop"}, W |-> {"Get"}]
MCCapability == [m \in {"Get", "Put", "List", "Drop"} |-> IF m \in {"Get", "List"} THEN "read" ELSE "write"]
MCOwn == [I |-> {}, A |-> {"Get", "Put"}, B |-> {"List", "Drop"}, K |-> {}]
MCEmbeds == [I |-> {"A", "B"}, A |-> {}, B |-> {}, K |-> {"A", "X"}]

Use(at, field, as, to, in) == [at |-> at, field |-> field, as |-> as, to |-> to, in |-> in, within |-> "none"]
Uses ==
  {Use(1, "pf", "keyed", "sf", "body"), Use(2, "sf", "keyed", "pf", "body"),
   Use(3, "pg", "assigned", "pf", "body"), Use(4, "sf", "method", "Get", "Svc"),
   Use(5, "sf", "nil", "none", "Svc"), Use(6, "sf", "passed", "q", "Svc"),
   Use(7, "sf", "keyed", "pg", "body"), Use(8, "pg", "keyed", "ef", "body")}
\* Svc: sf.Put(sf.Get(), q(sf)), f(sf.List), and sf = nil in such a place.
NestedUses ==
  {Use(4, "sf", "method", "Put", "Svc"),
   [Use(5, "sf", "method", "Get", "Svc") EXCEPT !.within = "sf"],
   [Use(6, "sf", "passed", "q", "Svc") EXCEPT !.within = "sf"],
   [Use(7, "sf", "method", "List", "Svc") EXCEPT !.within = "call"],
   [Use(8, "sf", "nil", "none", "Svc") EXCEPT !.within = "sf"],
   Use(9, "sf", "method", "Drop", "Svc")}
Package(uses, typed, receivers, returned, methods) ==
  [typed |-> typed, place |-> "logic", receivers |-> receivers, returned |-> returned,
   generated |-> {}, uses |-> uses,
   params |-> [q |-> [role |-> "I", methods |-> methods, bare |-> FALSE]]]
MCPackages ==
  {Package(uses, TRUE, {"Svc"}, returned, methods) :
     uses \in SUBSET Uses,
     <<returned, methods>> \in {<<{"Ports"}, {"Get"}>>, <<{}, {"Get"}>>, <<{}, {"Put", "List", "Drop"}>>}}
    \cup {Package(uses, TRUE, {"Svc"}, {}, methods) :
            uses \in SUBSET NestedUses, methods \in {{"Get"}, {"Put", "List", "Drop"}}}
    \cup {Package(Uses, FALSE, {"Svc"}, {}, {"Get"})}

-----------------------------------------------------------------------------
(* Constructors: assignments among p, q, a and b, in any order. *)

Statement(spec, lhs, rhs) == [spec |-> spec, lhs |-> lhs, rhs |-> rhs]
Statements ==
  {Statement(FALSE, "a", "p"), Statement(FALSE, "b", "a"), Statement(FALSE, "a", "q"),
   Statement(FALSE, "a", "b"), Statement(FALSE, "p", "None"), Statement(TRUE, "b", "a")}
Constructor(body) ==
  [body |-> body, calls |-> {[on |-> "a", method |-> "Get"]}, args |-> {},
   stored |-> {[from |-> "a", narrow |-> {"Get"}], [from |-> "b", narrow |-> {"Get", "Put"}]}]
MCBroad == [v \in {"p", "q"} |-> {"Get", "Put", "List"}]
MCConstructors == {Constructor(body) : body \in SeqOf(Statements, 4)}

-----------------------------------------------------------------------------
(* Functions that share two parameters or more, and structs. *)

MCLimits ==
  [funcParams |-> 1, funcLines |-> 60, funcComplexity |-> 15, methods |-> 2, exported |-> 2,
   fields |-> 3, lines |-> 250, complexity |-> 5, signals |-> 3, tccPercent |-> 33,
   foreignFields |-> 5, fanOut |-> 1, clusterMethods |-> 1, cohesionMethods |-> 2,
   cohesionFields |-> 2, componentMethods |-> 1]

Params(params, flags, distinct) ==
  [params |-> params, count |-> Cardinality(params), distinct |-> distinct, flags |-> flags]
Function(at, bySyntax, byTypes) ==
  [at |-> at, seen |-> [syntax |-> bySyntax, types |-> byTypes], lines |-> 70, complexity |-> at * 10,
   entry |-> (at = 1), helpers |-> {at + 1}, domain |-> {"New"}, writes |-> {at}]
Same(at, p) == Function(at, p, p)
Widths == {{"a", "b"}, {"a", "b", "c"}, {"a", "b", "c", "d"}, {"b", "c"}, {"c", "d"}}
Sharing ==
  {{Same(1, Params(w, {}, 1)), Same(2, Params(x, {}, 1)), Same(3, Params(y, {}, 1)), Same(4, Params(z, {}, 1))} :
     w, x, y, z \in Widths}
\* A flag whose name is shadowed, one the syntax cannot see, a broad input.
Judged ==
  {Function(1, Params({"a", "b"}, {"a"}, 2), Params({"a", "b"}, {}, 2)),
   Function(2, Params({"a", "b"}, {}, 2), Params({"a", "b"}, {"b"}, 2)),
   Same(3, Params({"a", "b"}, {}, 2)), Same(4, Params({"a", "b", "c"}, {}, 3))}

Method(name, uses, imports) ==
  [name |-> name, exported |-> TRUE, complexity |-> 2, uses |-> uses, calls |-> {},
   imports |-> imports, accessor |-> FALSE, constructor |-> FALSE, shape |-> name, forwards |-> FALSE]
Field(name) == [name |-> name, key |-> [syntax |-> name, types |-> name], tagged |-> FALSE]
Struct(foreign, uses) ==
  [at |-> 9, name |-> "T", fields |-> {Field(n) : n \in {"f", "g", "h", "i"}},
   methods |-> {Method("M", {"f"}, {"x"}), Method("N", uses, {"y"}), Method("O", {"h"}, {})},
   lines |-> 10, foreign |-> foreign, foreignFields |-> {}, orchestrator |-> FALSE]

AllSmells == ParameterChecks \cup StructChecks \cup {"complex-function", "transport-workflow"}
Source(functions, structs, typed, enabled) ==
  [functions |-> functions, structs |-> structs, info |-> typed, typed |-> typed, enabled |-> enabled]
MCSources ==
  {Source(functions, {}, FALSE, AllSmells) : functions \in Sharing}
    \cup {Source(Judged, {Struct({"x", "y"}, {"g"})}, typed, AllSmells \ off) :
            typed \in BOOLEAN, off \in SUBSET ParameterChecks}
    \cup {Source({}, {Struct(foreign, uses)}, TRUE, AllSmells \ off) :
            foreign \in SUBSET {"x", "y"}, uses \in {{"f"}, {"g"}}, off \in SUBSET {"god-type", "large-type"}}

-----------------------------------------------------------------------------
(* Places that tell variants apart: two that have nothing in common but a  *)
(* third, a table of constructors that is a dispatch as well, enums.       *)

Dispatch(at, cases, kind, key) ==
  [at |-> at, source |-> key, kind |-> kind, cases |-> cases, concrete |-> TRUE,
   bad |-> TRUE, codec |-> FALSE, sealed |-> FALSE]
Dispatches ==
  {Dispatch(1, {"A", "B"}, "switch", "Shape"), Dispatch(2, {"C", "D"}, "switch", "Shape"),
   Dispatch(3, {"A", "B", "C", "D"}, "switch", "Shape"),
   Dispatch(4, {"A", "E"}, "chain", "Shape"), Dispatch(5, {"A", "B", "C"}, "switch", "Node")}
Branch(at, fn, cases, enum) ==
  [at |-> at, decl |-> at, fn |-> fn, field |-> "kind", enum |-> enum, cases |-> cases,
   bad |-> TRUE, codec |-> FALSE]
FieldBranches ==
  <<Branch(11, "f", {"A", "B"}, FALSE), Branch(12, "g", {"C", "D"}, FALSE),
    Branch(13, "h", {"A", "B", "C", "D"}, FALSE)>>
Branches ==
  {<<>>, FieldBranches,
   <<Branch(11, "f", {"A"}, TRUE), Branch(12, "f", {"B"}, TRUE), Branch(13, "h", {"A", "B"}, TRUE)>>}
Similar(at, name, types, shape) ==
  [at |-> at, name |-> name, complete |-> TRUE, arity |-> 1, types |-> types, nodes |-> 20, shape |-> shape]
Functions3 ==
  <<Similar(21, 1, 1, {"a", "b"}), Similar(22, 2, 2, {"b", "c"}), Similar(23, 1, 3, {"c", "d"})>>
Parameter ==
  [at |-> 31, complete |-> TRUE, foreign |-> TRUE, allowed |-> FALSE, safe |-> TRUE,
   methods |-> {"M", "N"}, domain |-> FALSE, accessors |-> FALSE]
\* The branches of a switch at the place of a dispatch, and of another one.
Factories ==
  {[at |-> 1, complete |-> TRUE, entries |-> 3, returns |-> {"A", "make"}],
   [at |-> 5, complete |-> TRUE, entries |-> 3, returns |-> {"make"}]}
Code(dispatches, branches, enabled) ==
  [dispatches |-> dispatches, discriminators |-> branches, parameters |-> {Parameter},
   factories |-> Factories, helpers |-> [make |-> {"B", "make"}],
   packages |-> {[at |-> 41, logic |-> TRUE, root |-> FALSE, implementations |-> {"db", "mq"}]},
   functions |-> Functions3, enabled |-> enabled]
MCCode ==
  {Code(dispatches, branches, Range(DispatchChecks)) :
     dispatches \in SUBSET Dispatches, branches \in Branches}
    \cup {Code(Dispatches, FieldBranches, enabled) : enabled \in SUBSET Range(DispatchChecks)}

-----------------------------------------------------------------------------
(* Layers: a logic package that builds what it uses, an adapter, a root. *)

Call(at, factory) ==
  [at |-> at, wires |-> TRUE, implementation |-> TRUE, factory |-> factory, stored |-> TRUE]
Layered(path, in) ==
  [path |-> path, layers |-> in, typed |-> TRUE,
   imports |-> {[path |-> "net/http", detail |-> TRUE, implementation |-> FALSE],
                [path |-> "db", detail |-> FALSE, implementation |-> TRUE]},
   http |-> {[named |-> TRUE, uses |-> {"data"}]},
   calls |-> {Call(path \o ".New", TRUE), Call(path \o ".run", FALSE)},
   errors |-> {[at |-> path \o ".Is", infra |-> TRUE]},
   signatures |-> {[at |-> path \o ".Serve", transport |-> TRUE]}]
MCLayers ==
  {[packages |-> {Layered("core", {"logic"}), Layered("db", {"implementation"}),
                  Layered("cmd", {"logic", "root"}), Layered("util", {})},
    patterns |-> patterns, enabled |-> enabled] :
     patterns \in {{"logic", "implementation", "root"}, {"logic", "implementation"}, {"logic"}},
     enabled \in SUBSET Range(LayerChecks)}

Declaration(names, type) ==
  [names |-> names, type |-> type, pointer |-> TRUE, allowed |-> FALSE, tagged |-> FALSE]
MCUnits ==
  {[typed |-> typed, root |-> FALSE, test |-> FALSE, returned |-> FALSE,
    fields |-> {Declaration(<<"c">>, "service"), Declaration(<<"n">>, "local")},
    methods |-> {[refers |-> {"c"}, forwards |-> "none", behaves |-> {"c"}, result |-> "error",
                  returns |-> {}, accessor |-> FALSE]},
    params |-> {[pointer |-> TRUE, type |-> "service", allowed |-> FALSE]}] : typed \in BOOLEAN}

-----------------------------------------------------------------------------

Small ==
  [planned |-> {}, pkg |-> Package({Use(1, "pf", "keyed", "sf", "body")}, TRUE, {"Svc"}, {}, {"Get"}),
   ctor |-> Constructor(<<>>), source |-> Source({}, {}, FALSE, {}),
   code |-> Code({}, <<>>, {}),
   layers |-> [packages |-> {}, patterns |-> {}, enabled |-> {}],
   unit |-> CHOOSE u \in MCUnits : u.typed]

MCPrograms ==
  {[Small EXCEPT !.planned = {"isp-package"}, !.pkg = p] : p \in MCPackages}
    \cup {[Small EXCEPT !.planned = {"isp-package"}, !.ctor = c] : c \in MCConstructors}
    \cup {[Small EXCEPT !.planned = {"srp-package"}, !.source = s, !.unit = u] : s \in MCSources, u \in MCUnits}
    \cup {[Small EXCEPT !.planned = {"ocp-program"}, !.code = c] : c \in MCCode}
    \cup {[Small EXCEPT !.planned = {"dip-program"}, !.layers = l] : l \in MCLayers}
    \cup {[Small EXCEPT !.planned = {"isp-package", "srp-package", "ocp-program", "dip-program"},
                        !.source = Source(Judged, {}, TRUE, AllSmells), !.code = c, !.layers = l] :
            c \in {Code({Dispatch(5, {"A", "B", "C"}, "switch", "Node")}, <<>>, {"type-dispatch"})}, l \in {k \in MCLayers : k.enabled = {}}}

=============================================================================
