---------------------------- MODULE InterfaceUse ----------------------------
(* What the other typed checks of SOLID-I decide of the package FieldFlows *)
(* searches (isp.go, isp_usage.go, isp_consumer.go): how much of an        *)
(* interface its consumers use, and which interfaces are too wide.  Each   *)
(* check walks the syntax in its own way; the operators keep what the      *)
(* walks tell apart.                                                       *)
EXTENDS FieldFlows

CONSTANTS
  Capability,         \* [methods -> "read", "write" or "other"], by their prefix
  ExecutionMethods,   \* isp.execution_methods
  Registries,         \* interfaces named ...Registry
  Own,                \* [local interfaces -> methods they declare by name]
  Embeds,             \* [local interfaces -> interfaces they embed]
  MinMethods,         \* isp_min_methods
  UsagePercent,       \* isp_usage_ratio_percent
  MaxMethods          \* max_interface_methods

LocalInterfaces == DOMAIN Own

ASSUME InterfaceAssumption ==
  /\ UsagePercent \in 0..100 /\ MinMethods \in Nat \ {0} /\ MaxMethods \in Nat \ {0}
  /\ \A i \in DOMAIN Methods : IsFiniteSet(Methods[i])
  /\ LocalInterfaces \subseteq DOMAIN Methods
  /\ \A i \in LocalInterfaces :
       Methods[i] = Own[i] \cup UNION {Methods[e] : e \in Embeds[i]}
  /\ {"none", "call"} \cap Fields = {}

-----------------------------------------------------------------------------
(* The use of a field by the methods of its struct.  `within` is the field *)
(* on which the outermost call with the use among its arguments calls a    *)
(* method, "call" when that calls something else and the use stands inside *)
(* an argument but is not the argument, else "none".                       *)

ReceiverUses(f) ==
  {u \in pkg.uses : u.in = Owner[f] /\ (u.field = f \/ (u.as = "assigned" /\ u.to = f))}

\* isp_usage.go:436  A parameter that a function hands on shows nothing.
Lost(u) ==
  \/ u.as \in {"lost", "keyed", "assigned", "other"}
  \/ u.as = "passed" /\ pkg.params[u.to].bare

MethodsOfReceiver(uses) ==  \* fault: a field passed on shows no methods
  {u.to : u \in {v \in uses : v.as = "method"}}

MethodsOf(uses) ==
  {u.to : u \in {v \in uses : v.as = "method"}} \cup
  UNION {pkg.params[u.to].methods : u \in {v \in uses : v.as = "passed"}}

\* isp_usage.go:271  The walk of usage-ratio ends at a method call on the field:
\* it does not look at the arguments.
SeenByRatio(f) == {u \in ReceiverUses(f) : u.within # f}

\* isp_usage.go:276  It gives up where the field is compared, or stands inside
\* the argument of another call but as the argument itself.
UsageIndirect(f) ==
  \E u \in SeenByRatio(f) : Lost(u) \/ u.as = "nil" \/ u.within # "none"

\* isp_consumer.go:285  consumer-role does not.
RoleIndirect(f) == \E u \in ReceiverUses(f) : Lost(u)

Percent(used, i) == (100 * Cardinality(used)) \div Cardinality(Methods[i])

EligibleUsageInterface(i) ==
  i \notin Aloof /\ Cardinality(Methods[i]) >= MinMethods

\* SOLID-I/usage-ratio of the parameters of an exported function.
ParameterUsageRatio ==
  {q \in DOMAIN pkg.params :
    /\ ShouldCheckUsage
    /\ q \in Public
    /\ EligibleUsageInterface(pkg.params[q].role)
    /\ ~pkg.params[q].bare /\ pkg.params[q].methods # {}
    /\ Percent(pkg.params[q].methods, pkg.params[q].role) < UsagePercent}

\* SOLID-I/usage-ratio of the fields of an exported struct.
FieldUsageRatio ==
  {f \in Fields :
    /\ ShouldCheckUsage
    /\ Owner[f] \in (Local \cap Public) \ pkg.generated
    /\ EligibleUsageInterface(Role[f])
    /\ ~UsageIndirect(f)
    /\ MethodsOf(SeenByRatio(f)) # {}
    /\ Percent(MethodsOf(SeenByRatio(f)), Role[f]) < UsagePercent}

Count(methods, capability) == Cardinality({m \in methods : Capability[m] = capability})

\* isp_consumer.go:147 and :64
CapabilityMismatch(used, unused) ==
  \/ /\ Count(used, "read") > 0 /\ Count(used, "write") = 0
     /\ Count(unused, "write") > 0
     /\ \/ Cardinality(used) <= 1
        \/ Cardinality(used \cup unused) >= 6 /\ Count(unused, "write") <= 2
  \/ /\ Count(used, "write") > 0 /\ Count(used, "read") = 0
     /\ Count(unused, "read") >= 3
     /\ Cardinality(used) <= 2
  \/ unused \cap ExecutionMethods # {}

RoleMethods(f) == MethodsOf(ReceiverUses(f))
RoleMismatch(f) == CapabilityMismatch(RoleMethods(f), Methods[Role[f]] \ RoleMethods(f))

\* SOLID-I/consumer-role
ConsumerRole ==
  {f \in Fields :
    /\ ShouldCheckUsage
    /\ Owner[f] \in Local \ pkg.generated
    /\ EligibleUsageInterface(Role[f]) /\ Role[f] \notin Registries
    /\ ~RoleIndirect(f)
    /\ RoleMethods(f) # {}
    /\ \/ Cardinality(Methods[Role[f]]) >= 4 /\ Percent(RoleMethods(f), Role[f]) < UsagePercent
       \/ RoleMismatch(f)}

-----------------------------------------------------------------------------
(* SOLID-I/fat-interface *)

\* isp.go:167  The syntax knows the embedded interfaces of its own package, and
\* those embedded in them.
Embedded(i) ==
  {e \in LocalInterfaces :
    \A reached \in SUBSET LocalInterfaces :
      (/\ i \in reached
       /\ \A r \in reached : Embeds[r] \cap LocalInterfaces \subseteq reached) => e \in reached}
SyntaxMethods(i) == UNION {Own[e] : e \in Embedded(i)}

CompleteInterface(i, typed) == IF typed THEN Methods[i] ELSE SyntaxMethods(i)

Wide(methods) == Cardinality(methods) > MaxMethods
\* isp.go:251  The exemption counts the methods called on the field directly,
\* and those of callees up to the first use that shows nothing.
UsesBeforeLost(f) ==
  {u \in ReceiverUses(f) : \A v \in ReceiverUses(f) : Lost(v) => u.at < v.at}
FullyConsumed(f) ==
  Methods[Role[f]] \subseteq
    {u.to : u \in {v \in ReceiverUses(f) : v.as = "method"}} \cup MethodsOf(UsesBeforeLost(f))

FullyConsumedComposedInterface(i) ==
  /\ Cardinality(Embeds[i]) >= 2
  /\ \E f \in Fields : Role[f] = i /\ Owner[f] \in Local /\ FullyConsumed(f)

FatInterface(typed) ==
  {i \in LocalInterfaces \ pkg.generated :
    /\ Wide(CompleteInterface(i, typed))
    /\ ~(typed /\ FullyConsumedComposedInterface(i))}

-----------------------------------------------------------------------------
(* Properties. *)

\* usage-ratio misses some use that consumer-role and fat-interface count.
Overlooked(f) == SeenByRatio(f) # ReceiverUses(f)

\* Walks over the same selectors come to verdicts that fit together: no field
\* is reported as never consumed and as consumed too narrowly; what usage-ratio
\* reports of an interface of four methods or more, consumer-role reports as
\* well; a field that is only handed to a function is judged as the parameter
\* of that function is; and an interface that types exempt from fat-interface
\* has a full consumer that is told to narrow it by no ratio.  The second and the
\* last do not hold of a field used in the arguments of a method call on it,
\* as in s.f.Put(s.f.Get()): usage-ratio does not count those uses.
FieldVerdictsAgree ==
  /\ Unused \cap (FieldUsageRatio \cup ConsumerRole) = {}
  /\ \A f \in FieldUsageRatio :
       /\ Cardinality(Methods[Role[f]]) >= 4 /\ Role[f] \notin Registries
       /\ ~Overlooked(f)
       => f \in ConsumerRole
  /\ \A f \in Fields, q \in DOMAIN pkg.params \cap Public :
       (/\ Owner[f] \in (Local \cap Public) \ pkg.generated
        /\ pkg.params[q].role = Role[f]
        /\ ReceiverUses(f) # {}
        /\ \A u \in ReceiverUses(f) : u.as = "passed" /\ u.to = q /\ u.within = "none")
       => (f \in FieldUsageRatio <=> q \in ParameterUsageRatio)
  /\ \A i \in FatInterface(FALSE) \ FatInterface(TRUE) :
       \E f \in Fields : /\ Role[f] = i /\ FullyConsumed(f)
                         /\ f \notin FieldUsageRatio \/ Overlooked(f)

=============================================================================
