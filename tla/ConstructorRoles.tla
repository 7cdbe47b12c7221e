-------------------------- MODULE ConstructorRoles --------------------------
(* The alias analysis of SOLID-I/constructor-role (isp_constructor.go): in *)
(* a New... or Provide... function, which variables hold which parameter;  *)
(* two loops over the statements, each until a round changes nothing.      *)
EXTENDS Naturals, FiniteSets, Sequences

CONSTANTS
  Variables,   \* of the constructor, its parameters among them
  Parameters,
  Broad,       \* [Parameters -> methods of the interface it is declared with]
  None         \* no variable, or no origin; the right side of an assignment
               \* that is no variable

ASSUME ConstructorAssumption ==
  Parameters \subseteq Variables /\ None \notin Variables

VARIABLES
  ctor,  \* [body: Seq([spec, lhs, rhs]), calls, args, stored]: its syntax
  loop,  \* "propagate", "invalidate" or "over"
  position, \* how many statements the round has looked at
  known  \* [aliases, ambiguous, changed]: what the loops compute

ctorVars == <<ctor, loop, position, known>>

\* isp_constructor.go:37
OriginIn(k, v) == IF v = None \/ v \in k.ambiguous THEN None ELSE k.aliases[v]
Origin(v) == OriginIn(known, v)

\* isp_constructor.go:53 and :70  A variable takes the origin of what it is
\* given; one that is given two origins is ambiguous from then on.
Propagated(k, s) ==
  LET root == OriginIn(k, s.rhs) IN
  IF root = None \/ s.lhs = None \/ s.lhs \in k.ambiguous \/ k.aliases[s.lhs] = root
  THEN k
  ELSE IF k.aliases[s.lhs] # None
  THEN [k EXCEPT !.ambiguous = @ \cup {s.lhs}, !.changed = TRUE]
  ELSE [k EXCEPT !.aliases[s.lhs] = root, !.changed = TRUE]

InvalidatedOnce(k, s) ==  \* fault: only what is no variable invalidates
  IF ~s.spec /\ s.lhs # None /\ s.lhs \notin k.ambiguous /\ k.aliases[s.lhs] # None /\ s.rhs = None
  THEN [k EXCEPT !.ambiguous = @ \cup {s.lhs}, !.changed = TRUE]
  ELSE k

\* isp_constructor.go:97  Assignments, not declarations, from what is no
\* variable or an ambiguous one.
Invalidated(k, s) ==
  IF /\ ~s.spec
     /\ s.lhs # None /\ s.lhs \notin k.ambiguous /\ k.aliases[s.lhs] # None
     /\ s.rhs = None \/ s.rhs \in k.ambiguous
  THEN [k EXCEPT !.ambiguous = @ \cup {s.lhs}, !.changed = TRUE]
  ELSE k

-----------------------------------------------------------------------------

Unaliased ==
  [aliases |-> [v \in Variables |-> IF v \in Parameters THEN v ELSE None],
   ambiguous |-> {}, changed |-> FALSE]

ConstructorInit == loop = "propagate" /\ position = 0 /\ known = Unaliased

RoundOver == position = Len(ctor.body)

\* A round goes on with the next statement.
Propagate ==
  /\ loop = "propagate" /\ ~RoundOver
  /\ known' = Propagated(known, ctor.body[position + 1])
  /\ position' = position + 1
  /\ UNCHANGED <<ctor, loop>>

Invalidate ==
  /\ loop = "invalidate" /\ ~RoundOver
  /\ known' = Invalidated(known, ctor.body[position + 1])
  /\ position' = position + 1
  /\ UNCHANGED <<ctor, loop>>

NextRound ==
  /\ loop # "over" /\ RoundOver /\ known.changed
  /\ known' = [known EXCEPT !.changed = FALSE]
  /\ position' = 0
  /\ UNCHANGED <<ctor, loop>>

\* A round changed nothing.
NextLoop ==
  /\ loop # "over" /\ RoundOver /\ ~known.changed
  /\ loop' = IF loop = "propagate" THEN "invalidate" ELSE "over"
  /\ position' = 0
  /\ UNCHANGED <<ctor, known>>

ConstructorNext == Propagate \/ Invalidate \/ NextRound \/ NextLoop
ConstructorDone == loop = "over"
ConstructorSpec == ConstructorInit /\ [][ConstructorNext]_ctorVars

-----------------------------------------------------------------------------

\* isp_constructor.go:118
Used(root) == {c.method : c \in {d \in ctor.calls : Origin(d.on) = root}}
Escaped(root) == \E v \in ctor.args : Origin(v) = root

\* isp_constructor.go:157  What is stored into a field of the struct the
\* constructor builds, with the methods of that field's interface.
Narrowed(s) ==
  LET root == Origin(s.from) IN
  /\ root # None
  /\ ~Escaped(root)
  /\ s.narrow \subseteq Broad[root] /\ s.narrow # Broad[root]
  /\ Used(root) \subseteq s.narrow

ConstructorRole == {Origin(s.from) : s \in {t \in ctor.stored : Narrowed(t)}}

-----------------------------------------------------------------------------
(* Properties. *)

\* When the loops are over, a variable with an origin is assigned nothing that
\* has another origin, has lost its own, or is no variable: the two loops and
\* the rounds they take leave no assignment half accounted for.
OriginsAreSettled ==
  ConstructorDone =>
    \A i \in DOMAIN ctor.body :
      LET s == ctor.body[i] IN
      ~s.spec /\ s.lhs # None /\ Origin(s.lhs) # None =>
        /\ s.rhs # None /\ s.rhs \notin known.ambiguous
        /\ Origin(s.rhs) \in {Origin(s.lhs), None}

=============================================================================
