----------------------------- MODULE FieldFlows -----------------------------
(* The search of SOLID-I/unused-dependency (isp_consumer.go): whether an   *)
(* injected interface field is ever consumed, as far as the selectors of   *)
(* one package tell (index, isp_consumer.go:461).  A field whose only uses *)
(* hand it to other fields is consumed when one of those is; the search    *)
(* descends into them in the order of a Go map, remembers every answer for *)
(* the fields asked about later, and takes a field it is in the middle of  *)
(* for a consumed one.                                                     *)
EXTENDS Naturals, FiniteSets, Sequences, Functions

CONSTANTS
  Fields,      \* struct fields the package's syntax selects
  Owner,       \* [Fields -> the struct that declares it]
  Local,       \* structs the package declares
  Public,      \* fields and structs with an exported name
  Role,        \* [Fields -> the interface it is declared with]
  Methods,     \* [interfaces -> their complete method sets]
  Aloof,       \* interfaces of other modules, and the well-known wide ones
  NoType       \* what encloses the body of a plain function

ASSUME FlowAssumption ==
  /\ Owner \in [Fields -> Range(Owner)]
  /\ Role \in [Fields -> DOMAIN Methods]

VARIABLES
  pkg,    \* [typed, place, receivers, returned, generated, uses, params]
  asked,  \* fields the check has asked about
  memo,   \* answers remembered, a partial function of Fields
  frames  \* the calls of `consumed` in progress, the innermost first

flowVars == <<pkg, asked, memo, frames>>

\* A use is a selector of a field: where it stands, in methods of which type,
\* and what it does there.
Kept == {"keyed", "assigned"}  \* T{to: x.field} and y.to = x.field

\* isp_consumer.go:625  A struct without methods that some function returns:
\* its fields are read by whoever gets it.
CarrierFieldEscapes(f) ==
  /\ Owner[f] \in Local \ pkg.receivers
  /\ Owner[f] \in pkg.returned

FlowDestinations(f) == {u.to : u \in {v \in pkg.uses : v.field = f /\ v.as \in Kept}}

\* isp_consumer.go:510  The target of an assignment is a selector as well, and
\* no flow: a field that is assigned to counts as consumed.
UsedDirectly(f) ==
  \E u \in pkg.uses :
    \/ u.field = f /\ u.as \notin Kept
    \/ u.to = f /\ u.as = "assigned"

Visiting(f) == \E i \in DOMAIN frames : frames[i].field = f

\* What `consumed` answers of f without looking at its uses, if anything.
Known(f) == CarrierFieldEscapes(f) \/ f \in DOMAIN memo \/ Visiting(f)
AnswerWithoutCycles(f) ==  \* fault: not consumed in the middle of its own search
  \/ CarrierFieldEscapes(f)
  \/ f \in DOMAIN memo /\ memo[f]

Answer(f) ==
  \/ CarrierFieldEscapes(f)
  \/ IF f \in DOMAIN memo THEN memo[f] ELSE Visiting(f)

FrameOfFlows(f) ==  \* fault: a field that is handed on is judged by where it goes
  [field |-> f, found |-> UsedDirectly(f) /\ FlowDestinations(f) = {},
   rest |-> FlowDestinations(f)]

Frame(f) == [field |-> f, found |-> UsedDirectly(f), rest |-> FlowDestinations(f)]

\* isp_usage.go:20  Composition roots, and packages outside the configured
\* logic packages, are left alone.
ShouldCheckUsage == pkg.typed /\ pkg.place \notin {"root", "outside"}

\* isp_consumer.go:600  (field-less structs have no field to report)
LocallyReferenced(t) ==
  \E u \in pkg.uses :
    \/ Owner[u.field] = t
    \/ u.as = "assigned" /\ Owner[u.to] = t

EligibleOwnedInterface(i) == i \notin Aloof /\ Methods[i] # {}

Candidates ==
  {f \in Fields :
    /\ ShouldCheckUsage
    /\ Owner[f] \in (Local \cap Public) \ pkg.generated
    /\ Owner[f] \in pkg.receivers \/ LocallyReferenced(Owner[f])
    /\ EligibleOwnedInterface(Role[f])
    /\ f \in Public}

-----------------------------------------------------------------------------

FlowInit ==
  /\ asked = {}
  /\ memo = <<>>
  /\ frames = <<>>

\* The check reaches a candidate field and asks whether it is consumed.
Ask(f) ==
  /\ frames = <<>>
  /\ f \in Candidates \ asked
  /\ asked' = asked \cup {f}
  /\ frames' = IF Known(f) THEN <<>> ELSE <<Frame(f)>>
  /\ UNCHANGED <<pkg, memo>>

\* The innermost search goes on with one of the fields it has yet to follow.
Follow(d) ==
  /\ frames # <<>>
  /\ ~Head(frames).found
  /\ d \in Head(frames).rest
  /\ frames' =
       IF Known(d)
       THEN [frames EXCEPT ![1].rest = @ \ {d}, ![1].found = Answer(d)]
       ELSE <<Frame(d)>> \o frames
  /\ UNCHANGED <<pkg, asked, memo>>

\* The innermost search is over: its answer is remembered.  The caller finds
\* it there when it goes on with the same field.
Remember ==
  /\ frames # <<>>
  /\ Head(frames).found \/ Head(frames).rest = {}
  /\ memo' = [f \in DOMAIN memo \cup {Head(frames).field} |->
                IF f = Head(frames).field THEN Head(frames).found ELSE memo[f]]
  /\ frames' = Tail(frames)
  /\ UNCHANGED <<pkg, asked>>

FlowNext ==
  \/ \E f \in Fields : Ask(f) \/ Follow(f)
  \/ Remember

FlowSpec == FlowInit /\ [][FlowNext]_flowVars
FlowDone == frames = <<>> /\ Candidates \subseteq asked

\* The fields SOLID-I/unused-dependency reports.
Unused == {f \in asked : ~Visiting(f) /\ ~Answer(f)}

-----------------------------------------------------------------------------
(* Properties. *)

FlowTypeOK ==
  /\ asked \subseteq Fields
  /\ DOMAIN memo \subseteq Fields
  /\ memo \in [DOMAIN memo -> BOOLEAN]
  /\ frames \in Seq([field : Fields, found : BOOLEAN, rest : SUBSET Fields])

\* A field is never consumed when it lies in a set of fields that hand their
\* values to each other alone and not in a circle.
NeverConsumed(f) ==
  \E quiet \in SUBSET Fields :
    /\ f \in quiet
    /\ \A g \in quiet :
         /\ ~UsedDirectly(g) /\ ~CarrierFieldEscapes(g)
         /\ FlowDestinations(g) \subseteq quiet
    /\ \A ring \in (SUBSET quiet) \ {{}} :
         \E g \in ring : FlowDestinations(g) \cap ring = {}

\* Whatever field the check asks about first and in whatever order the map of
\* destinations is walked, what is remembered of a field is whether it is
\* consumed: an answer found in the middle of a circle of flows is as good as
\* any other (isp_consumer.go:496, memo and visiting).
MemoIsOrderless ==
  \A f \in DOMAIN memo : memo[f] <=> ~NeverConsumed(f)

\* The answers agree with each other, in whatever order they were found: what
\* is remembered as unread flows into nothing but what is remembered as
\* unread, and no selector of this package uses it otherwise and no carrier
\* returned from it holds it (isp_consumer.go:496-529).  That nobody reads it
\* this does not say: a value handed to a struct of another package is unread
\* unless this package selects that field too, although the other may read it
\* (docs/checks/SOLID-I/unused-dependency.md:3,22).
UnreadIsClosed ==
  \A f \in DOMAIN memo :
    ~memo[f] =>
      /\ ~UsedDirectly(f)
      /\ \A d \in FlowDestinations(f) :
           /\ ~CarrierFieldEscapes(d)
           /\ d \in DOMAIN memo
           /\ ~memo[d]

=============================================================================
