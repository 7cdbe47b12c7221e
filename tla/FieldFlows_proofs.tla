-------------------------- MODULE FieldFlows_proofs --------------------------
(* The search for fields nobody consumes, for any package: what is         *)
(* remembered of a field is the truth about it, in whatever order fields   *)
(* are asked about and flows are followed.  What is remembered as unread   *)
(* flows into what was remembered as unread before, so it never lies on a  *)
(* circle; and a quiet set of fields is never left by the search once it   *)
(* is in it, so that a field met again would close a circle in the set.    *)
EXTENDS FieldFlows, FiniteSetTheorems, SequenceTheorems, TLAPS

\* What the syntax of a package is: uses are of fields, flows go to fields.
PackageOK ==
  \A u \in pkg.uses : u.field \in Fields /\ (u.as \in Kept => u.to \in Fields)

Unread == {f \in DOMAIN memo : ~memo[f]}
SettledUnread(d) == ~CarrierFieldEscapes(d) /\ d \in DOMAIN memo /\ ~memo[d]

\* A set of fields that shows that its members are never consumed.
Quiet(quiet) ==
  /\ \A g \in quiet :
       /\ ~UsedDirectly(g) /\ ~CarrierFieldEscapes(g)
       /\ FlowDestinations(g) \subseteq quiet
  /\ \A ring \in (SUBSET quiet) \ {{}} :
       \E g \in ring : FlowDestinations(g) \cap ring = {}

\* No search is in progress twice, nor for what is remembered.
Fresh ==
  /\ \A i \in DOMAIN frames :
       /\ frames[i].field \notin DOMAIN memo
       /\ ~CarrierFieldEscapes(frames[i].field)
  /\ \A i, j \in DOMAIN frames : frames[i].field = frames[j].field => i = j
  /\ \A f \in DOMAIN memo : ~CarrierFieldEscapes(f)

\* A search has found nothing in the flows it has followed, or is over.
SearchedSoFar ==
  \A i \in DOMAIN frames :
    ~frames[i].found =>
      /\ ~UsedDirectly(frames[i].field)
      /\ \A d \in FlowDestinations(frames[i].field) \ frames[i].rest : SettledUnread(d)

\* Each search was begun by the next outer one, along a flow.
AlongFlows ==
  /\ \A i \in DOMAIN frames : frames[i].rest \subseteq FlowDestinations(frames[i].field)
  /\ \A i \in DOMAIN frames :
       i + 1 \in DOMAIN frames => frames[i].field \in FlowDestinations(frames[i + 1].field)

NoUnreadRing ==
  \A ring \in (SUBSET Unread) \ {{}} : \E g \in ring : FlowDestinations(g) \cap ring = {}

QuietStaysUnread ==
  \A quiet \in SUBSET Fields : Quiet(quiet) =>
    /\ \A f \in DOMAIN memo \cap quiet : ~memo[f]
    /\ \A i \in DOMAIN frames : frames[i].field \in quiet => ~frames[i].found
    /\ \A i, j \in DOMAIN frames :
         i <= j /\ frames[j].field \in quiet => frames[i].field \in quiet

FlowInv ==
  /\ PackageOK
  /\ FlowTypeOK
  /\ Fresh
  /\ SearchedSoFar
  /\ AlongFlows
  /\ UnreadIsClosed
  /\ NoUnreadRing
  /\ QuietStaysUnread

FrameSet == [field : Fields, found : BOOLEAN, rest : SUBSET Fields]

-----------------------------------------------------------------------------

LEMMA PackageDecides ==
  ASSUME UNCHANGED pkg
  PROVE  /\ PackageOK' = PackageOK
         /\ \A f : UsedDirectly(f)' = UsedDirectly(f)
         /\ \A f : FlowDestinations(f)' = FlowDestinations(f)
         /\ \A f : CarrierFieldEscapes(f)' = CarrierFieldEscapes(f)
         /\ \A quiet : Quiet(quiet)' = Quiet(quiet)
BY DEF PackageOK, UsedDirectly, FlowDestinations, CarrierFieldEscapes, Quiet

LEMMA DestinationsAreFields ==
  ASSUME PackageOK, NEW f
  PROVE  FlowDestinations(f) \subseteq Fields
BY DEF PackageOK, FlowDestinations

LEMMA FrameTyped ==
  ASSUME PackageOK, NEW f \in Fields
  PROVE  /\ Frame(f) \in FrameSet
         /\ Frame(f).field = f /\ Frame(f).found = UsedDirectly(f)
         /\ Frame(f).rest = FlowDestinations(f)
<1>1. UsedDirectly(f) \in BOOLEAN
  BY DEF UsedDirectly
<1> QED BY <1>1, DestinationsAreFields DEF Frame, FrameSet

LEMMA FramesTyped == FlowTypeOK => frames \in Seq(FrameSet)
BY DEF FlowTypeOK, FrameSet

\* The sequences the three kinds of steps leave.
LEMMA Pushed ==
  ASSUME NEW S, NEW s \in Seq(S), NEW e \in S
  PROVE  /\ <<e>> \o s \in Seq(S)
         /\ DOMAIN (<<e>> \o s) = 1..(Len(s) + 1)
         /\ (<<e>> \o s)[1] = e
         /\ \A i \in DOMAIN s : i + 1 \in DOMAIN (<<e>> \o s) /\ (<<e>> \o s)[i + 1] = s[i]
         /\ \A i \in DOMAIN (<<e>> \o s) : i # 1 => i - 1 \in DOMAIN s /\ (<<e>> \o s)[i] = s[i - 1]
OBVIOUS

LEMMA Popped ==
  ASSUME NEW S, NEW s \in Seq(S), s # <<>>
  PROVE  /\ Head(s) \in S /\ Head(s) = s[1] /\ 1 \in DOMAIN s
         /\ Tail(s) \in Seq(S)
         /\ \A i \in DOMAIN Tail(s) : i + 1 \in DOMAIN s /\ Tail(s)[i] = s[i + 1]
OBVIOUS

LEMMA HeadChanged ==
  ASSUME NEW S, NEW s \in Seq(S), s # <<>>, NEW e \in S
  PROVE  /\ [s EXCEPT ![1] = e] \in Seq(S)
         /\ DOMAIN [s EXCEPT ![1] = e] = DOMAIN s
         /\ [s EXCEPT ![1] = e][1] = e
         /\ \A i \in DOMAIN s : i # 1 => [s EXCEPT ![1] = e][i] = s[i]
OBVIOUS

-----------------------------------------------------------------------------

\* A search begins, for a candidate or on behalf of the innermost one.
LEMMA PushKeeps ==
  ASSUME FlowInv, UNCHANGED <<pkg, memo>>, asked' \subseteq Fields,
         NEW d \in Fields, ~Known(d),
         frames' = <<Frame(d)>> \o frames,
         frames # <<>> => d \in FlowDestinations(frames[1].field)
  PROVE  FlowInv'
<1>1. frames \in Seq(FrameSet) /\ Frame(d) \in FrameSet
  BY FrameTyped DEF FlowInv, FlowTypeOK, FrameSet
<1>2. /\ frames' \in Seq(FrameSet)
      /\ DOMAIN frames' = 1..(Len(frames) + 1)
      /\ frames'[1] = Frame(d)
      /\ \A i \in DOMAIN frames : i + 1 \in DOMAIN frames' /\ frames'[i + 1] = frames[i]
      /\ \A i \in DOMAIN frames' : i # 1 => i - 1 \in DOMAIN frames /\ frames'[i] = frames[i - 1]
  BY <1>1, Pushed
<1>3. /\ Frame(d).field = d /\ Frame(d).found = UsedDirectly(d)
      /\ Frame(d).rest = FlowDestinations(d)
  BY FrameTyped DEF FlowInv
<1>4. d \notin DOMAIN memo /\ ~CarrierFieldEscapes(d) /\ \A i \in DOMAIN frames : frames[i].field # d
  BY DEF Known, Visiting
<1>5. DOMAIN frames = 1..Len(frames) /\ Len(frames) \in Nat
  BY <1>1
<1>6. PackageOK' /\ FlowTypeOK'
  BY <1>2, PackageDecides DEF FlowInv, FlowTypeOK, FrameSet
<1>7. Fresh'
  <2>1. \A i \in DOMAIN frames' : frames'[i].field \notin DOMAIN memo
                                  /\ ~CarrierFieldEscapes(frames'[i].field)
    BY <1>2, <1>3, <1>4 DEF FlowInv, Fresh
  <2>2. \A i, j \in DOMAIN frames' : frames'[i].field = frames'[j].field => i = j
    BY <1>2, <1>3, <1>4, <1>5 DEF FlowInv, Fresh
  <2> QED BY <2>1, <2>2, PackageDecides DEF FlowInv, Fresh
<1>8. SearchedSoFar'
  <2>1. \A e : SettledUnread(e)' = SettledUnread(e)
    BY PackageDecides DEF SettledUnread
  <2> QED BY <1>2, <1>3, <2>1, PackageDecides DEF FlowInv, SearchedSoFar
<1>9. AlongFlows'
  <2>1. \A i \in DOMAIN frames' : frames'[i].rest \subseteq FlowDestinations(frames'[i].field)
    BY <1>2, <1>3 DEF FlowInv, AlongFlows
  <2>2. ASSUME NEW i \in DOMAIN frames', i + 1 \in DOMAIN frames'
        PROVE  frames'[i].field \in FlowDestinations(frames'[i + 1].field)
    <3>1. CASE i = 1
      <4>1. 1 \in DOMAIN frames /\ frames'[2] = frames[1] /\ frames # <<>>
        BY <1>2, <1>5, <2>2, <3>1
      <4> QED BY <1>2, <1>3, <3>1, <4>1
    <3>2. CASE i # 1
      <4>1. i - 1 \in DOMAIN frames /\ i \in DOMAIN frames /\ (i - 1) + 1 = i
            /\ frames'[i] = frames[i - 1] /\ frames'[i + 1] = frames[i]
        BY <1>2, <1>5, <2>2, <3>2
      <4> QED BY <4>1 DEF FlowInv, AlongFlows
    <3> QED BY <3>1, <3>2
  <2> QED BY <2>1, <2>2, PackageDecides DEF AlongFlows
<1>10. UnreadIsClosed' /\ NoUnreadRing'
  BY PackageDecides DEF FlowInv, UnreadIsClosed, NoUnreadRing, Unread
<1>11. QuietStaysUnread'
  <2> SUFFICES ASSUME NEW quiet \in SUBSET Fields, Quiet(quiet)
               PROVE  /\ \A f \in DOMAIN memo \cap quiet : ~memo[f]
                      /\ \A i \in DOMAIN frames' : frames'[i].field \in quiet => ~frames'[i].found
                      /\ \A i, j \in DOMAIN frames' :
                           i <= j /\ frames'[j].field \in quiet => frames'[i].field \in quiet
    BY PackageDecides DEF QuietStaysUnread
  <2>1. \A f \in DOMAIN memo \cap quiet : ~memo[f]
    BY DEF FlowInv, QuietStaysUnread
  <2>2. \A i \in DOMAIN frames' : frames'[i].field \in quiet => ~frames'[i].found
    <3>1. frames'[1].field \in quiet => ~frames'[1].found
      BY <1>2, <1>3 DEF Quiet
    <3>2. \A i \in DOMAIN frames : frames[i].field \in quiet => ~frames[i].found
      BY DEF FlowInv, QuietStaysUnread
    <3> QED BY <1>2, <3>1, <3>2
  <2>3. ASSUME NEW i \in DOMAIN frames', NEW j \in DOMAIN frames',
               i <= j, frames'[j].field \in quiet
        PROVE  frames'[i].field \in quiet
    <3>1. CASE i # 1
      <4>1. i - 1 \in DOMAIN frames /\ j - 1 \in DOMAIN frames /\ i - 1 <= j - 1
            /\ frames'[i] = frames[i - 1] /\ frames'[j] = frames[j - 1]
        BY <1>2, <1>5, <2>3, <3>1
      <4> QED BY <2>3, <4>1 DEF FlowInv, QuietStaysUnread
    <3>2. CASE i = 1 /\ j # 1
      <4>1. 1 \in DOMAIN frames /\ j - 1 \in DOMAIN frames /\ 1 <= j - 1
            /\ frames'[j] = frames[j - 1] /\ frames # <<>>
        BY <1>2, <1>5, <2>3, <3>2
      <4>2. frames[1].field \in quiet
        BY <2>3, <4>1 DEF FlowInv, QuietStaysUnread
      <4> QED BY <1>2, <1>3, <3>2, <4>1, <4>2 DEF Quiet
    <3>3. CASE i = 1 /\ j = 1
      BY <2>3, <3>3
    <3> QED BY <3>1, <3>2, <3>3
  <2> QED BY <2>1, <2>2, <2>3
<1> QED BY <1>6, <1>7, <1>8, <1>9, <1>10, <1>11 DEF FlowInv

LEMMA AskKeeps ==
  ASSUME FlowInv, NEW f \in Fields, Ask(f)
  PROVE  FlowInv'
<1>1. frames = <<>> /\ UNCHANGED <<pkg, memo>> /\ asked' = asked \cup {f} /\ asked' \subseteq Fields
  BY DEF Ask, FlowInv, FlowTypeOK
<1>2. CASE Known(f)
  <2>1. frames' = frames
    BY <1>1, <1>2 DEF Ask
  <2> QED BY <1>1, <2>1, PackageDecides
          DEF FlowInv, FlowTypeOK, Fresh, SearchedSoFar, SettledUnread, AlongFlows,
              UnreadIsClosed, NoUnreadRing, Unread, QuietStaysUnread
<1>3. CASE ~Known(f)
  <2>1. frames' = <<Frame(f)>> /\ Frame(f) \in FrameSet
    BY <1>3, FrameTyped DEF Ask, FlowInv
  <2>2. <<Frame(f)>> = <<Frame(f)>> \o <<>>
    BY <2>1
  <2> QED BY <1>1, <1>3, <2>1, <2>2, PushKeeps
<1> QED BY <1>2, <1>3

-----------------------------------------------------------------------------

\* In a quiet set nothing that the search meets is taken for consumed.
LEMMA QuietAnswer ==
  ASSUME FlowInv, frames # <<>>, NEW d, d \in Head(frames).rest,
         NEW quiet \in SUBSET Fields, Quiet(quiet), frames[1].field \in quiet
  PROVE  ~Answer(d)
<1>1. frames \in Seq(FrameSet) /\ Head(frames) = frames[1] /\ 1 \in DOMAIN frames
  BY Popped DEF FlowInv, FlowTypeOK, FrameSet
<1>2. d \in FlowDestinations(frames[1].field) /\ d \in quiet
  BY <1>1 DEF FlowInv, AlongFlows, Quiet
<1>3. ~CarrierFieldEscapes(d) /\ (d \in DOMAIN memo => ~memo[d])
  BY <1>2 DEF FlowInv, QuietStaysUnread, Quiet
<1>4. ~Visiting(d)
  <2> SUFFICES ASSUME NEW k \in DOMAIN frames, frames[k].field = d PROVE FALSE
    BY DEF Visiting
  <2> DEFINE ring == {frames[i].field : i \in {j \in DOMAIN frames : j <= k}}
  <2>1. DOMAIN frames = 1..Len(frames) /\ Len(frames) \in Nat
    BY <1>1
  <2>2. ring \subseteq quiet
    BY <1>2 DEF FlowInv, QuietStaysUnread
  <2>3. d \in ring
    BY <2>1
  <2>4. PICK g \in ring : FlowDestinations(g) \cap ring = {}
    BY <2>2, <2>3 DEF Quiet
  <2>5. PICK i \in DOMAIN frames : i <= k /\ frames[i].field = g
    BY <2>4
  <2>6. i # 1
    BY <1>2, <2>3, <2>4, <2>5
  <2>7. i - 1 \in DOMAIN frames /\ (i - 1) + 1 = i /\ i - 1 <= k
    BY <2>1, <2>5, <2>6
  <2>8. frames[i - 1].field \in FlowDestinations(frames[i].field)
    BY <2>5, <2>7 DEF FlowInv, AlongFlows
  <2>9. frames[i - 1].field \in ring
    BY <2>7
  <2> QED BY <2>4, <2>5, <2>8, <2>9
<1> QED BY <1>3, <1>4 DEF Answer

LEMMA FollowKeeps ==
  ASSUME FlowInv, NEW d \in Fields, Follow(d)
  PROVE  FlowInv'
<1>1. /\ frames # <<>> /\ ~Head(frames).found /\ d \in Head(frames).rest
      /\ UNCHANGED <<pkg, asked, memo>>
  BY DEF Follow
<1>2. /\ frames \in Seq(FrameSet) /\ frames[1] \in FrameSet
      /\ Head(frames) = frames[1] /\ 1 \in DOMAIN frames
  BY <1>1, FramesTyped, Popped DEF FlowInv
<1>3. d \in FlowDestinations(frames[1].field)
  BY <1>1, <1>2 DEF FlowInv, AlongFlows
<1>4. CASE ~Known(d)
  <2>1. frames' = <<Frame(d)>> \o frames
    BY <1>4 DEF Follow
  <2>2. asked' \subseteq Fields
    BY <1>1 DEF FlowInv, FlowTypeOK
  <2> QED BY <1>1, <1>3, <1>4, <2>1, <2>2, PushKeeps
<1>5. CASE Known(d)
  <2> DEFINE top == [frames[1] EXCEPT !.rest = @ \ {d}, !.found = Answer(d)]
  <2>1. Answer(d) \in BOOLEAN
    BY <1>5 DEF Answer, Known, CarrierFieldEscapes, Visiting, FlowInv, FlowTypeOK
  <2>2. /\ top \in FrameSet /\ top.field = frames[1].field
        /\ top.found = Answer(d) /\ top.rest = frames[1].rest \ {d}
    BY <1>2, <2>1 DEF FrameSet
  <2>3. frames' = [frames EXCEPT ![1] = top]
    BY <1>2, <1>5 DEF Follow
  <2> HIDE DEF top
  <2>4. /\ frames' \in Seq(FrameSet) /\ DOMAIN frames' = DOMAIN frames /\ frames'[1] = top
        /\ \A i \in DOMAIN frames : i # 1 => frames'[i] = frames[i]
    BY <1>1, <1>2, <2>2, <2>3, HeadChanged
  <2>5. \A i \in DOMAIN frames : frames'[i].field = frames[i].field
    BY <2>2, <2>4
  <2>6. PackageOK' /\ FlowTypeOK'
    BY <1>1, <2>4, PackageDecides DEF FlowInv, FlowTypeOK, FrameSet
  <2>7. Fresh'
    BY <1>1, <2>4, <2>5, PackageDecides DEF FlowInv, Fresh
  <2>8. SearchedSoFar'
    <3>1. \A e : SettledUnread(e)' = SettledUnread(e)
      BY <1>1, PackageDecides DEF SettledUnread
    <3>2. ~Answer(d) => SettledUnread(d)
      BY <1>5 DEF Answer, Known, SettledUnread
    <3>3. ASSUME NEW i \in DOMAIN frames, ~frames'[i].found
          PROVE  /\ ~UsedDirectly(frames[i].field)
                 /\ \A e \in FlowDestinations(frames[i].field) \ frames'[i].rest : SettledUnread(e)
      <4>1. CASE i = 1
        BY <1>1, <1>2, <2>2, <2>4, <3>2, <3>3, <4>1 DEF FlowInv, SearchedSoFar
      <4>2. CASE i # 1
        BY <2>4, <3>3, <4>2 DEF FlowInv, SearchedSoFar
      <4> QED BY <4>1, <4>2
    <3> QED BY <1>1, <2>4, <2>5, <3>1, <3>3, PackageDecides DEF SearchedSoFar
  <2>9. AlongFlows'
    <3>1. \A i \in DOMAIN frames : frames'[i].rest \subseteq frames[i].rest
      BY <2>2, <2>4
    <3> QED BY <1>1, <2>4, <2>5, <3>1, PackageDecides DEF FlowInv, AlongFlows
  <2>10. UnreadIsClosed' /\ NoUnreadRing'
    BY <1>1, PackageDecides DEF FlowInv, UnreadIsClosed, NoUnreadRing, Unread
  <2>11. QuietStaysUnread'
    <3> SUFFICES ASSUME NEW quiet \in SUBSET Fields, Quiet(quiet)
                 PROVE  /\ \A f \in DOMAIN memo \cap quiet : ~memo[f]
                        /\ \A i \in DOMAIN frames : frames[i].field \in quiet => ~frames'[i].found
                        /\ \A i, j \in DOMAIN frames :
                             i <= j /\ frames[j].field \in quiet => frames[i].field \in quiet
      BY <1>1, <2>4, <2>5, PackageDecides DEF QuietStaysUnread
    <3>1. frames[1].field \in quiet => ~frames'[1].found
      BY <1>1, <2>2, <2>4, QuietAnswer
    <3> QED BY <2>4, <3>1 DEF FlowInv, QuietStaysUnread
  <2> QED BY <2>6, <2>7, <2>8, <2>9, <2>10, <2>11 DEF FlowInv
<1> QED BY <1>4, <1>5

-----------------------------------------------------------------------------

LEMMA RememberKeeps ==
  ASSUME FlowInv, Remember
  PROVE  FlowInv'
<1> DEFINE top == frames[1]
<1>1. /\ frames \in Seq(FrameSet) /\ top \in FrameSet
      /\ Head(frames) = top /\ 1 \in DOMAIN frames
      /\ frames' = Tail(frames) /\ frames' \in Seq(FrameSet)
      /\ \A i \in DOMAIN frames' : i + 1 \in DOMAIN frames /\ frames'[i] = frames[i + 1]
  <2>1. frames \in Seq(FrameSet) /\ frames # <<>> /\ frames' = Tail(frames)
    BY FramesTyped DEF FlowInv, Remember
  <2> QED BY <2>1, Popped
<1>2. /\ UNCHANGED <<pkg, asked>>
      /\ memo' = [f \in DOMAIN memo \cup {top.field} |-> IF f = top.field THEN top.found ELSE memo[f]]
      /\ top.found \/ top.rest = {}
  BY <1>1 DEF Remember
<1>3. /\ top.field \notin DOMAIN memo /\ top.field \in Fields /\ top.found \in BOOLEAN
      /\ DOMAIN memo' = DOMAIN memo \cup {top.field}
      /\ memo'[top.field] = top.found
      /\ \A f \in DOMAIN memo : memo'[f] = memo[f]
  BY <1>1, <1>2 DEF FlowInv, Fresh, FrameSet
<1>4. DOMAIN frames = 1..Len(frames) /\ Len(frames) \in Nat
      /\ \A i \in DOMAIN frames' : i \in Nat
  BY <1>1
<1>5. \A i \in DOMAIN frames' : frames'[i].field # top.field
  BY <1>1, <1>4 DEF FlowInv, Fresh
<1>6. ~top.found =>
        /\ ~UsedDirectly(top.field)
        /\ \A d \in FlowDestinations(top.field) : SettledUnread(d)
  BY <1>1, <1>2 DEF FlowInv, SearchedSoFar
<1>7. \A d : SettledUnread(d) => SettledUnread(d)'
  BY <1>2, <1>3, PackageDecides DEF SettledUnread
<1> HIDE DEF top
<1>8. PackageOK' /\ FlowTypeOK'
  <2>1. memo' \in [DOMAIN memo' -> BOOLEAN]
    BY <1>2, <1>3 DEF FlowInv, FlowTypeOK
  <2> QED BY <1>1, <1>2, <1>3, <2>1, PackageDecides DEF FlowInv, FlowTypeOK, FrameSet
<1>9. Fresh'
  <2>1. \A i \in DOMAIN frames' : frames'[i].field \notin DOMAIN memo'
                                  /\ ~CarrierFieldEscapes(frames'[i].field)
    BY <1>1, <1>3, <1>5 DEF FlowInv, Fresh
  <2>2. \A i, j \in DOMAIN frames' : frames'[i].field = frames'[j].field => i = j
    BY <1>1, <1>4 DEF FlowInv, Fresh
  <2>3. \A f \in DOMAIN memo' : ~CarrierFieldEscapes(f)
    BY <1>1, <1>3 DEF FlowInv, Fresh, top
  <2> QED BY <1>2, <2>1, <2>2, <2>3, PackageDecides DEF Fresh
<1>10. SearchedSoFar'
  <2>1. \A i \in DOMAIN frames' : ~frames'[i].found =>
          /\ ~UsedDirectly(frames'[i].field)
          /\ \A d \in FlowDestinations(frames'[i].field) \ frames'[i].rest : SettledUnread(d)
    BY <1>1 DEF FlowInv, SearchedSoFar
  <2> QED BY <1>2, <1>7, <2>1, PackageDecides DEF SearchedSoFar
<1>11. AlongFlows'
  <2>1. \A i \in DOMAIN frames' : frames'[i].rest \subseteq FlowDestinations(frames'[i].field)
    BY <1>1 DEF FlowInv, AlongFlows
  <2>2. \A i \in DOMAIN frames' : i + 1 \in DOMAIN frames' =>
          frames'[i].field \in FlowDestinations(frames'[i + 1].field)
    BY <1>1, <1>4 DEF FlowInv, AlongFlows
  <2> QED BY <1>2, <2>1, <2>2, PackageDecides DEF AlongFlows
<1>12. UnreadIsClosed'
  <2>1. ASSUME NEW f \in DOMAIN memo', ~memo'[f]
        PROVE  ~UsedDirectly(f) /\ \A d \in FlowDestinations(f) : SettledUnread(d)
    <3>1. CASE f = top.field
      BY <1>3, <1>6, <2>1, <3>1
    <3>2. CASE f # top.field
      BY <1>3, <2>1, <3>2 DEF FlowInv, UnreadIsClosed, SettledUnread
    <3> QED BY <3>1, <3>2
  <2> QED BY <1>2, <1>7, <2>1, PackageDecides DEF UnreadIsClosed, SettledUnread
<1>13. NoUnreadRing'
  <2> SUFFICES ASSUME NEW ring, ring \subseteq Unread', ring # {}
               PROVE  \E g \in ring : FlowDestinations(g) \cap ring = {}
    <3>1. \A g : FlowDestinations(g)' = FlowDestinations(g)
      BY <1>2, PackageDecides
    <3>2. NoUnreadRing' <=>
            \A ring \in (SUBSET Unread') \ {{}} : \E g \in ring : FlowDestinations(g)' \cap ring = {}
      BY DEF NoUnreadRing
    <3> QED BY <3>1, <3>2
  <2>1. Unread \subseteq Unread' /\ Unread' \subseteq Unread \cup {top.field}
    BY <1>3 DEF Unread
  <2>2. \A g \in Unread : FlowDestinations(g) \subseteq DOMAIN memo
    BY DEF FlowInv, UnreadIsClosed, Unread
  <2>3. CASE ring \ {top.field} = {}
    <3>1. ring = {top.field} /\ ~top.found
      BY <1>3, <2>3 DEF Unread
    <3>2. top.field \notin FlowDestinations(top.field)
      BY <1>3, <1>6, <3>1 DEF SettledUnread
    <3> QED BY <3>1, <3>2
  <2>4. CASE ring \ {top.field} # {}
    <3>1. ring \ {top.field} \subseteq Unread
      BY <2>1
    <3>2. PICK g \in ring \ {top.field} : FlowDestinations(g) \cap (ring \ {top.field}) = {}
      BY <2>4, <3>1 DEF FlowInv, NoUnreadRing
    <3>3. top.field \notin FlowDestinations(g)
      BY <1>3, <2>2, <3>1, <3>2
    <3> QED BY <3>2, <3>3
  <2> QED BY <2>3, <2>4
<1>14. QuietStaysUnread'
  <2> SUFFICES ASSUME NEW quiet \in SUBSET Fields, Quiet(quiet)
               PROVE  /\ \A f \in DOMAIN memo' \cap quiet : ~memo'[f]
                      /\ \A i \in DOMAIN frames' : frames'[i].field \in quiet => ~frames'[i].found
                      /\ \A i, j \in DOMAIN frames' :
                           i <= j /\ frames'[j].field \in quiet => frames'[i].field \in quiet
    BY <1>2, PackageDecides DEF QuietStaysUnread
  <2>1. \A f \in DOMAIN memo' \cap quiet : ~memo'[f]
    <3>1. top.field \in quiet => ~top.found
      BY <1>1 DEF FlowInv, QuietStaysUnread, top
    <3> QED BY <1>3, <3>1 DEF FlowInv, QuietStaysUnread
  <2>2. \A i \in DOMAIN frames' : frames'[i].field \in quiet => ~frames'[i].found
    BY <1>1 DEF FlowInv, QuietStaysUnread
  <2>3. \A i, j \in DOMAIN frames' :
          i <= j /\ frames'[j].field \in quiet => frames'[i].field \in quiet
    BY <1>1, <1>4 DEF FlowInv, QuietStaysUnread
  <2> QED BY <2>1, <2>2, <2>3
<1> QED BY <1>8, <1>9, <1>10, <1>11, <1>12, <1>13, <1>14 DEF FlowInv

-----------------------------------------------------------------------------

\* The invariant of the search, for any package and struct fields.
THEOREM FlowInvariance == PackageOK /\ FlowSpec => []FlowInv
<1>1. PackageOK /\ FlowInit => FlowInv
  <2> SUFFICES ASSUME PackageOK, FlowInit PROVE FlowInv
    OBVIOUS
  <2>1. asked = {} /\ frames = <<>> /\ memo = <<>> /\ DOMAIN memo = {} /\ DOMAIN frames = {}
    BY DEF FlowInit
  <2>2. FlowTypeOK
    <3>1. memo \in [DOMAIN memo -> BOOLEAN]
      BY <2>1
    <3> QED BY <2>1, <3>1 DEF FlowTypeOK
  <2>3. Fresh /\ SearchedSoFar /\ AlongFlows /\ UnreadIsClosed /\ QuietStaysUnread
    BY <2>1 DEF Fresh, SearchedSoFar, AlongFlows, UnreadIsClosed, QuietStaysUnread
  <2>4. NoUnreadRing
    BY <2>1 DEF NoUnreadRing, Unread
  <2> QED BY <2>2, <2>3, <2>4 DEF FlowInv
<1>2. FlowInv /\ [FlowNext]_flowVars => FlowInv'
  <2> SUFFICES ASSUME FlowInv, [FlowNext]_flowVars PROVE FlowInv'
    OBVIOUS
  <2>1. CASE UNCHANGED flowVars
    BY <2>1, PackageDecides
       DEF flowVars, FlowInv, FlowTypeOK, Fresh, SearchedSoFar, SettledUnread, AlongFlows,
           UnreadIsClosed, NoUnreadRing, Unread, QuietStaysUnread
  <2> QED BY <2>1, AskKeeps, FollowKeeps, RememberKeeps DEF FlowNext
<1> QED BY <1>1, <1>2, PTL DEF FlowSpec

\* The answers agree with each other for every package: what is remembered as
\* unread is used by no selector of the package, escapes from it in no carrier,
\* and flows only into what is remembered as unread (isp_consumer.go:496-529).
\* What other packages do with the fields of theirs is outside the search.
THEOREM UnreadClosed == PackageOK /\ FlowSpec => []UnreadIsClosed
<1>1. FlowInv => UnreadIsClosed
  BY DEF FlowInv
<1> QED BY <1>1, FlowInvariance, PTL

\* An answer found in the middle of a circle of flows is the same as any other
\* (isp_consumer.go:496): the order of the walks decides nothing.
THEOREM MemoOrderless == PackageOK /\ FlowSpec => []MemoIsOrderless
<1>1. FlowInv => MemoIsOrderless
  <2> SUFFICES ASSUME FlowInv, NEW f \in DOMAIN memo
               PROVE  memo[f] <=> ~NeverConsumed(f)
    BY DEF MemoIsOrderless
  <2>1. NeverConsumed(f) => ~memo[f]
    BY DEF FlowInv, QuietStaysUnread, NeverConsumed, Quiet
  <2>2. ASSUME ~memo[f] PROVE NeverConsumed(f)
    <3>1. f \in Unread /\ Unread \in SUBSET Fields
      BY <2>2 DEF Unread, FlowInv, FlowTypeOK
    <3>2. \A g \in Unread :
            /\ ~UsedDirectly(g) /\ ~CarrierFieldEscapes(g)
            /\ FlowDestinations(g) \subseteq Unread
      BY DEF FlowInv, UnreadIsClosed, Fresh, Unread
    <3>3. \A ring \in (SUBSET Unread) \ {{}} : \E g \in ring : FlowDestinations(g) \cap ring = {}
      BY DEF FlowInv, NoUnreadRing
    <3> QED BY <3>1, <3>2, <3>3 DEF NeverConsumed
  <2>3. memo[f] \in BOOLEAN
    BY DEF FlowInv, FlowTypeOK
  <2> QED BY <2>1, <2>2, <2>3
<1> QED BY <1>1, FlowInvariance, PTL

-----------------------------------------------------------------------------
(***************************************************************************)
(* The search ends.  Flows may go in circles, and a field met again in the *)
(* middle of its own search stays among those to be followed until it is   *)
(* answered; but a step always leaves fewer fields to ask about, to begin  *)
(* with or to answer, or fewer flows to follow.                            *)
(***************************************************************************)
FiniteFields == IsFiniteSet(Fields)

ToAsk == Fields \ asked
ToEnter == {f \in Fields : f \notin DOMAIN memo /\ ~Visiting(f)}
ToAnswer == Fields \ DOMAIN memo
ToFollow ==
  {p \in Fields \X Fields :
    /\ p[1] \notin DOMAIN memo
    /\ \A i \in DOMAIN frames : frames[i].field = p[1] => p[2] \in frames[i].rest}

SearchLeft ==
  Cardinality(ToAsk) + Cardinality(ToEnter) + Cardinality(ToAnswer) + Cardinality(ToFollow)
MostSearch == 3 * Cardinality(Fields) + Cardinality(Fields) * Cardinality(Fields)

NothingMoreToSearch ==
  /\ ToAsk' \subseteq ToAsk /\ ToEnter' \subseteq ToEnter
  /\ ToAnswer' \subseteq ToAnswer /\ ToFollow' \subseteq ToFollow
LessToSearch ==
  ToAsk' # ToAsk \/ ToEnter' # ToEnter \/ ToAnswer' # ToAnswer \/ ToFollow' # ToFollow

LEMMA SearchIsFinite ==
  ASSUME FiniteFields
  PROVE  /\ IsFiniteSet(ToAsk) /\ IsFiniteSet(ToEnter) /\ IsFiniteSet(ToAnswer)
         /\ IsFiniteSet(ToFollow)
         /\ Cardinality(ToAsk) \in Nat /\ Cardinality(ToEnter) \in Nat
         /\ Cardinality(ToAnswer) \in Nat /\ Cardinality(ToFollow) \in Nat
         /\ SearchLeft \in 0..MostSearch
<1> DEFINE n == Cardinality(Fields)
<1>1. /\ ToAsk \in SUBSET Fields /\ ToEnter \in SUBSET Fields /\ ToAnswer \in SUBSET Fields
      /\ ToFollow \in SUBSET (Fields \X Fields)
  BY DEF ToAsk, ToEnter, ToAnswer, ToFollow
<1>2. IsFiniteSet(Fields) /\ n \in Nat
  BY FS_CardinalityType DEF FiniteFields
<1>3. IsFiniteSet(Fields \X Fields) /\ Cardinality(Fields \X Fields) = n * n
  BY <1>2, FS_Product
<1> HIDE DEF n
<1>4. /\ IsFiniteSet(ToAsk) /\ Cardinality(ToAsk) <= n
      /\ IsFiniteSet(ToEnter) /\ Cardinality(ToEnter) <= n
      /\ IsFiniteSet(ToAnswer) /\ Cardinality(ToAnswer) <= n
  BY <1>1, <1>2, FS_Subset DEF n
<1>5. IsFiniteSet(ToFollow) /\ Cardinality(ToFollow) <= n * n
  BY <1>1, <1>3, FS_Subset
<1>6. /\ Cardinality(ToAsk) \in Nat /\ Cardinality(ToEnter) \in Nat
      /\ Cardinality(ToAnswer) \in Nat /\ Cardinality(ToFollow) \in Nat
  BY <1>4, <1>5, FS_CardinalityType
<1>7. n * n \in Nat
  BY <1>2
<1>8. SearchLeft \in 0..(3 * n + n * n)
  <2> DEFINE nn == n * n
  <2>1. nn \in Nat /\ Cardinality(ToFollow) <= nn
    BY <1>5, <1>7
  <2> HIDE DEF nn
  <2>2. SearchLeft \in 0..(3 * n + nn)
    BY <1>2, <1>4, <1>6, <2>1 DEF SearchLeft
  <2> QED
    BY <2>2 DEF nn
<1> QED
  BY <1>4, <1>5, <1>6, <1>8 DEF MostSearch, n

LEMMA LessIsLeft ==
  ASSUME FiniteFields, NothingMoreToSearch, LessToSearch
  PROVE  SearchLeft' < SearchLeft
<1>1. ASSUME NEW S, NEW T, IsFiniteSet(S), T \subseteq S
      PROVE  /\ IsFiniteSet(T) /\ Cardinality(T) <= Cardinality(S)
             /\ T # S => Cardinality(T) # Cardinality(S)
  BY <1>1, FS_Subset
<1>2. /\ Cardinality(ToAsk') <= Cardinality(ToAsk)
      /\ ToAsk' # ToAsk => Cardinality(ToAsk') # Cardinality(ToAsk)
      /\ IsFiniteSet(ToAsk')
  BY <1>1, SearchIsFinite DEF NothingMoreToSearch
<1>3. /\ Cardinality(ToEnter') <= Cardinality(ToEnter)
      /\ ToEnter' # ToEnter => Cardinality(ToEnter') # Cardinality(ToEnter)
      /\ IsFiniteSet(ToEnter')
  BY <1>1, SearchIsFinite DEF NothingMoreToSearch
<1>4. /\ Cardinality(ToAnswer') <= Cardinality(ToAnswer)
      /\ ToAnswer' # ToAnswer => Cardinality(ToAnswer') # Cardinality(ToAnswer)
      /\ IsFiniteSet(ToAnswer')
  BY <1>1, SearchIsFinite DEF NothingMoreToSearch
<1>5. /\ Cardinality(ToFollow') <= Cardinality(ToFollow)
      /\ ToFollow' # ToFollow => Cardinality(ToFollow') # Cardinality(ToFollow)
      /\ IsFiniteSet(ToFollow')
  BY <1>1, SearchIsFinite DEF NothingMoreToSearch
<1>6. /\ Cardinality(ToAsk') \in Nat /\ Cardinality(ToEnter') \in Nat
      /\ Cardinality(ToAnswer') \in Nat /\ Cardinality(ToFollow') \in Nat
  BY <1>2, <1>3, <1>4, <1>5, FS_CardinalityType
<1>7. SearchLeft' = Cardinality(ToAsk') + Cardinality(ToEnter')
                      + Cardinality(ToAnswer') + Cardinality(ToFollow')
  BY DEF SearchLeft
<1> QED
  BY <1>2, <1>3, <1>4, <1>5, <1>6, <1>7, SearchIsFinite DEF SearchLeft, LessToSearch

\* A search that begins is one less to begin, and its flows are not all that
\* there might have been.
LEMMA PushTakesOff ==
  ASSUME FlowInv, UNCHANGED <<pkg, memo>>, asked \subseteq asked',
         NEW d \in Fields, ~Known(d), frames' = <<Frame(d)>> \o frames
  PROVE  NothingMoreToSearch /\ LessToSearch
<1>1. frames \in Seq(FrameSet) /\ Frame(d) \in FrameSet /\ Frame(d).field = d
  BY FrameTyped DEF FlowInv, FlowTypeOK, FrameSet
<1>2. /\ 1 \in DOMAIN frames' /\ frames'[1] = Frame(d)
      /\ \A i \in DOMAIN frames : i + 1 \in DOMAIN frames' /\ frames'[i + 1] = frames[i]
      /\ \A i \in DOMAIN frames' : i # 1 => i - 1 \in DOMAIN frames /\ frames'[i] = frames[i - 1]
  <2>1. 1 \in 1..(Len(frames) + 1)
    BY <1>1
  <2> QED
    BY <1>1, <2>1, Pushed
<1>3. ToAsk' \subseteq ToAsk /\ ToAnswer' = ToAnswer
  BY DEF ToAsk, ToAnswer
<1>4. ToEnter' \subseteq ToEnter /\ d \in ToEnter /\ d \notin ToEnter'
  <2>1. ASSUME NEW f \in Fields, Visiting(f) PROVE Visiting(f)'
    <3>1. PICK i \in DOMAIN frames : frames[i].field = f
      BY <2>1 DEF Visiting
    <3>2. i + 1 \in DOMAIN frames' /\ frames'[i + 1] = frames[i]
      BY <1>2
    <3> QED
      BY <3>1, <3>2 DEF Visiting
  <2>2. d \notin DOMAIN memo /\ ~Visiting(d)
    BY DEF Known
  <2>3. Visiting(d)'
    BY <1>1, <1>2 DEF Visiting
  <2> QED
    BY <2>1, <2>2, <2>3 DEF ToEnter
<1>5. ToFollow' \subseteq ToFollow
  <2> SUFFICES ASSUME NEW p \in ToFollow' PROVE p \in ToFollow
    OBVIOUS
  <2>1. /\ p \in Fields \X Fields /\ p[1] \notin DOMAIN memo
        /\ \A i \in DOMAIN frames' : frames'[i].field = p[1] => p[2] \in frames'[i].rest
    BY DEF ToFollow
  <2>2. \A i \in DOMAIN frames : frames[i].field = p[1] => p[2] \in frames[i].rest
    <3> SUFFICES ASSUME NEW i \in DOMAIN frames, frames[i].field = p[1]
                 PROVE  p[2] \in frames[i].rest
      OBVIOUS
    <3>1. i + 1 \in DOMAIN frames' /\ frames'[i + 1] = frames[i]
      BY <1>2
    <3> QED
      BY <2>1, <3>1
  <2> QED
    BY <2>1, <2>2 DEF ToFollow
<1> QED
  BY <1>3, <1>4, <1>5 DEF NothingMoreToSearch, LessToSearch

LEMMA AskTakesOff ==
  ASSUME FlowInv, NEW f \in Fields, Ask(f)
  PROVE  NothingMoreToSearch /\ LessToSearch
<1>1. /\ frames = <<>> /\ UNCHANGED <<pkg, memo>>
      /\ asked' = asked \cup {f} /\ f \notin asked
      /\ frames' = IF Known(f) THEN <<>> ELSE <<Frame(f)>>
  BY DEF Ask
<1>2. CASE Known(f)
  <2>1. frames' = frames
    BY <1>1, <1>2
  <2>2. ToEnter' = ToEnter /\ ToAnswer' = ToAnswer /\ ToFollow' = ToFollow
    BY <1>1, <2>1 DEF ToEnter, ToAnswer, ToFollow, Visiting
  <2>3. ToAsk' \subseteq ToAsk /\ f \in ToAsk /\ f \notin ToAsk'
    BY <1>1 DEF ToAsk
  <2> QED
    BY <2>2, <2>3 DEF NothingMoreToSearch, LessToSearch
<1>3. CASE ~Known(f)
  <2>1. <<Frame(f)>> = <<Frame(f)>> \o frames
    BY <1>1
  <2>2. frames' = <<Frame(f)>> \o frames /\ asked \subseteq asked'
    BY <1>1, <1>3, <2>1
  <2> QED
    BY <1>1, <1>3, <2>2, PushTakesOff
<1> QED
  BY <1>2, <1>3

LEMMA FollowTakesOff ==
  ASSUME FlowInv, NEW d \in Fields, Follow(d)
  PROVE  NothingMoreToSearch /\ LessToSearch
<1>1. /\ frames # <<>> /\ d \in Head(frames).rest
      /\ UNCHANGED <<pkg, asked, memo>>
  BY DEF Follow
<1>2. /\ frames \in Seq(FrameSet) /\ frames[1] \in FrameSet
      /\ Head(frames) = frames[1] /\ 1 \in DOMAIN frames
  BY <1>1, FramesTyped, Popped DEF FlowInv
<1>3. CASE ~Known(d)
  <2>1. frames' = <<Frame(d)>> \o frames
    BY <1>3 DEF Follow
  <2> QED
    BY <1>1, <1>3, <2>1, PushTakesOff
<1>4. CASE Known(d)
  <2>1. frames' = [frames EXCEPT ![1].rest = @ \ {d}, ![1].found = Answer(d)]
    BY <1>4 DEF Follow
  <2>2. /\ DOMAIN frames' = DOMAIN frames
        /\ frames'[1].field = frames[1].field /\ frames'[1].rest = frames[1].rest \ {d}
        /\ \A i \in DOMAIN frames : i # 1 => frames'[i] = frames[i]
    BY <1>2, <2>1 DEF FrameSet
  <2>3. \A i \in DOMAIN frames :
          frames'[i].field = frames[i].field /\ frames'[i].rest \subseteq frames[i].rest
    BY <2>2
  <2>4. ToAsk' = ToAsk /\ ToAnswer' = ToAnswer /\ ToEnter' = ToEnter
    BY <1>1, <2>2, <2>3 DEF ToAsk, ToAnswer, ToEnter, Visiting
  <2>5. ToFollow' \subseteq ToFollow
    BY <1>1, <2>2, <2>3 DEF ToFollow
  <2>6. <<frames[1].field, d>> \in ToFollow
    <3>1. frames[1].field \in Fields /\ frames[1].field \notin DOMAIN memo
      BY <1>2 DEF FlowInv, Fresh, FrameSet
    <3>2. \A i \in DOMAIN frames : frames[i].field = frames[1].field => i = 1
      BY <1>2 DEF FlowInv, Fresh
    <3> QED
      BY <1>1, <1>2, <3>1, <3>2 DEF ToFollow
  <2>7. <<frames[1].field, d>> \notin ToFollow'
    BY <1>2, <2>2 DEF ToFollow
  <2> QED
    BY <2>4, <2>5, <2>6, <2>7 DEF NothingMoreToSearch, LessToSearch
<1> QED
  BY <1>3, <1>4

LEMMA RememberTakesOff ==
  ASSUME FlowInv, Remember
  PROVE  NothingMoreToSearch /\ LessToSearch
<1> DEFINE f == Head(frames).field
<1>1. /\ frames # <<>> /\ DOMAIN memo' = DOMAIN memo \cup {f} /\ frames' = Tail(frames)
      /\ UNCHANGED <<pkg, asked>>
  BY DEF Remember
<1>2. /\ frames \in Seq(FrameSet) /\ f \in Fields /\ f = frames[1].field /\ 1 \in DOMAIN frames
      /\ \A i \in DOMAIN frames' : i + 1 \in DOMAIN frames /\ frames'[i] = frames[i + 1]
      /\ \A i \in DOMAIN frames : i # 1 => i - 1 \in DOMAIN frames' /\ frames[i] = frames'[i - 1]
  <2>1. frames \in Seq(FrameSet)
    BY FramesTyped DEF FlowInv
  <2>2. Head(frames) \in FrameSet /\ Head(frames) = frames[1] /\ 1 \in DOMAIN frames
    BY <1>1, <2>1, Popped
  <2>3. \A i \in DOMAIN frames : i # 1 => i - 1 \in DOMAIN Tail(frames) /\ frames[i] = Tail(frames)[i - 1]
    BY <1>1, <2>1
  <2> QED
    BY <1>1, <2>1, <2>2, <2>3, Popped DEF FrameSet
<1>3. f \notin DOMAIN memo
  BY <1>2 DEF FlowInv, Fresh
<1> HIDE DEF f
<1>4. ToAsk' = ToAsk /\ ToAnswer' \subseteq ToAnswer /\ f \in ToAnswer /\ f \notin ToAnswer'
  BY <1>1, <1>2, <1>3 DEF ToAsk, ToAnswer
<1>5. ToEnter' \subseteq ToEnter
  <2> SUFFICES ASSUME NEW g \in Fields, g \notin DOMAIN memo', Visiting(g) PROVE Visiting(g)'
    BY <1>1 DEF ToEnter
  <2>1. PICK i \in DOMAIN frames : frames[i].field = g
    BY DEF Visiting
  <2>2. i # 1
    BY <1>1, <1>2, <2>1
  <2> QED
    BY <1>2, <2>1, <2>2 DEF Visiting
<1>6. ToFollow' \subseteq ToFollow
  <2> SUFFICES ASSUME NEW p \in ToFollow' PROVE p \in ToFollow
    OBVIOUS
  <2>1. /\ p \in Fields \X Fields /\ p[1] \notin DOMAIN memo /\ p[1] # f
        /\ \A i \in DOMAIN frames' : frames'[i].field = p[1] => p[2] \in frames'[i].rest
    BY <1>1 DEF ToFollow
  <2>2. \A i \in DOMAIN frames : frames[i].field = p[1] => p[2] \in frames[i].rest
    BY <1>2, <2>1
  <2> QED
    BY <2>1, <2>2 DEF ToFollow
<1> QED
  BY <1>4, <1>5, <1>6 DEF NothingMoreToSearch, LessToSearch

\* Every step of the search leaves less of it, and there is only so much: the
\* recursion of `consumed' comes to an end in any package, circles or not
\* (isp_consumer.go:496).
THEOREM SearchEnds ==
  PackageOK /\ FiniteFields /\ FlowSpec
    => [](SearchLeft \in 0..MostSearch) /\ [][SearchLeft' < SearchLeft]_flowVars
<1>1. FiniteFields => SearchLeft \in 0..MostSearch
  BY SearchIsFinite
<1>2. FlowInv /\ FiniteFields /\ [FlowNext]_flowVars => [SearchLeft' < SearchLeft]_flowVars
  BY AskTakesOff, FollowTakesOff, RememberTakesOff, LessIsLeft DEF FlowNext
<1>3. FiniteFields => FiniteFields'
  BY DEF FiniteFields
<1> QED
  BY <1>1, <1>2, <1>3, FlowInvariance, PTL DEF FlowSpec

=============================================================================
