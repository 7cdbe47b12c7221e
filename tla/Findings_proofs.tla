-------------------------- MODULE Findings_proofs --------------------------
(***************************************************************************)
(* Proofs about Findings: a selected check keeps all its findings through  *)
(* the groups of the plan, and a fingerprint names one finding.            *)
(***************************************************************************)
EXTENDS Findings, FiniteSetTheorems, SequenceTheorems, TLAPS

(***************************************************************************)
(* The plan.                                                               *)
(***************************************************************************)
(* The groups of a plan hand on the findings of the selected checks, all   *)
(* of them and no others, whichever check holds the runner                 *)
(* (plan.go:31-66, 123-150).                                               *)
THEOREM PlanReportsSelection ==
  ASSUME NEW s, NEW issues, \A i \in issues : i.check \in CheckIDs
  PROVE  UNION {GroupIssues(issues, g) : g \in PlanGroups(s)}
           = {i \in issues : i.check \in PlanChecks(s)}
<1> DEFINE G(id) ==
      [name |-> CheckByID[id].group, scope |-> CheckByID[id].scope,
       checks |-> {c \in PlanChecks(s) : CheckByID[c].group = CheckByID[id].group}]
<1>1. \A id \in CheckIDs : CheckByID[id] \in RegistryRows /\ CheckByID[id].id = id
  BY RegistryAssumption DEF CheckIDs, CheckByID
<1>2. PlanChecks(s) \subseteq CheckIDs
  BY DEF PlanChecks, ResolveCheckSelection
<1>3. ASSUME NEW id \in PlanChecks(s)
      PROVE  RunnerForGroup(G(id)) # {}
  <2>1. PICK q \in RegistryRows : q.group = CheckByID[id].group /\ q.runner
    BY <1>1, <1>2, RegistryAssumption
  <2>2. q.id \in CheckIDs /\ CheckByID[q.id] = q
    BY <1>1, RegistryAssumption DEF CheckIDs
  <2>3. q.scope = CheckByID[id].scope
    BY <2>1, <1>1, <1>2, RegistryAssumption
  <2>4. q.id \in RunnerForGroup(G(id))
    BY <2>1, <2>2, <2>3 DEF RunnerForGroup
  <2> QED
    BY <2>4
<1>4. ASSUME NEW i \in issues, i.check \in PlanChecks(s)
      PROVE  \E g \in PlanGroups(s) : i \in GroupIssues(issues, g)
  <2>1. \A id \in PlanChecks(s) : G(id) \in PlanGroups(s)
    BY DEF PlanGroups
  <2>2. i \in GroupIssues(issues, G(i.check))
    BY <1>3, <1>4 DEF GroupIssues, FilterGroupIssues
  <2> QED
    BY <1>4, <2>1, <2>2
<1>5. ASSUME NEW g \in PlanGroups(s), NEW i \in GroupIssues(issues, g)
      PROVE  i \in issues /\ i.check \in PlanChecks(s)
  <2>1. g.checks \subseteq PlanChecks(s)
    BY DEF PlanGroups
  <2> QED
    BY <2>1 DEF GroupIssues, FilterGroupIssues
<1> QED
  BY <1>4, <1>5

(***************************************************************************)
(* Lines are numbered, and there are finitely many findings.               *)
(***************************************************************************)
(* A set of numbers has a least one.  The well-founded order is that of    *)
(* the sets of smaller members.                                            *)
LEMMA LeastNatural ==
  ASSUME NEW S \in SUBSET Nat, S # {}
  PROVE  \E n \in S : \A m \in S : n <= m
<1> DEFINE Below(n) == {m \in S : m <= n}
           T == {Below(n) : n \in S}
<1>1. \A n \in S : n \in Nat
  OBVIOUS
<1>2. \A n \in S : Below(n) \in FiniteSubsetsOf(S)
  <2> TAKE n \in S
  <2>1. Below(n) \in SUBSET Nat /\ \A m \in Below(n) : m <= n
    OBVIOUS
  <2>2. Below(n) \in SUBSET S
    OBVIOUS
  <2> HIDE DEF Below
  <2>3. IsFiniteSet(Below(n))
    BY <1>1, <2>1, FS_BoundedSetOfNaturals
  <2> QED
    BY <2>2, <2>3 DEF FiniteSubsetsOf
<1>3. T \subseteq FiniteSubsetsOf(S) /\ T # {}
  <2> HIDE DEF Below
  <2> QED
    BY <1>2
<1>4. PICK B \in T : \A C \in T : ~ (<<C, B>> \in StrictSubsetOrdering(S))
  <2> HIDE DEF T
  <2> QED
    BY <1>3, FS_StrictSubsetOrderingWellFounded, WFMin
<1>5. PICK n \in S : B = Below(n)
  BY <1>4
<1>6. ASSUME NEW m \in S, m < n
      PROVE  FALSE
  <2>1. n \in Below(n) /\ n \notin Below(m)
    BY <1>1, <1>6
  <2>2. ASSUME NEW x \in Below(m) PROVE x \in Below(n)
    <3>1. x \in S /\ x <= m
      OBVIOUS
    <3>2. x \in Nat /\ m \in Nat /\ n \in Nat
      BY <1>1, <3>1
    <3>3. x <= n
      BY <1>6, <3>1, <3>2
    <3> QED
      BY <3>1, <3>3
  <2>3. Below(m) \in T
    OBVIOUS
  <2>4. <<Below(m), Below(n)>> \in StrictSubsetOrdering(S)
    <3> HIDE DEF Below
    <3> QED
      BY <1>2, <2>1, <2>2 DEF StrictSubsetOrdering, FiniteSubsetsOf
  <2> QED
    BY <1>4, <1>5, <2>3, <2>4
<1> QED
  BY <1>1, <1>6

(* Sources keep their shape, and every smell its one place.                *)
Placed ==
  /\ source \in Seq(Seq(Lines))
  /\ \A f \in Files : WellFormed(source[f])
  /\ EachSmellOnce(source)

LEMMA RawIssuesPlaced ==
  ASSUME Placed
  PROVE  \A i \in RawIssues :
           /\ i.smell \in Smells /\ i.check \in CheckIDs /\ i.check = CheckOf[i.smell]
           /\ i.file \in Files /\ i.line \in DOMAIN source[i.file]
           /\ i.line \in Nat /\ i.file \in Nat
           /\ i.smell \in source[i.file][i.line].smells
           /\ i = [smell |-> i.smell, check |-> i.check, file |-> i.file, line |-> i.line]
<1> TAKE i \in RawIssues
<1>1. PICK f \in Files :
        i \in [smell : Smells, check : CheckIDs, file : {f}, line : DOMAIN source[f]]
  BY DEF RawIssues
<1>2. source[f] \in Seq(Lines)
  BY DEF Placed, Files
<1>3. f \in Nat /\ \A n \in DOMAIN source[f] : n \in Nat
  BY <1>2 DEF Placed, Files
<1> QED
  BY <1>1, <1>3 DEF RawIssues

LEMMA RawIssuesFinite ==
  ASSUME Placed
  PROVE  IsFiniteSet(RawIssues)
<1> DEFINE smellOf == [i \in RawIssues |-> i.smell]
<1>1. ASSUME NEW i \in RawIssues, NEW j \in RawIssues, i.smell = j.smell
      PROVE  i = j
  <2>1. i.file = j.file
    BY <1>1, RawIssuesPlaced DEF Placed, EachSmellOnce, Files
  <2>2. i.line = j.line
    BY <1>1, <2>1, RawIssuesPlaced DEF Placed, WellFormed
  <2> QED
    BY <1>1, <2>1, <2>2, RawIssuesPlaced
<1>2. smellOf \in Injection(RawIssues, Smells)
  BY <1>1, RawIssuesPlaced DEF Injection, IsInjective
<1> HIDE DEF smellOf
<1> QED
  BY <1>2, FS_Injection, SmellsAssumption

LEMMA SurvivorsRaw == Placed => Survivors \subseteq RawIssues
<1> SUFFICES ASSUME Placed PROVE Survivors \subseteq RawIssues
  OBVIOUS
<1>1. \A i \in RawIssues : i.check \in CheckIDs
  BY RawIssuesPlaced
<1>2. PlannedIssues = {i \in RawIssues : i.check \in PlanChecks(settings)}
  BY <1>1, PlanReportsSelection DEF PlannedIssues
<1> QED
  BY <1>2 DEF Survivors

(***************************************************************************)
(* Names.                                                                  *)
(***************************************************************************)
(* The list that is named holds every survivor once, at numbered places.   *)
LEMMA OrderLists ==
  ASSUME Placed, NEW all \in SortedOrders(Survivors)
  PROVE  /\ \A x \in DOMAIN all : /\ x \in Nat /\ all[x] \in Survivors
                                  /\ all[x].line \in Nat
         /\ \A i \in Survivors : \E x \in DOMAIN all : all[x] = i
         /\ \A x, y \in DOMAIN all : all[x] = all[y] => x = y
<1>1. IsFiniteSet(Survivors)
  BY SurvivorsRaw, RawIssuesFinite, FS_Subset
<1>2. Cardinality(Survivors) \in Nat
  BY <1>1, FS_CardinalityType
<1>3. /\ all \in [1..Cardinality(Survivors) -> Survivors]
      /\ {all[x] : x \in DOMAIN all} = Survivors
      /\ \A x, y \in DOMAIN all : x # y => all[x] # all[y]
  BY DEF SortedOrders
<1>4. \A i \in Survivors : i.line \in Nat
  BY SurvivorsRaw, RawIssuesPlaced
<1> QED
  BY <1>2, <1>3, <1>4

Same(all, x) == {y \in Group(all, x) : Qualifier(all, y) = Qualifier(all, x)}
LinesUpTo(all, x) == {all[y].line : y \in {y \in Same(all, x) : all[y].line <= all[x].line}}

(* The first of the findings at one position counts the positions.         *)
LEMMA OccurrenceCounts ==
  ASSUME NEW all, NEW x
  PROVE  /\ (\E y \in Same(all, x) : y < x /\ all[y].line = all[x].line)
              => Occurrence(all, x) = 1
         /\ ~ (\E y \in Same(all, x) : y < x /\ all[y].line = all[x].line)
              => Occurrence(all, x) = Cardinality(LinesUpTo(all, x))
BY DEF Occurrence, Same, LinesUpTo

(* A later position has a higher count.                                    *)
LEMMA LaterCountsMore ==
  ASSUME Placed, NEW all \in SortedOrders(Survivors),
         NEW x \in DOMAIN all, NEW y \in Same(all, x),
         Same(all, x) = Same(all, y), all[x].line < all[y].line
  PROVE  Cardinality(LinesUpTo(all, x)) # Cardinality(LinesUpTo(all, y))
<1>1. y \in DOMAIN all /\ y \in Same(all, y)
  BY DEF Same, Group
<1>2. \A z \in Same(all, x) : z \in DOMAIN all /\ all[z].line \in Nat
  BY OrderLists DEF Same, Group
<1>3. all[x].line \in Nat /\ all[y].line \in Nat
  BY <1>1, OrderLists
<1>4. LinesUpTo(all, y) \in SUBSET Nat /\ \A n \in LinesUpTo(all, y) : n <= all[y].line
  BY <1>2 DEF LinesUpTo
<1>5. IsFiniteSet(LinesUpTo(all, y))
  BY <1>3, <1>4, FS_BoundedSetOfNaturals
<1>6. LinesUpTo(all, x) \subseteq LinesUpTo(all, y)
  BY <1>2, <1>3 DEF LinesUpTo
<1>7. all[y].line \in LinesUpTo(all, y)
  BY <1>1, <1>3 DEF LinesUpTo
<1>8. all[y].line \notin LinesUpTo(all, x)
  BY <1>2, <1>3 DEF LinesUpTo
<1> QED
  BY <1>5, <1>6, <1>7, <1>8, FS_Subset

(* Findings of one identity and one qualifier are told apart by position.  *)
LEMMA SameIsShared ==
  ASSUME NEW all, NEW x \in DOMAIN all, NEW y \in DOMAIN all,
         IdentityKey(all[x]) = IdentityKey(all[y]),
         Qualifier(all, x) = Qualifier(all, y)
  PROVE  Same(all, x) = Same(all, y) /\ y \in Same(all, x)
BY DEF Same, Group

(* Two equal fingerprints are two findings of one identity at one place.   *)
LEMMA CollisionHasDuplicate ==
  ASSUME Placed, NEW all \in SortedOrders(Survivors), Collides(all)
  PROVE  \E i, j \in Survivors : i # j /\ i.line = j.line /\ IdentityKey(i) = IdentityKey(j)
<1>1. PICK x \in DOMAIN all, y \in DOMAIN all :
        x # y /\ Fingerprint(all, x) = Fingerprint(all, y)
  BY DEF Collides
<1>2. /\ IdentityKey(all[x]) = IdentityKey(all[y])
      /\ Qualifier(all, x) = Qualifier(all, y)
      /\ Occurrence(all, x) = Occurrence(all, y)
  BY <1>1 DEF Fingerprint
<1>3. Same(all, x) = Same(all, y) /\ x \in Same(all, x) /\ y \in Same(all, x)
  BY <1>2, SameIsShared
<1>4. ASSUME NEW z \in DOMAIN all, NEW w \in Same(all, z), w < z,
             all[w].line = all[z].line
      PROVE  \E i, j \in Survivors :
               i # j /\ i.line = j.line /\ IdentityKey(i) = IdentityKey(j)
  <2>1. w \in DOMAIN all /\ IdentityKey(all[w]) = IdentityKey(all[z])
    BY DEF Same, Group
  <2>2. w # z
    BY <1>4, <2>1, OrderLists
  <2>3. all[w] # all[z] /\ all[w] \in Survivors /\ all[z] \in Survivors
    BY <2>1, <2>2, OrderLists
  <2> QED
    BY <1>4, <2>1, <2>3
<1>5. CASE all[x].line = all[y].line
  <2>1. all[x] # all[y] /\ all[x] \in Survivors /\ all[y] \in Survivors
    BY <1>1, OrderLists
  <2> QED
    BY <1>2, <1>5, <2>1
<1>6. CASE /\ all[x].line # all[y].line
           /\ ~ \E w \in Same(all, x) : w < x /\ all[w].line = all[x].line
           /\ ~ \E w \in Same(all, y) : w < y /\ all[w].line = all[y].line
  <2>1. Cardinality(LinesUpTo(all, x)) = Cardinality(LinesUpTo(all, y))
    BY <1>2, <1>6, OccurrenceCounts
  <2>2. all[x].line < all[y].line \/ all[y].line < all[x].line
    BY <1>6, OrderLists
  <2> QED
    BY <1>3, <2>1, <2>2, LaterCountsMore
<1> QED
  BY <1>4, <1>5, <1>6

(* Two findings of one identity at one place collide: the later of them is *)
(* named like the first finding of its kind.                               *)
LEMMA DuplicateCollides ==
  ASSUME Placed, NEW all \in SortedOrders(Survivors),
         NEW i \in Survivors, NEW j \in Survivors,
         i # j, i.line = j.line, IdentityKey(i) = IdentityKey(j)
  PROVE  Collides(all)
<1>1. PICK x \in DOMAIN all, y \in DOMAIN all :
        /\ x < y /\ all[x].line = all[y].line
        /\ IdentityKey(all[x]) = IdentityKey(all[y])
  <2>1. PICK a \in DOMAIN all, b \in DOMAIN all : all[a] = i /\ all[b] = j
    BY OrderLists
  <2>2. a < b \/ b < a
    BY <2>1, OrderLists
  <2> QED
    BY <2>1, <2>2
<1>2. Qualifier(all, x) = Qualifier(all, y)
  <2>1. Group(all, x) = Group(all, y)
    BY <1>1 DEF Group
  <2>2. all[x].file = all[y].file
    BY <1>1 DEF IdentityKey
  <2> QED
    BY <1>1, <2>1, <2>2 DEF Qualifier
<1>3. Same(all, x) = Same(all, y) /\ x \in Same(all, y) /\ y \in Same(all, y)
  BY <1>1, <1>2, SameIsShared
<1>4. Occurrence(all, y) = 1
  BY <1>1, <1>3, OccurrenceCounts
<1> DEFINE S == Same(all, y)
           At == {all[z].line : z \in S}
<1>5. \A z \in S : z \in DOMAIN all /\ z \in Nat /\ all[z].line \in Nat
  BY OrderLists DEF Same, Group
<1>6. PICK m \in At : \A n \in At : m <= n
  <2>1. At \in SUBSET Nat /\ At # {}
    BY <1>3, <1>5
  <2> HIDE DEF At
  <2> QED
    BY <2>1, LeastNatural
<1> DEFINE First == {z \in S : all[z].line = m}
<1>7. PICK f \in First : \A z \in First : f <= z
  <2>1. First \in SUBSET Nat /\ First # {}
    BY <1>5, <1>6
  <2> HIDE DEF First
  <2> QED
    BY <2>1, LeastNatural
<1>8. f \in S /\ f \in DOMAIN all /\ all[f].line = m /\ m \in Nat /\ f \in Nat
  BY <1>5, <1>7
<1>9. /\ IdentityKey(all[f]) = IdentityKey(all[y])
      /\ Qualifier(all, f) = Qualifier(all, y)
  BY <1>8 DEF Same, Group
<1>10. Same(all, f) = S /\ f \in Same(all, f)
  BY <1>8, <1>9, SameIsShared
<1>11. ~ \E z \in Same(all, f) : z < f /\ all[z].line = all[f].line
  <2> SUFFICES ASSUME NEW z \in S, z < f, all[z].line = m PROVE FALSE
    BY <1>8, <1>10
  <2>1. f <= z /\ z \in Nat
    BY <1>5, <1>7
  <2> QED
    BY <1>8, <2>1
<1>12. LinesUpTo(all, f) = {m}
  <2>1. ASSUME NEW z \in S, all[z].line <= m PROVE all[z].line = m
    <3>1. m <= all[z].line /\ all[z].line \in Nat
      BY <1>5, <1>6
    <3> QED
      BY <1>8, <2>1, <3>1
  <2>2. m <= m
    BY <1>8
  <2> HIDE DEF S
  <2> QED
    BY <1>8, <1>10, <2>1, <2>2 DEF LinesUpTo
<1> HIDE DEF S, At, First
<1>13. Occurrence(all, f) = 1
  <2>1. Occurrence(all, f) = Cardinality(LinesUpTo(all, f))
    BY ONLY <1>11, OccurrenceCounts
  <2>2. Cardinality({m}) = 1
    BY ONLY FS_Singleton
  <2> QED
    BY ONLY <1>12, <2>1, <2>2
<1> USE DEF S, At, First
<1>14. f # y
  <2> SUFFICES ASSUME f = y PROVE FALSE
    OBVIOUS
  <2>1. x \in First
    BY <1>1, <1>3, <1>8
  <2>2. y <= x
    BY <1>7, <2>1
  <2> QED
    BY <1>1, <1>3, <1>5, <2>2
<1>15. Fingerprint(all, f) = Fingerprint(all, y)
  BY <1>4, <1>9, <1>13 DEF Fingerprint
<1> QED
  BY <1>8, <1>14, <1>15 DEF Collides

(***************************************************************************)
(* Types.                                                                  *)
(***************************************************************************)
LEMMA GreatestNatural ==
  ASSUME NEW S \in SUBSET Nat, S # {}, NEW top \in Nat, \A m \in S : m <= top
  PROVE  \E n \in S : \A m \in S : m <= n
<1> DEFINE Bounds == {b \in Nat : \A m \in S : m <= b}
<1>1. PICK b \in Bounds : \A c \in Bounds : b <= c
  <2>1. Bounds \in SUBSET Nat /\ top \in Bounds
    OBVIOUS
  <2> HIDE DEF Bounds
  <2> QED
    BY <2>1, LeastNatural
<1>2. b \in S
  <2> SUFFICES ASSUME b \notin S PROVE FALSE
    OBVIOUS
  <2>1. PICK m \in S : TRUE
    OBVIOUS
  <2>2. \A k \in S : k \in Nat /\ k < b
    OBVIOUS
  <2>3. b - 1 \in Nat /\ \A k \in S : k <= b - 1
    BY <2>1, <2>2
  <2> QED
    BY <1>1, <2>3
<1> QED
  BY <1>2

LEMMA LineFacts ==
  ASSUME Placed, NEW f \in Files
  PROVE  /\ source[f] \in Seq(Lines) /\ WellFormed(source[f]) /\ f \in Nat
         /\ DOMAIN source[f] = 1..Len(source[f]) /\ Len(source[f]) \in Nat
         /\ \A n \in DOMAIN source[f] :
              /\ n \in Nat /\ source[f][n].part \in Parts
              /\ source[f][n].receiver \in Receivers \cup {NoReceiver}
<1>1. source[f] \in Seq(Lines) /\ f \in Nat /\ WellFormed(source[f])
  BY DEF Placed, Files
<1>2. \A n \in DOMAIN source[f] : source[f][n] \in Lines /\ n \in Nat
  BY <1>1
<1> QED
  BY <1>1, <1>2 DEF Lines

LEMMA EnclosingTyped ==
  ASSUME Placed, NEW f \in Files, NEW n
  PROVE  EnclosingReceiver(f, n) \in Receivers \cup {NoReceiver}
<1> DEFINE methods == {h \in Heads(f) : source[f][h].part = "func"
                                          /\ h <= n /\ n <= DeclEnd(f, h)}
<1>1. CASE methods = {}
  BY <1>1 DEF EnclosingReceiver
<1>2. CASE methods # {}
  <2>1. EnclosingReceiver(f, n) = source[f][CHOOSE h \in methods : TRUE].receiver
    BY <1>2 DEF EnclosingReceiver
  <2>2. \A h \in methods : h \in DOMAIN source[f]
    BY DEF Heads
  <2> HIDE DEF methods
  <2> QED
    BY <1>2, <2>1, <2>2, LineFacts
<1> QED
  BY <1>1, <1>2

LEMMA OccurrencePositive ==
  ASSUME Placed, NEW all \in SortedOrders(Survivors), NEW x \in DOMAIN all
  PROVE  Occurrence(all, x) \in Nat \ {0}
<1>1. CASE \E y \in Same(all, x) : y < x /\ all[y].line = all[x].line
  BY <1>1, OccurrenceCounts
<1>2. CASE ~ \E y \in Same(all, x) : y < x /\ all[y].line = all[x].line
  <2>1. /\ x \in Same(all, x) /\ all[x].line \in Nat
        /\ \A y \in Same(all, x) : all[y].line \in Nat
    BY OrderLists DEF Same, Group
  <2>2. /\ LinesUpTo(all, x) \in SUBSET Nat /\ all[x].line \in LinesUpTo(all, x)
        /\ \A n \in LinesUpTo(all, x) : n <= all[x].line
    BY <2>1 DEF LinesUpTo
  <2>3. IsFiniteSet(LinesUpTo(all, x))
    BY <2>1, <2>2, FS_BoundedSetOfNaturals
  <2> QED
    BY <1>2, <2>2, <2>3, OccurrenceCounts, FS_CardinalityType, FS_EmptySet
<1> QED
  BY <1>1, <1>2

LEMMA ReportTyped ==
  ASSUME Placed, NEW all \in SortedOrders(Survivors)
  PROVE  /\ ReportOf(all).verdict = "ok"
         /\ ReportOf(all).issues \in Seq(ReportedIssue)
         /\ DOMAIN ReportOf(all).coverage = CheckIDs
<1> DEFINE Identities == {IdentityOf[s] : s \in Smells}
<1>1. ASSUME NEW x \in DOMAIN all
      PROVE  ReportOf(all).issues[x] \in ReportedIssue
  <2>1. all[x] \in RawIssues
    BY OrderLists, SurvivorsRaw
  <2>2. /\ all[x].smell \in Smells /\ all[x].file \in Files /\ all[x].file \in Nat
        /\ all[x].check \in CheckIDs
    BY <2>1, RawIssuesPlaced
  <2>3. IdentityKey(all[x]) \in CheckIDs \X Nat \X Identities
    BY <2>2 DEF IdentityKey
  <2>4. EnclosingReceiver(all[x].file, all[x].line) \in Receivers \cup {NoReceiver}
    BY <2>2, EnclosingTyped
  <2>5. Qualifier(all, x) \in Receivers \cup {NoReceiver}
    BY <2>4 DEF Qualifier
  <2>6. Fingerprint(all, x) \in [key : CheckIDs \X Nat \X Identities,
          receiver : Receivers \cup {NoReceiver}, occurrence : Nat \ {0}]
    BY <2>3, <2>5, OccurrencePositive DEF Fingerprint
  <2> QED
    BY <2>2, <2>3, <2>4, <2>6 DEF ReportOf, ReportedIssue
<1>2. PICK n \in Nat : DOMAIN all = 1..n
  <2>1. Cardinality(Survivors) \in Nat
    BY SurvivorsRaw, RawIssuesFinite, FS_Subset, FS_CardinalityType
  <2> QED
    BY <2>1 DEF SortedOrders
<1>3. ReportOf(all).issues \in [1..n -> ReportedIssue]
  BY <1>1, <1>2 DEF ReportOf
<1>4. ReportOf(all).issues \in Seq(ReportedIssue)
  BY <1>3, SeqDef
<1> QED
  BY <1>4 DEF ReportOf

(***************************************************************************)
(* What a run may report of the present sources.                           *)
(***************************************************************************)
Outcome(r) ==
  \/ SelectionRefused(settings) /\ r = Without("refused settings")
  \/ /\ ~ SelectionRefused(settings) /\ RefusedSource
     /\ r = Without("refused directive")
  \/ /\ ~ SelectionRefused(settings) /\ ~ RefusedSource
     /\ \E all \in SortedOrders(Survivors) :
          r = IF Collides(all) THEN Without("collision") ELSE ReportOf(all)

LEMMA SameSource ==
  ASSUME UNCHANGED <<settings, source, complete>>
  PROVE  /\ Survivors' = Survivors /\ RawIssues' = RawIssues
         /\ \A r : Outcome(r)' <=> Outcome(r)
<1> USE DEF Files, Heads, Groups, LinesOf, GroupsOf, DeclEnd, HeaderEnd, DocStart,
            Documented, SpanStart, DeclarationSpan, EnclosingReceiver, Directives,
            MatchesLocation, LocationSuppressed, Related, IssueSuppressed
<1>1. RawIssues' = RawIssues
  BY DEF RawIssues
<1>2. Survivors' = Survivors
  BY <1>1 DEF Survivors, PlannedIssues, ModeSupports
<1>3. \A all : Collides(all)' <=> Collides(all)
  BY DEF Collides, Fingerprint, Qualifier, Occurrence
<1>4. \A all : ReportOf(all)' = ReportOf(all)
  BY DEF ReportOf, Fingerprint, Qualifier, Occurrence, CheckCoverage
<1>5. RefusedSource' <=> RefusedSource
  BY DEF RefusedSource
<1> QED
  BY <1>1, <1>2, <1>3, <1>4, <1>5 DEF Outcome

FindingsInv ==
  /\ TypeOK
  /\ EachSmellOnce(source)
  /\ settings.mode = "types" => \A f \in Files : complete[f]
  /\ settings.mode = "syntax" => \A f \in Files : ~ complete[f]
  /\ fresh => Outcome(report)

LEMMA PlacedInv == FindingsInv => Placed
  BY DEF FindingsInv, TypeOK, Placed

LEMMA OutcomeTyped ==
  ASSUME Placed, NEW r, Outcome(r)
  PROVE  /\ r.verdict \in {"refused settings", "refused directive", "collision", "ok"}
         /\ r.issues \in Seq(ReportedIssue)
         /\ DOMAIN r.coverage = IF r.verdict = "ok" THEN CheckIDs ELSE {}
<1>1. \A v : /\ Without(v).verdict = v /\ Without(v).issues = <<>>
             /\ DOMAIN Without(v).coverage = {}
  BY DEF Without
<1>2. <<>> \in Seq(ReportedIssue)
  OBVIOUS
<1> QED
  BY <1>1, <1>2, ReportTyped DEF Outcome

LEMMA InitFindings == Init => FindingsInv
<1> SUFFICES ASSUME Init PROVE FindingsInv
  OBVIOUS
<1>1. source \in Seq(Seq(Lines)) /\ (\A f \in Files : WellFormed(source[f]))
        /\ EachSmellOnce(source)
  BY SourcesAssumption DEF Init, Files
<1>2. /\ report.verdict = "none" /\ report.issues = <<>>
      /\ DOMAIN report.coverage = {}
  BY DEF Init, NoReport, Without
<1>3. TypeOK
  <2>1. complete \in [Files -> BOOLEAN] /\ settings \in SettingsSet /\ fresh = FALSE
    BY DEF Init, Files
  <2>2. edits \in 0..MaxEdits
    BY InputsAssumption DEF Init
  <2>3. report.issues \in Seq(ReportedIssue)
    BY <1>2
  <2> QED
    BY <1>1, <1>2, <2>1, <2>2, <2>3 DEF TypeOK
<1> QED
  BY <1>1, <1>3 DEF Init, FindingsInv, Files

LEMMA ChangeFindings ==
  ASSUME FindingsInv, NEW f \in Files, NEW lines \in Seq(Lines), ChangeFile(f, lines)
  PROVE  FindingsInv'
<1> USE DEF ChangeFile
<1>1. source \in Seq(Seq(Lines)) /\ f \in DOMAIN source
  BY DEF FindingsInv, TypeOK, Files
<1>2. source' = [source EXCEPT ![f] = lines]
  OBVIOUS
<1>3. source' \in Seq(Seq(Lines)) /\ DOMAIN source' = DOMAIN source
  BY <1>1, <1>2
<1>4. \A g \in DOMAIN source' : WellFormed(source'[g])
  BY <1>1, <1>2 DEF FindingsInv, TypeOK, Files
<1>5. TypeOK'
  <2>1. edits' \in 0..MaxEdits
    <3>1. edits \in 0..MaxEdits /\ MaxEdits \in Nat
      BY InputsAssumption DEF FindingsInv, TypeOK
    <3>2. edits < MaxEdits /\ edits' = edits + 1
      OBVIOUS
    <3> HIDE DEF ChangeFile
    <3> QED
      BY ONLY <3>1, <3>2
  <2>2. complete' \in [DOMAIN source' -> BOOLEAN]
    BY <1>3 DEF FindingsInv, TypeOK, Files
  <2>3. /\ settings' \in SettingsSet /\ fresh' \in BOOLEAN
        /\ UNCHANGED report
    BY DEF FindingsInv, TypeOK
  <2> QED
    BY <1>3, <1>4, <2>1, <2>2, <2>3 DEF FindingsInv, TypeOK, Files
<1> QED
  BY <1>3, <1>5 DEF FindingsInv, Files

LEMMA AnalyzeOutcome == Analyze => Outcome(report')
  BY DEF Analyze, Outcome

LEMMA NextFindings == FindingsInv /\ [Next]_vars => FindingsInv'
<1> SUFFICES ASSUME FindingsInv, [Next]_vars PROVE FindingsInv'
  OBVIOUS
<1>1. \A f \in Files : source[f] \in Seq(Lines)
  BY PlacedInv, LineFacts
<1>2. CASE Analyze
  <2>1. UNCHANGED <<settings, source, complete, edits>> /\ fresh' = TRUE
    BY <1>2 DEF Analyze
  <2>2. Outcome(report')
    BY <1>2, AnalyzeOutcome
  <2>3. Outcome(report)'
    BY <2>1, <2>2, SameSource
  <2>4. TypeOK'
    BY <2>1, <2>2, PlacedInv, OutcomeTyped DEF FindingsInv, TypeOK, Files
  <2> QED
    BY <2>1, <2>3, <2>4 DEF FindingsInv, Files
<1>3. ASSUME NEW f \in Files, NEW n \in 0..Len(source[f]), NEW line \in NewLines,
             InsertLine(f, n, line)
      PROVE  FindingsInv'
  <2>1. line \in Lines
    BY InputsAssumption
  <2> DEFINE lines == SubSeq(source[f], 1, n) \o <<line>>
                        \o SubSeq(source[f], n + 1, Len(source[f]))
  <2>2. lines \in Seq(Lines)
    BY <1>1, <2>1
  <2>3. ChangeFile(f, lines)
    BY <1>3 DEF InsertLine
  <2> HIDE DEF lines
  <2> QED
    BY <2>2, <2>3, ChangeFindings
<1>4. ASSUME NEW f \in Files, NEW n \in DOMAIN source[f], DeleteLine(f, n)
      PROVE  FindingsInv'
  <2> DEFINE lines == SubSeq(source[f], 1, n - 1)
                        \o SubSeq(source[f], n + 1, Len(source[f]))
  <2>1. lines \in Seq(Lines)
    BY <1>1
  <2>2. ChangeFile(f, lines)
    BY <1>4 DEF DeleteLine
  <2> HIDE DEF lines
  <2> QED
    BY <2>1, <2>2, ChangeFindings
<1>5. CASE UNCHANGED vars
  <2>1. Outcome(report)' <=> Outcome(report)
    BY <1>5, SameSource DEF vars
  <2> QED
    BY <1>5, <2>1 DEF vars, FindingsInv, TypeOK, Files
<1> QED
  BY <1>2, <1>3, <1>4, <1>5 DEF Next

(* While the sources change and runs repeat, a report that is not older    *)
(* than its sources is one that the pipeline can make of them              *)
(* (run.go:103-240): the inductive invariant holds in every reachable      *)
(* state.                                                                  *)
THEOREM FindingsInvariance == Spec => []FindingsInv
  BY InitFindings, NextFindings, PTL DEF Spec

(* Every variable keeps its type, and occurrences count from one           *)
(* (run.go:152).                                                           *)
THEOREM FindingsTyped == Spec => []TypeOK
<1>1. FindingsInv => TypeOK
  BY DEF FindingsInv
<1> QED
  BY <1>1, FindingsInvariance, PTL

(***************************************************************************)
(* Sorting leaves the workers no say.                                      *)
(***************************************************************************)
LEMMA LessKeyTotal ==
  ASSUME NEW a1 \in Nat, NEW a2 \in Nat, NEW a3 \in Nat, NEW a4 \in Nat,
         NEW b1 \in Nat, NEW b2 \in Nat, NEW b3 \in Nat, NEW b4 \in Nat,
         <<a1, a2, a3, a4>> # <<b1, b2, b3, b4>>
  PROVE  \/ LessKey(<<a1, a2, a3, a4>>, <<b1, b2, b3, b4>>)
         \/ LessKey(<<b1, b2, b3, b4>>, <<a1, a2, a3, a4>>)
<1> DEFINE a == <<a1, a2, a3, a4>>
           b == <<b1, b2, b3, b4>>
<1>1. DOMAIN a = 1..4 /\ DOMAIN b = 1..4
  OBVIOUS
<1>2. \A n \in 1..4 : a[n] \in Nat /\ b[n] \in Nat
  OBVIOUS
<1>3. \E n \in 1..4 : a[n] # b[n] /\ \A m \in 1..(n - 1) : a[m] = b[m]
  <2> DEFINE D == {n \in 1..4 : a[n] # b[n]}
  <2>1. D \in SUBSET Nat
    OBVIOUS
  <2>2. D # {}
    OBVIOUS
  <2>3. PICK n \in D : \A m \in D : n <= m
    <3> HIDE DEF D
    <3> QED
      BY <2>1, <2>2, LeastNatural
  <2>4. n \in 1..4 /\ a[n] # b[n]
    OBVIOUS
  <2>5. ASSUME NEW m \in 1..(n - 1) PROVE a[m] = b[m]
    <3>1. m \in 1..4 /\ ~ (n <= m)
      BY <2>4
    <3> QED
      BY <2>3, <3>1
  <2> QED
    BY <2>4, <2>5
<1>4. PICK n \in 1..4 : a[n] # b[n] /\ \A m \in 1..(n - 1) : a[m] = b[m]
  BY <1>3
<1>5. a[n] < b[n] \/ b[n] < a[n]
  BY <1>2, <1>4
<1> HIDE DEF a, b
<1>6. LessKey(a, b) \/ LessKey(b, a)
  BY <1>1, <1>4, <1>5 DEF LessKey
<1> QED
  BY <1>6 DEF a, b

Duplicated == \E i, j \in Survivors :
                i # j /\ i.line = j.line /\ IdentityKey(i) = IdentityKey(j)

LEMMA CollidesAsDuplicated ==
  ASSUME Placed, NEW all \in SortedOrders(Survivors)
  PROVE  Collides(all) <=> Duplicated
BY CollisionHasDuplicate, DuplicateCollides DEF Duplicated

(* Findings that the sort key does not tell apart are duplicates.          *)
LEMMA KeysTellApart ==
  ASSUME Placed, ~ Duplicated, NEW i \in Survivors, NEW j \in Survivors, i # j
  PROVE  LessKey(SortKey(i), SortKey(j)) \/ LessKey(SortKey(j), SortKey(i))
<1>1. ASSUME NEW k \in Survivors
      PROVE  /\ k.file \in Nat /\ k.line \in Nat /\ k.smell \in Smells
             /\ k.check = CheckOf[k.smell]
             /\ EvidenceOf[k.smell] \in Nat
             /\ CheckRank(k.check) \in DOMAIN Registry
             /\ CheckRank(k.check) \in Nat
             /\ Registry[CheckRank(k.check)].id = k.check
  <2>1. /\ k.file \in Nat /\ k.line \in Nat /\ k.smell \in Smells
        /\ k.check = CheckOf[k.smell] /\ k.check \in CheckIDs
    BY SurvivorsRaw, RawIssuesPlaced
  <2>2. \E n \in DOMAIN Registry : Registry[n].id = k.check
    BY <2>1 DEF CheckIDs, RegistryRows
  <2>3. /\ CheckRank(k.check) \in DOMAIN Registry
        /\ Registry[CheckRank(k.check)].id = k.check
    BY <2>2 DEF CheckRank
  <2>4. \A n \in DOMAIN Registry : n \in Nat
    BY RegistryAssumption
  <2> QED
    BY <2>1, <2>3, <2>4, SmellsAssumption
<1>2. ASSUME SortKey(i) = SortKey(j) PROVE FALSE
  <2>1. /\ i.file = j.file /\ i.line = j.line
        /\ CheckRank(i.check) = CheckRank(j.check)
        /\ EvidenceOf[i.smell] = EvidenceOf[j.smell]
    BY <1>2 DEF SortKey
  <2>2. i.check = j.check
    BY <1>1, <2>1
  <2>3. IdentityOf[i.smell] = IdentityOf[j.smell]
    BY <1>1, <2>1, <2>2, SmellsAssumption
  <2> QED
    BY <2>1, <2>2, <2>3 DEF IdentityKey, Duplicated
<1> QED
  BY <1>1, <1>2, LessKeyTotal DEF SortKey

LEMMA SortedIsUnique ==
  ASSUME Placed, ~ Duplicated,
         NEW all \in SortedOrders(Survivors), NEW other \in SortedOrders(Survivors)
  PROVE  all = other
<1>1. /\ all \in [DOMAIN all -> Survivors] /\ other \in [DOMAIN all -> Survivors]
      /\ DOMAIN other = DOMAIN all
      /\ \A x \in DOMAIN all : x \in Nat
  BY OrderLists DEF SortedOrders
<1>2. ASSUME NEW one \in SortedOrders(Survivors), NEW two \in SortedOrders(Survivors),
             NEW k \in DOMAIN one, DOMAIN one = DOMAIN two,
             \A x \in DOMAIN one : x < k => one[x] = two[x],
             one[k] # two[k]
      PROVE  ~ LessKey(SortKey(one[k]), SortKey(two[k]))
  <2>1. one[k] \in Survivors /\ k \in Nat
    BY OrderLists
  <2>2. PICK j \in DOMAIN two : two[j] = one[k]
    BY <2>1, OrderLists
  <2>3. j # k /\ j \in Nat
    BY <1>2, <2>2, OrderLists
  <2>4. ~ (j < k)
    <3> SUFFICES ASSUME j < k PROVE FALSE
      OBVIOUS
    <3>1. one[j] = two[j]
      BY <1>2
    <3> QED
      BY <1>2, <2>2, <2>3, <3>1, OrderLists
  <2>5. k < j
    BY <2>1, <2>3, <2>4
  <2> QED
    BY <1>2, <2>2, <2>5 DEF SortedOrders
<1>3. SUFFICES ASSUME NEW z \in DOMAIN all, all[z] # other[z] PROVE FALSE
  BY <1>1
<1> DEFINE D == {x \in DOMAIN all : all[x] # other[x]}
<1>4. D \in SUBSET Nat /\ D # {}
  BY <1>1, <1>3
<1>5. PICK k \in D : \A x \in D : k <= x
  <2> HIDE DEF D
  <2> QED
    BY <1>4, LeastNatural
<1>6. k \in DOMAIN all /\ all[k] # other[k] /\ k \in Nat
  BY <1>1
<1>7. ASSUME NEW x \in DOMAIN all, x < k PROVE all[x] = other[x]
  <2>1. x \in Nat /\ ~ (k <= x)
    BY <1>1, <1>6, <1>7
  <2> QED
    BY <1>5, <2>1
<1>8. ~ LessKey(SortKey(all[k]), SortKey(other[k]))
  BY <1>1, <1>2, <1>6, <1>7
<1>9. ~ LessKey(SortKey(other[k]), SortKey(all[k]))
  BY <1>1, <1>2, <1>6, <1>7
<1> QED
  BY <1>1, <1>6, <1>8, <1>9, KeysTellApart

LEMMA OneOutcome ==
  ASSUME Placed, NEW r, NEW q, Outcome(r), Outcome(q)
  PROVE  r = q
<1>1. CASE SelectionRefused(settings) \/ RefusedSource
  <2>1. CASE SelectionRefused(settings)
    <3>1. \A o : Outcome(o) => o = Without("refused settings")
      BY <2>1 DEF Outcome
    <3> QED
      BY <3>1
  <2>2. CASE ~ SelectionRefused(settings)
    <3>1. \A o : Outcome(o) => o = Without("refused directive")
      BY <1>1, <2>2 DEF Outcome
    <3> QED
      BY <3>1
  <2> QED
    BY <2>1, <2>2
<1>2. CASE ~ SelectionRefused(settings) /\ ~ RefusedSource
  <2>1. PICK all \in SortedOrders(Survivors) :
          r = IF Collides(all) THEN Without("collision") ELSE ReportOf(all)
    BY <1>2 DEF Outcome
  <2>2. PICK other \in SortedOrders(Survivors) :
          q = IF Collides(other) THEN Without("collision") ELSE ReportOf(other)
    BY <1>2 DEF Outcome
  <2>3. CASE Duplicated
    BY <2>1, <2>2, <2>3, CollidesAsDuplicated
  <2>4. CASE ~ Duplicated
    BY <2>1, <2>2, <2>4, SortedIsUnique
  <2> QED
    BY <2>3, <2>4
<1> QED
  BY <1>1, <1>2

(* Two runs on the same sources report the same, in whatever order workers *)
(* deliver the findings: the sort leaves only findings in an arbitrary     *)
(* order that make the run fail (run.go:124-129, 387).                     *)
THEOREM RunsAgree == Spec => SameSourceSameReport
<1>1. FindingsInv /\ [Next]_vars => [Analyze /\ fresh => report' = report]_vars
  <2> SUFFICES ASSUME FindingsInv, Analyze, fresh PROVE report' = report
    OBVIOUS
  <2>1. Outcome(report) /\ Outcome(report')
    BY AnalyzeOutcome DEF FindingsInv
  <2> QED
    BY <2>1, PlacedInv, OneOutcome
<1> QED
  BY <1>1, FindingsInvariance, PTL DEF SameSourceSameReport, Spec

(***************************************************************************)
(* A report shows what its fingerprints are made of.                       *)
(***************************************************************************)
PeerPlaces(r, x) == {y \in DOMAIN r.issues : r.issues[y].key = r.issues[x].key}
Alone(r, x) == Cardinality(PeerPlaces(r, x)) < 2
NamedBefore(r, x) ==
  {y \in PeerPlaces(r, x) :
     y <= x /\ (Alone(r, x) \/ r.issues[y].within = r.issues[x].within)}

(* Every smell has one place, and is named after the findings that share   *)
(* its identity: by its receiver and by how many of them come before it.   *)
Named(r) ==
  /\ \A x, y \in DOMAIN r.issues : r.issues[x].smell = r.issues[y].smell => x = y
  /\ \A x \in DOMAIN r.issues :
       r.issues[x].fingerprint =
         [key |-> r.issues[x].key,
          receiver |-> IF Alone(r, x) THEN NoReceiver ELSE r.issues[x].within,
          occurrence |-> Cardinality(NamedBefore(r, x))]

ReportInv ==
  /\ Named(report)
  /\ \A x, y \in DOMAIN report.issues : x # y =>
       report.issues[x].fingerprint # report.issues[y].fingerprint

LEMMA OneIssuePerSmell ==
  ASSUME Placed, NEW i \in RawIssues, NEW j \in RawIssues, i.smell = j.smell
  PROVE  i = j
<1>1. i.file = j.file
  BY RawIssuesPlaced DEF Placed, EachSmellOnce, Files
<1>2. i.line = j.line
  BY <1>1, RawIssuesPlaced DEF Placed, WellFormed
<1> QED
  BY <1>1, <1>2, RawIssuesPlaced

LEMMA OccurrenceCountsPlaces ==
  ASSUME Placed, NEW all \in SortedOrders(Survivors), ~ Duplicated,
         NEW x \in DOMAIN all
  PROVE  Occurrence(all, x)
           = Cardinality({y \in Same(all, x) : y <= x})
<1> DEFINE Before == {y \in Same(all, x) : y <= x}
           lineOf == [y \in Before |-> all[y].line]
<1>1. \A y \in Same(all, x) :
        /\ y \in DOMAIN all /\ y \in Nat /\ all[y] \in Survivors
        /\ all[y].line \in Nat /\ IdentityKey(all[y]) = IdentityKey(all[x])
  BY OrderLists DEF Same, Group
<1>2. x \in Same(all, x) /\ x \in Nat
  BY OrderLists DEF Same, Group
<1>3. ASSUME NEW y \in Same(all, x), NEW z \in Same(all, x),
             all[y].line = all[z].line
      PROVE  y = z
  <2>1. all[y] = all[z]
    BY <1>1, <1>3 DEF Duplicated
  <2> QED
    BY <1>1, <2>1, OrderLists
<1>4. ASSUME NEW y \in Same(all, x), NEW z \in Same(all, x), y < z
      PROVE  all[y].line < all[z].line
  <2>1. ~ LessKey(SortKey(all[z]), SortKey(all[y]))
    BY <1>1, <1>4 DEF SortedOrders
  <2>2. all[y].file = all[z].file
    BY <1>1 DEF IdentityKey
  <2>3. ASSUME all[z].line < all[y].line PROVE FALSE
    <3> DEFINE a == SortKey(all[z])
               b == SortKey(all[y])
    <3>1. DOMAIN a = 1..4 /\ a[1] = b[1] /\ a[2] < b[2]
      BY <2>2, <2>3 DEF SortKey
    <3>2. \A m \in 1..(2 - 1) : m = 1
      OBVIOUS
    <3> HIDE DEF a, b
    <3>3. LessKey(a, b)
      BY <3>1, <3>2 DEF LessKey
    <3> QED
      BY <2>1, <3>3 DEF a, b
  <2>4. all[y].line # all[z].line
    BY <1>1, <1>3, <1>4
  <2> QED
    BY <1>1, <2>3, <2>4
<1>5. Before = {y \in Same(all, x) : all[y].line <= all[x].line}
  <2>1. ASSUME NEW y \in Same(all, x)
        PROVE  y <= x <=> all[y].line <= all[x].line
    BY <1>1, <1>2, <1>4
  <2> QED
    BY <2>1
<1>6. LinesUpTo(all, x) = {all[y].line : y \in Before}
  BY <1>5 DEF LinesUpTo
<1>7. IsFiniteSet(Before)
  <2>1. Before \in SUBSET Nat /\ \A y \in Before : y <= x
    BY <1>1
  <2> HIDE DEF Before
  <2> QED
    BY <1>2, <2>1, FS_BoundedSetOfNaturals
<1>8. lineOf \in Surjection(Before, LinesUpTo(all, x))
  BY <1>6 DEF Surjection
<1>9. lineOf \in Injection(Before, LinesUpTo(all, x))
  BY <1>3, <1>6 DEF Injection, IsInjective
<1>10. Cardinality(LinesUpTo(all, x)) = Cardinality(Before)
  <2> HIDE DEF lineOf, Before
  <2> QED
    BY <1>7, <1>8, <1>9, FS_Surjection
<1>11. ~ \E y \in Same(all, x) : y < x /\ all[y].line = all[x].line
  BY <1>1, <1>2, <1>3
<1> QED
  BY <1>10, <1>11, OccurrenceCounts

LEMMA ReportIsNamed ==
  ASSUME Placed, NEW all \in SortedOrders(Survivors), ~ Collides(all)
  PROVE  /\ Named(ReportOf(all))
         /\ \A x, y \in DOMAIN ReportOf(all).issues : x # y =>
              ReportOf(all).issues[x].fingerprint # ReportOf(all).issues[y].fingerprint
<1> DEFINE r == ReportOf(all)
<1>1. /\ DOMAIN r.issues = DOMAIN all
      /\ \A x \in DOMAIN all :
           /\ r.issues[x].smell = all[x].smell
           /\ r.issues[x].key = IdentityKey(all[x])
           /\ r.issues[x].within = EnclosingReceiver(all[x].file, all[x].line)
           /\ r.issues[x].fingerprint = Fingerprint(all, x)
  BY DEF ReportOf
<1> HIDE DEF r
<1>2. ASSUME NEW x \in DOMAIN all, NEW y \in DOMAIN all, all[x].smell = all[y].smell
      PROVE  x = y
  <2>1. all[x] \in RawIssues /\ all[y] \in RawIssues
    BY OrderLists, SurvivorsRaw
  <2> QED
    BY <1>2, <2>1, OneIssuePerSmell, OrderLists
<1>3. ASSUME NEW x \in DOMAIN all
      PROVE  Fingerprint(all, x) =
               [key |-> r.issues[x].key,
                receiver |-> IF Alone(r, x) THEN NoReceiver ELSE r.issues[x].within,
                occurrence |-> Cardinality(NamedBefore(r, x))]
  <2>1. PeerPlaces(r, x) = Group(all, x)
    BY <1>1 DEF PeerPlaces, Group
  <2>2. ASSUME NEW y \in Group(all, x)
        PROVE  /\ Qualifier(all, y) = IF Alone(r, x) THEN NoReceiver
                                      ELSE r.issues[y].within
               /\ y \in DOMAIN all
    <3>1. y \in DOMAIN all /\ Group(all, y) = Group(all, x)
      BY DEF Group
    <3> QED
      BY <1>1, <2>1, <3>1 DEF Qualifier, Alone
  <2>3. x \in Group(all, x)
    BY DEF Group
  <2>4. NamedBefore(r, x) = {y \in Same(all, x) : y <= x}
    BY <2>1, <2>2, <2>3 DEF NamedBefore, Same
  <2>5. Occurrence(all, x) = Cardinality(NamedBefore(r, x))
    BY <2>4, OccurrenceCountsPlaces, CollidesAsDuplicated
  <2> QED
    BY <1>1, <2>2, <2>3, <2>5 DEF Fingerprint
<1>4. Named(r)
  BY <1>1, <1>2, <1>3 DEF Named
<1>5. \A x, y \in DOMAIN all : x # y => Fingerprint(all, x) # Fingerprint(all, y)
  BY DEF Collides
<1> QED
  BY <1>1, <1>4, <1>5 DEF r

LEMMA OutcomeNamed ==
  ASSUME Placed, NEW r, Outcome(r)
  PROVE  /\ Named(r)
         /\ \A x, y \in DOMAIN r.issues : x # y =>
              r.issues[x].fingerprint # r.issues[y].fingerprint
<1>1. ASSUME NEW v, r = Without(v)
      PROVE  DOMAIN r.issues = {}
  BY <1>1 DEF Without
<1>2. CASE DOMAIN r.issues = {}
  BY <1>2 DEF Named
<1> QED
  BY <1>1, <1>2, ReportIsNamed DEF Outcome

LEMMA ReportInvariance == Spec => []ReportInv
<1>1. Init => ReportInv
  <2> SUFFICES ASSUME Init PROVE ReportInv
    OBVIOUS
  <2>1. DOMAIN report.issues = {}
    BY DEF Init, NoReport, Without
  <2> QED
    BY <2>1 DEF ReportInv, Named
<1>2. FindingsInv /\ ReportInv /\ [Next]_vars => ReportInv'
  <2> SUFFICES ASSUME FindingsInv, ReportInv, [Next]_vars PROVE ReportInv'
    OBVIOUS
  <2>1. CASE Analyze
    BY <2>1, AnalyzeOutcome, PlacedInv, OutcomeNamed DEF ReportInv, Named, Alone,
       NamedBefore, PeerPlaces
  <2>2. CASE report' = report
    BY <2>2 DEF ReportInv, Named, Alone, NamedBefore, PeerPlaces
  <2> QED
    BY <2>1, <2>2 DEF Next, InsertLine, DeleteLine, ChangeFile, vars
<1> QED
  BY <1>1, <1>2, FindingsInvariance, PTL DEF Spec

(* A run is refused for a collision exactly when a check made one finding  *)
(* twice at one position, and the findings of a report have fingerprints   *)
(* of their own (run.go:124-171).                                          *)
THEOREM FingerprintsTellApart == Spec => []CollisionsAreDuplicates
<1>1. FindingsInv /\ ReportInv => CollisionsAreDuplicates
  <2> SUFFICES ASSUME FindingsInv, ReportInv, fresh,
                      report.verdict \in {"ok", "collision"}
               PROVE  report.verdict = "collision" <=> Duplicated
    BY DEF CollisionsAreDuplicates, ReportInv, Duplicated
  <2>1. \A v : Without(v).verdict = v
    BY DEF Without
  <2>2. PICK all \in SortedOrders(Survivors) :
          report = IF Collides(all) THEN Without("collision") ELSE ReportOf(all)
    BY <2>1 DEF FindingsInv, Outcome
  <2>3. ReportOf(all).verdict = "ok"
    BY DEF ReportOf
  <2> QED
    BY <2>1, <2>2, <2>3, PlacedInv, CollidesAsDuplicated
<1> QED
  BY <1>1, FindingsInvariance, ReportInvariance, PTL

(* The smells at some places of a report are as many as the places.        *)
LEMMA SmellsCountPlaces ==
  ASSUME NEW r, Named(r), r.issues \in Seq(ReportedIssue),
         NEW S \in SUBSET DOMAIN r.issues
  PROVE  Cardinality(S) = Cardinality({r.issues[x].smell : x \in S})
<1> DEFINE T == {r.issues[x].smell : x \in S}
           smellOf == [x \in S |-> r.issues[x].smell]
<1>1. IsFiniteSet(S)
  <2>1. S \in SUBSET Nat /\ Len(r.issues) \in Nat /\ \A x \in S : x <= Len(r.issues)
    OBVIOUS
  <2> QED
    BY <2>1, FS_BoundedSetOfNaturals
<1>2. smellOf \in Surjection(S, T)
  BY DEF Surjection
<1>3. smellOf \in Injection(S, T)
  BY DEF Injection, IsInjective, Named
<1> HIDE DEF T, smellOf
<1>4. Cardinality(T) = Cardinality(S)
  BY <1>1, <1>2, <1>3, FS_Surjection
<1> QED
  BY <1>4 DEF T

LEMMA PeersOfPlace ==
  ASSUME NEW r, Named(r), NEW s \in Reported(r)
  PROVE  \E x \in DOMAIN r.issues :
           /\ r.issues[x].smell = s /\ IssueOf(r, s) = r.issues[x]
           /\ Peers(r, s) = PeerPlaces(r, x) /\ x \in Peers(r, s)
<1>1. PICK x \in DOMAIN r.issues : x = CHOOSE y \in DOMAIN r.issues : r.issues[y].smell = s
  BY DEF Reported
<1>2. r.issues[x].smell = s
  BY <1>1 DEF Reported
<1>3. IssueOf(r, s) = r.issues[x]
  BY <1>1 DEF IssueOf
<1> QED
  BY <1>2, <1>3 DEF Peers, PeerPlaces

LEMMA SamePeersSameName ==
  ASSUME NEW r, NEW q, Named(r), Named(q),
         r.issues \in Seq(ReportedIssue), q.issues \in Seq(ReportedIssue),
         NEW s \in Reported(r) \cap Reported(q), SamePeers(r, q, s)
  PROVE  IssueOf(r, s).fingerprint = IssueOf(q, s).fingerprint
<1> DEFINE views(t) == {<<t.issues[x].smell, t.issues[x].key, t.issues[x].within>> :
                          x \in Peers(t, s)}
           pairs(t) == {p \in Peers(t, s) \X Peers(t, s) : p[1] <= p[2]}
           order(t) == {<<t.issues[p[1]].smell, t.issues[p[2]].smell>> : p \in pairs(t)}
<1>1. views(r) = views(q) /\ order(r) = order(q)
  BY DEF SamePeers
<1>2. PICK x \in DOMAIN r.issues :
        /\ r.issues[x].smell = s /\ IssueOf(r, s) = r.issues[x]
        /\ Peers(r, s) = PeerPlaces(r, x) /\ x \in Peers(r, s)
  BY PeersOfPlace
<1>3. PICK y \in DOMAIN q.issues :
        /\ q.issues[y].smell = s /\ IssueOf(q, s) = q.issues[y]
        /\ Peers(q, s) = PeerPlaces(q, y) /\ y \in Peers(q, s)
  BY PeersOfPlace
<1>4. /\ \A a \in Peers(r, s) : a \in DOMAIN r.issues
      /\ \A b \in Peers(q, s) : b \in DOMAIN q.issues
  BY DEF Peers
<1>5. ASSUME NEW a \in Peers(r, s)
      PROVE  \E b \in Peers(q, s) : /\ q.issues[b].smell = r.issues[a].smell
                                    /\ q.issues[b].key = r.issues[a].key
                                    /\ q.issues[b].within = r.issues[a].within
  <2>1. <<r.issues[a].smell, r.issues[a].key, r.issues[a].within>> \in views(q)
    BY <1>1
  <2> QED
    BY <2>1
<1>6. ASSUME NEW b \in Peers(q, s)
      PROVE  \E a \in Peers(r, s) : /\ q.issues[b].smell = r.issues[a].smell
                                    /\ q.issues[b].key = r.issues[a].key
                                    /\ q.issues[b].within = r.issues[a].within
  <2>1. <<q.issues[b].smell, q.issues[b].key, q.issues[b].within>> \in views(r)
    BY <1>1
  <2> QED
    BY <2>1
<1>7. r.issues[x].key = q.issues[y].key /\ r.issues[x].within = q.issues[y].within
  <2>1. PICK b \in Peers(q, s) : /\ q.issues[b].smell = r.issues[x].smell
                                 /\ q.issues[b].key = r.issues[x].key
                                 /\ q.issues[b].within = r.issues[x].within
    BY <1>2, <1>5
  <2>2. b = y
    BY <1>2, <1>3, <1>4, <2>1 DEF Named
  <2> QED
    BY <2>1, <2>2
<1>8. Alone(r, x) <=> Alone(q, y)
  <2>1. {r.issues[a].smell : a \in Peers(r, s)} = {q.issues[b].smell : b \in Peers(q, s)}
    BY <1>5, <1>6
  <2>2. Cardinality(Peers(r, s)) = Cardinality({r.issues[a].smell : a \in Peers(r, s)})
    BY <1>4, SmellsCountPlaces
  <2>3. Cardinality(Peers(q, s)) = Cardinality({q.issues[b].smell : b \in Peers(q, s)})
    BY <1>4, SmellsCountPlaces
  <2> QED
    BY <1>2, <1>3, <2>1, <2>2, <2>3 DEF Alone
<1>9. ASSUME NEW a \in Peers(r, s), NEW b \in Peers(q, s),
             r.issues[a].smell = q.issues[b].smell
      PROVE  a <= x <=> b <= y
  <2>1. ASSUME a <= x PROVE b <= y
    <3>1. <<a, x>> \in pairs(r)
      BY <1>2, <2>1
    <3>2. <<r.issues[a].smell, s>> \in order(q)
      <4>1. PICK p \in pairs(r) : p = <<a, x>>
        BY <3>1
      <4>2. <<r.issues[p[1]].smell, r.issues[p[2]].smell>> \in order(r)
        <5> HIDE DEF pairs
        <5> QED
          OBVIOUS
      <4> QED
        BY <1>1, <1>2, <4>1, <4>2
    <3>3. PICK p \in pairs(q) :
            <<r.issues[a].smell, s>> = <<q.issues[p[1]].smell, q.issues[p[2]].smell>>
      BY <3>2
    <3>4. p[1] \in Peers(q, s) /\ p[2] \in Peers(q, s) /\ p[1] <= p[2]
      OBVIOUS
    <3>5. q.issues[p[1]].smell = q.issues[b].smell /\ q.issues[p[2]].smell = q.issues[y].smell
      BY <1>2, <1>3, <1>9, <3>3
    <3>6. p[1] = b /\ p[2] = y
      <4> HIDE DEF views, pairs, order
      <4> QED
        BY <1>2, <1>3, <1>4, <3>4, <3>5 DEF Named
    <3> QED
      BY <3>4, <3>6
  <2>2. ASSUME b <= y PROVE a <= x
    <3>1. <<b, y>> \in pairs(q)
      BY <1>3, <2>2
    <3>2. <<q.issues[b].smell, s>> \in order(r)
      <4>1. PICK p \in pairs(q) : p = <<b, y>>
        BY <3>1
      <4>2. <<q.issues[p[1]].smell, q.issues[p[2]].smell>> \in order(q)
        OBVIOUS
      <4> QED
        BY <1>1, <1>3, <4>1, <4>2
    <3>3. PICK p \in pairs(r) :
            <<q.issues[b].smell, s>> = <<r.issues[p[1]].smell, r.issues[p[2]].smell>>
      BY <3>2
    <3>4. p[1] \in Peers(r, s) /\ p[2] \in Peers(r, s) /\ p[1] <= p[2]
      OBVIOUS
    <3>5. r.issues[p[1]].smell = r.issues[a].smell /\ r.issues[p[2]].smell = r.issues[x].smell
      BY <1>2, <1>3, <1>9, <3>3
    <3>6. p[1] = a /\ p[2] = x
      <4> HIDE DEF views, pairs, order
      <4> QED
        BY <1>2, <1>3, <1>4, <3>4, <3>5 DEF Named
    <3> QED
      BY <3>4, <3>6
  <2> QED
    BY <2>1, <2>2
<1> HIDE DEF views, pairs, order
<1>10. Cardinality(NamedBefore(r, x)) = Cardinality(NamedBefore(q, y))
  <2> DEFINE R == NamedBefore(r, x)
             Q == NamedBefore(q, y)
  <2>1. R \subseteq Peers(r, s) /\ Q \subseteq Peers(q, s)
    BY <1>2, <1>3 DEF NamedBefore
  <2>2. ASSUME NEW a \in Peers(r, s), NEW b \in Peers(q, s),
               r.issues[a].smell = q.issues[b].smell,
               r.issues[a].within = q.issues[b].within
        PROVE  a \in R <=> b \in Q
    BY <1>2, <1>3, <1>7, <1>8, <1>9, <2>2 DEF NamedBefore
  <2> HIDE DEF R, Q
  <2>3. {r.issues[a].smell : a \in R} = {q.issues[b].smell : b \in Q}
    <3>1. ASSUME NEW a \in R PROVE \E b \in Q : q.issues[b].smell = r.issues[a].smell
      BY <1>5, <2>1, <2>2
    <3>2. ASSUME NEW b \in Q PROVE \E a \in R : q.issues[b].smell = r.issues[a].smell
      BY <1>6, <2>1, <2>2
    <3> QED
      BY <3>1, <3>2
  <2>4. R \subseteq DOMAIN r.issues /\ Q \subseteq DOMAIN q.issues
    BY <1>4, <2>1
  <2>5. Cardinality(R) = Cardinality({r.issues[a].smell : a \in R})
    BY <2>4, SmellsCountPlaces
  <2>6. Cardinality(Q) = Cardinality({q.issues[b].smell : b \in Q})
    BY <2>4, SmellsCountPlaces
  <2> QED
    BY <2>3, <2>5, <2>6 DEF R, Q
<1> QED
  BY <1>2, <1>3, <1>7, <1>8, <1>10 DEF Named

(* A later run renames a finding only when the findings that share its     *)
(* identity, their receivers or their order have changed: whatever else    *)
(* was edited in between, a baseline entry for it stays good               *)
(* (run.go:124-171).                                                       *)
THEOREM NamesAreStable == Spec => OnlyCollidersRenamed
<1> DEFINE Stays == \A s \in Reported(report) \cap Reported(report') :
             SamePeers(report, report', s) =>
               IssueOf(report, s).fingerprint = IssueOf(report', s).fingerprint
<1>1. /\ FindingsInv /\ ReportInv /\ FindingsInv' /\ ReportInv' /\ [Next]_vars
      => [Stays]_vars
  <2> SUFFICES ASSUME FindingsInv, ReportInv, FindingsInv', ReportInv'
               PROVE  Stays
    OBVIOUS
  <2>1. Named(report) /\ Named(report')
    BY DEF ReportInv, Named, Alone, NamedBefore, PeerPlaces
  <2>2. /\ report.issues \in Seq(ReportedIssue)
        /\ report'.issues \in Seq(ReportedIssue)
    BY DEF FindingsInv, TypeOK
  <2> QED
    BY <2>1, <2>2, SamePeersSameName
<1> QED
  BY <1>1, FindingsInvariance, ReportInvariance, PTL DEF OnlyCollidersRenamed, Spec

(***************************************************************************)
(* Declarations and directives.                                            *)
(***************************************************************************)
LEMMA DocStartFacts ==
  ASSUME Placed, NEW f \in Files, NEW h \in Heads(f) \cup Groups(f)
  PROVE  /\ DocStart(f, h) \in 1..h
         /\ \A m \in DocStart(f, h)..(h - 1) : IsComment(source[f][m])
<1>1. h \in Nat \ {0} /\ h \in DOMAIN source[f]
  BY LineFacts DEF Heads, Groups
<1> DEFINE Doc(n) == \A m \in n..(h - 1) : IsComment(source[f][m])
           Ok(n) == Doc(n) /\ (n > 1 => ~ IsComment(source[f][n - 1]))
           D == {n \in 1..h : Doc(n)}
<1>2. h \in D
  BY <1>1
<1>3. PICK n \in D : \A k \in D : n <= k
  <2> HIDE DEF Doc
  <2>1. D \in SUBSET Nat /\ D # {}
    BY <1>1, <1>2
  <2> HIDE DEF D
  <2> QED
    BY <2>1, LeastNatural
<1>4. n \in 1..h /\ Doc(n)
  OBVIOUS
<1>5. ASSUME n > 1, IsComment(source[f][n - 1]) PROVE FALSE
  <2>1. n - 1 \in 1..h
    BY <1>1, <1>4, <1>5
  <2>2. Doc(n - 1)
    <3>1. \A m \in (n - 1)..(h - 1) : m = n - 1 \/ m \in n..(h - 1)
      BY <1>1, <1>4
    <3> QED
      BY <1>4, <1>5, <3>1
  <2>3. n <= n - 1
    BY <1>3, <2>1, <2>2
  <2> QED
    BY <1>1, <1>4, <2>3
<1>6. \E k \in 1..h : Ok(k)
  BY <1>4, <1>5
<1>7. DocStart(f, h) = CHOOSE k \in 1..h : Ok(k)
  BY DEF DocStart
<1> HIDE DEF Ok
<1>8. DocStart(f, h) \in 1..h /\ Ok(DocStart(f, h))
  BY <1>6, <1>7
<1> QED
  BY <1>8 DEF Ok

LEMMA GroupFacts ==
  ASSUME Placed, NEW f \in Files, NEW h \in Heads(f), NEW g \in Documented(f, h)
  PROVE  /\ g \in Groups(f) /\ g \in Nat \ {0} /\ g < h
         /\ source[f][h].part = "spec"
<1>1. g \in Groups(f) /\ g < h /\ source[f][h].part = "spec"
  BY DEF Documented, GroupsOf
<1>2. g \in DOMAIN source[f]
  BY <1>1 DEF Groups
<1>3. g \in Nat \ {0}
  BY <1>2, LineFacts
<1> QED
  BY <1>1, <1>3

(* The span of a declaration begins with its own comment, or with the      *)
(* comment of its group.                                                   *)
LEMMA SpanStartFacts ==
  ASSUME Placed, NEW f \in Files, NEW h \in Heads(f)
  PROVE  /\ SpanStart(f, h) \in 1..h
         /\ \/ \A m \in SpanStart(f, h)..(h - 1) : IsComment(source[f][m])
            \/ \E g \in Documented(f, h) : SpanStart(f, h) = DocStart(f, g)
<1>1. h \in Nat \ {0}
  BY LineFacts DEF Heads
<1>2. CASE source[f][h].part # "spec"
  <2>1. SpanStart(f, h) = DocStart(f, h)
    BY <1>2 DEF SpanStart
  <2> QED
    BY <2>1, DocStartFacts
<1>3. CASE source[f][h].part = "spec" /\ Documented(f, h) = {}
  <2>1. SpanStart(f, h) = h
    BY <1>3 DEF SpanStart
  <2>2. h..(h - 1) = {} /\ h \in 1..h
    BY <1>1
  <2> QED
    BY <2>1, <2>2
<1>4. CASE source[f][h].part = "spec" /\ Documented(f, h) # {}
  <2> DEFINE g == CHOOSE k \in Documented(f, h) : TRUE
  <2>1. g \in Documented(f, h) /\ SpanStart(f, h) = DocStart(f, g)
    BY <1>4 DEF SpanStart
  <2> HIDE DEF g
  <2>2. g \in Groups(f) /\ g \in Nat \ {0} /\ g < h
    BY <2>1, GroupFacts
  <2>3. DocStart(f, g) \in 1..g
    BY <2>2, DocStartFacts
  <2>4. DocStart(f, g) \in 1..h
    BY <1>1, <2>2, <2>3
  <2> QED
    BY <2>1, <2>4
<1> QED
  BY <1>2, <1>3, <1>4

LEMMA DeclarationFacts ==
  ASSUME Placed, NEW f \in Files, NEW h \in Heads(f)
  PROVE  /\ h \in Nat /\ h \in DOMAIN source[f] /\ h \in LinesOf(f, h)
         /\ source[f][h].part \in {"func", "type", "spec"}
         /\ LinesOf(f, h) \subseteq DOMAIN source[f]
         /\ DeclEnd(f, h) \in LinesOf(f, h)
         /\ \A m \in LinesOf(f, h) : m \in Nat /\ m >= h /\ m <= DeclEnd(f, h)
         /\ HeaderEnd(f, h) \in LinesOf(f, h)
         /\ source[f][HeaderEnd(f, h)].part # "body"
         /\ \A m \in LinesOf(f, h) :
              m > HeaderEnd(f, h) => source[f][m].part = "body"
<1>1. h \in Nat /\ h \in DOMAIN source[f] /\ source[f][h].part \in {"func", "type", "spec"}
  BY LineFacts DEF Heads
<1>2. \A m \in LinesOf(f, h) : /\ m \in DOMAIN source[f] /\ m \in Nat /\ m >= h
                               /\ m <= Len(source[f])
  BY LineFacts DEF LinesOf
<1>3. h \in LinesOf(f, h)
  <2>1. \A k \in Heads(f) \cup Groups(f) : k \in Nat /\ ~ (h < k /\ k <= h)
    BY <1>1, LineFacts DEF Heads, Groups
  <2> QED
    BY <1>1, <2>1 DEF LinesOf
<1>4. \E n \in LinesOf(f, h) : \A m \in LinesOf(f, h) : m <= n
  <2>1. /\ LinesOf(f, h) \in SUBSET Nat /\ LinesOf(f, h) # {}
        /\ Len(source[f]) \in Nat
    BY <1>2, <1>3, LineFacts
  <2> QED
    BY <1>2, <2>1, GreatestNatural
<1>5. /\ DeclEnd(f, h) \in LinesOf(f, h)
      /\ \A m \in LinesOf(f, h) : m <= DeclEnd(f, h)
  BY <1>4 DEF DeclEnd
<1> DEFINE N == {n \in LinesOf(f, h) : source[f][n].part # "body"}
           Last(n) == /\ source[f][n].part # "body"
                      /\ \A m \in LinesOf(f, h) : m > n => source[f][m].part = "body"
<1>6. \E n \in LinesOf(f, h) : Last(n)
  <2>1. /\ N \in SUBSET Nat /\ h \in N /\ Len(source[f]) \in Nat
        /\ \A m \in N : m <= Len(source[f])
    BY <1>1, <1>2, <1>3, LineFacts
  <2>2. PICK n \in N : \A m \in N : m <= n
    <3> HIDE DEF N
    <3> QED
      BY <2>1, GreatestNatural
  <2>3. ASSUME NEW m \in LinesOf(f, h), m > n PROVE source[f][m].part = "body"
    <3>1. m \in Nat /\ n \in Nat /\ ~ (m <= n)
      BY <1>2, <2>3
    <3> QED
      BY <2>2, <3>1
  <2> QED
    BY <2>2, <2>3
<1>7. HeaderEnd(f, h) = CHOOSE n \in LinesOf(f, h) : Last(n)
  BY DEF HeaderEnd
<1> HIDE DEF Last
<1>8. HeaderEnd(f, h) \in LinesOf(f, h) /\ Last(HeaderEnd(f, h))
  BY <1>6, <1>7
<1> QED
  BY <1>1, <1>2, <1>3, <1>5, <1>8 DEF Last

(* A line is of one declaration.                                           *)
LEMMA OneDeclaration ==
  ASSUME Placed, NEW f \in Files, NEW h \in Heads(f), NEW k \in Heads(f),
         NEW n \in LinesOf(f, h), n \in LinesOf(f, k)
  PROVE  h = k
<1>1. h \in Nat /\ k \in Nat /\ h <= n /\ k <= n
  BY DeclarationFacts
<1>2. ~ (h < k) /\ ~ (k < h)
  BY <1>1 DEF LinesOf
<1> QED
  BY <1>1, <1>2

(* No body line comes before the end of a header: a parameter follows the  *)
(* function's name or another parameter.                                   *)
LEMMA HeaderHasNoBody ==
  ASSUME Placed, NEW f \in Files, NEW h \in Heads(f),
         NEW n \in DOMAIN source[f], n > h, n < HeaderEnd(f, h)
  PROVE  source[f][n].part # "body"
<1> SUFFICES ASSUME source[f][n].part = "body" PROVE FALSE
  OBVIOUS
<1> DEFINE e == HeaderEnd(f, h)
           C == {c \in LinesOf(f, h) : n < c /\ source[f][c].part # "body"}
<1>1. /\ e \in LinesOf(f, h) /\ source[f][e].part # "body"
      /\ h \in Nat /\ n \in Nat /\ e \in Nat
  BY DeclarationFacts, LineFacts
<1>2. C \in SUBSET Nat /\ e \in C
  BY <1>1, DeclarationFacts
<1>3. PICK c \in C : \A k \in C : c <= k
  <2> HIDE DEF C, e
  <2> QED
    BY <1>2, LeastNatural
<1>4. /\ c \in LinesOf(f, h) /\ n < c /\ source[f][c].part # "body"
      /\ c \in DOMAIN source[f] /\ c \in Nat /\ c > h
  BY <1>1, DeclarationFacts
<1>5. c \notin Heads(f) /\ c \notin Groups(f)
  BY <1>4 DEF LinesOf
<1>6. source[f][c].part = "param"
  BY <1>4, <1>5, LineFacts DEF Heads, Groups, LinesOf, Parts
<1> DEFINE before == {m \in 1..(c - 1) : source[f][m].part # "none"}
<1>7. PICK m \in before : /\ source[f][m].part \in {"func", "param"}
                          /\ \A k \in before : k <= m
  BY <1>4, <1>6, LineFacts DEF WellFormed, InDeclarations
<1>8. n \in before
  <2>1. n \in 1..(c - 1)
    BY <1>1, <1>4, LineFacts
  <2> QED
    BY <2>1
<1>9. m \in Nat /\ m < c /\ n <= m /\ m \in DOMAIN source[f]
  <2>1. m \in 1..(c - 1) /\ n <= m
    BY <1>7, <1>8
  <2>2. c <= Len(source[f]) /\ Len(source[f]) \in Nat
    BY <1>4, LineFacts
  <2> QED
    BY <1>4, <2>1, <2>2, LineFacts
<1>10. m # n
  BY <1>7
<1>11. m \in LinesOf(f, h)
  <2>1. \A k \in Heads(f) \cup Groups(f) : k \in Nat /\ ~ (h < k /\ k <= c)
    BY <1>4, LineFacts DEF LinesOf, Heads, Groups
  <2>2. m >= h /\ \A k \in Heads(f) \cup Groups(f) : ~ (h < k /\ k <= m)
    BY <1>1, <1>4, <1>9, <2>1
  <2> QED
    BY <1>7, <1>9, <2>2 DEF LinesOf
<1>12. m \in C
  BY <1>1, <1>7, <1>9, <1>10, <1>11
<1>13. c <= m
  BY <1>3, <1>12
<1> QED
  BY <1>4, <1>9, <1>13

(* Lines of code in the span of a directive are of the declaration, and    *)
(* of no function's body.                                                  *)
SpanEnd(f, h) == IF source[f][h].part = "func" THEN HeaderEnd(f, h) ELSE DeclEnd(f, h)

LEMMA SpanFacts ==
  ASSUME Placed, NEW f \in Files, NEW h \in Heads(f)
  PROVE  /\ DeclarationSpan(f, h) = SpanStart(f, h)..SpanEnd(f, h)
         /\ SpanEnd(f, h) \in LinesOf(f, h) /\ SpanEnd(f, h) \in Nat
         /\ \A n \in DOMAIN source[f] :
              n > h /\ n <= SpanEnd(f, h) => n \notin Heads(f) \cup Groups(f)
         /\ \A n \in DOMAIN source[f] :
              h <= n /\ n <= SpanEnd(f, h) => ~ InFunctionBody(f, n)
<1>1. DeclarationSpan(f, h) = SpanStart(f, h)..SpanEnd(f, h)
  BY DEF DeclarationSpan, SpanEnd
<1>2. /\ SpanEnd(f, h) \in LinesOf(f, h) /\ SpanEnd(f, h) \in Nat
      /\ h \in Nat
  BY DeclarationFacts DEF SpanEnd
<1>3. ASSUME NEW n \in DOMAIN source[f], n > h, n <= SpanEnd(f, h)
      PROVE  n \notin Heads(f) \cup Groups(f)
  BY <1>2, <1>3 DEF LinesOf
<1>4. ASSUME NEW n \in DOMAIN source[f], h <= n, n <= SpanEnd(f, h),
             InFunctionBody(f, n)
      PROVE  FALSE
  <2>1. n \in Nat /\ source[f][n].part = "body"
    BY <1>4, LineFacts DEF InFunctionBody
  <2>2. n \in LinesOf(f, h)
    <3>1. \A k \in Heads(f) \cup Groups(f) :
            k \in Nat /\ ~ (h < k /\ k <= SpanEnd(f, h))
      BY <1>2, LineFacts DEF LinesOf, Heads, Groups
    <3>2. \A k \in Heads(f) \cup Groups(f) : ~ (h < k /\ k <= n)
      BY <1>2, <1>4, <2>1, <3>1
    <3> QED
      BY <1>4, <2>1, <3>2 DEF LinesOf
  <2>3. PICK k \in Heads(f) : source[f][k].part = "func" /\ n \in LinesOf(f, k)
    BY <1>4 DEF InFunctionBody
  <2>4. k = h
    BY <2>2, <2>3, OneDeclaration
  <2>5. SpanEnd(f, h) = HeaderEnd(f, h) /\ source[f][h].part = "func"
    BY <2>3, <2>4 DEF SpanEnd
  <2>6. n > h /\ n < HeaderEnd(f, h)
    <3>1. source[f][HeaderEnd(f, h)].part # "body"
      BY DeclarationFacts
    <3> QED
      BY <1>2, <1>4, <2>1, <2>5, <3>1
  <2> QED
    BY <2>1, <2>6, HeaderHasNoBody
<1> QED
  BY <1>1, <1>2, <1>3, <1>4

(* What a directive suppresses elsewhere than next to it is in the header  *)
(* that it is for, or in the documented group.                             *)
LEMMA MatchesInHeader ==
  ASSUME Placed, NEW f \in Files, NEW d \in DOMAIN source[f],
         NEW n \in DOMAIN source[f], source[f][n].part # "none",
         MatchesLocation(f, d, n)
  PROVE  n \in {d, d + 1} \/ SameHeader(f, d, n) \/ SameGroup(f, d, n)
<1>1. CASE d = n \/ d + 1 = n
  BY <1>1
<1>2. CASE \E h \in Heads(f) :
             /\ d \in DeclarationSpan(f, h) \/ d + 1 = SpanStart(f, h)
             /\ n \in DeclarationSpan(f, h)
  <2>1. PICK h \in Heads(f) : /\ d \in DeclarationSpan(f, h) \/ d + 1 = SpanStart(f, h)
                              /\ n \in DeclarationSpan(f, h)
    BY <1>2
  <2> DEFINE s == SpanStart(f, h)
             e == SpanEnd(f, h)
  <2>2. /\ h \in Nat /\ d \in Nat \ {0} /\ n \in Nat \ {0} /\ s \in 1..h /\ e \in Nat
        /\ DeclarationSpan(f, h) = s..e /\ h <= e
        /\ h \in DOMAIN source[f] /\ source[f][h].part # "none"
    <3>1. h \in Nat /\ h \in DOMAIN source[f] /\ source[f][h].part # "none"
      BY DeclarationFacts
    <3>2. d \in Nat \ {0} /\ n \in Nat \ {0}
      BY LineFacts
    <3>3. DeclarationSpan(f, h) = s..e /\ e \in Nat
      BY SpanFacts
    <3>4. s \in 1..h
      BY SpanStartFacts
    <3>5. h <= e
      BY SpanFacts, DeclarationFacts
    <3> HIDE DEF s, e
    <3> QED
      BY <3>1, <3>2, <3>3, <3>4, <3>5
  <2>3. s <= n /\ n <= e /\ s <= d + 1 /\ d <= e
    <3>1. /\ d \in s..e \/ d + 1 = s
          /\ n \in s..e
      BY <2>1, <2>2
    <3>2. s \in Nat /\ e \in Nat /\ s <= e
      BY <2>2
    <3> HIDE DEF s, e
    <3> QED
      BY ONLY <2>2, <3>1, <3>2
  <2>4. CASE \A m \in s..(h - 1) : IsComment(source[f][m])
    <3>1. h <= n
      <4> SUFFICES ASSUME n < h PROVE FALSE
        BY <2>2
      <4>1. n \in s..(h - 1)
        BY <2>2, <2>3
      <4> QED
        BY <2>4, <4>1 DEF IsComment
    <3>2. n \in LinesOf(f, h)
      <4>1. \A k \in Heads(f) \cup Groups(f) : k \in DOMAIN source[f] /\ k \in Nat
        BY LineFacts DEF Heads, Groups
      <4>2. \A k \in Heads(f) \cup Groups(f) : ~ (h < k /\ k <= n)
        BY <2>2, <2>3, <4>1, SpanFacts
      <4> QED
        BY <3>1, <4>2 DEF LinesOf
    <3>3. ~ InFunctionBody(f, n)
      BY <2>3, <3>1, SpanFacts
    <3>4. \A m \in d + 1..h - 1 : IsComment(source[f][m])
      <4>1. \A m \in d + 1..h - 1 : m \in s..(h - 1)
        BY <2>2, <2>3
      <4> QED
        BY <2>4, <4>1
    <3>5. \A m \in h + 1..d : m \notin Heads(f) /\ ~ InFunctionBody(f, m)
      <4>1. \A m \in h + 1..d : /\ m \in DOMAIN source[f]
                                /\ m > h /\ h <= m /\ m <= e
        BY <2>2, <2>3, LineFacts
      <4> QED
        BY <4>1, SpanFacts
    <3> QED
      BY <3>2, <3>3, <3>4, <3>5 DEF SameHeader
  <2>5. CASE \E g \in Documented(f, h) : s = DocStart(f, g)
    <3>1. PICK g \in Documented(f, h) : s = DocStart(f, g)
      BY <2>5
    <3>2. /\ g \in Nat \ {0} /\ g < h /\ e = DeclEnd(f, h)
          /\ s \in 1..g /\ \A m \in s..(g - 1) : IsComment(source[f][m])
      <4>1. /\ g \in Groups(f) /\ g \in Nat \ {0} /\ g < h
            /\ source[f][h].part = "spec"
        BY <3>1, GroupFacts
      <4>2. e = DeclEnd(f, h)
        BY <4>1 DEF SpanEnd
      <4> QED
        BY <3>1, <4>1, <4>2, DocStartFacts
    <3>3. g <= n
      <4> SUFFICES ASSUME n < g PROVE FALSE
        BY <2>2, <3>2
      <4>1. n \in s..(g - 1)
        BY <2>2, <2>3, <3>2
      <4> QED
        BY <3>2, <4>1 DEF IsComment
    <3>4. \A m \in d + 1..g - 1 : m \in s..(g - 1)
      BY <2>2, <2>3, <3>2
    <3>5. {d, n} \subseteq 1..DeclEnd(f, h)
      BY <2>2, <2>3, <3>2
    <3> QED
      BY <3>1, <3>2, <3>3, <3>4, <3>5 DEF SameGroup
  <2> QED
    BY <2>4, <2>5, SpanStartFacts
<1> QED
  BY <1>1, <1>2 DEF MatchesLocation

LEMMA SuppressedMayBeCovered ==
  ASSUME Placed, NEW i \in RawIssues, IssueSuppressed(i)
  PROVE  MayCover(i)
<1> DEFINE Places == Related(i) \cup {<<i.file, i.line>>}
<1>1. /\ i.file \in Files /\ i.line \in DOMAIN source[i.file]
      /\ i.smell \in source[i.file][i.line].smells
  BY RawIssuesPlaced
<1>2. ASSUME NEW at \in Places
      PROVE  /\ at[1] \in Files /\ at[2] \in DOMAIN source[at[1]]
             /\ source[at[1]][at[2]].part # "none"
  <2>1. CASE at = <<i.file, i.line>>
    BY <1>1, <2>1, LineFacts DEF WellFormed, InDeclarations
  <2>2. CASE at \in Related(i)
    <3>1. /\ at[1] \in Files /\ at[2] \in DOMAIN source[at[1]]
          /\ i.smell \in source[at[1]][at[2]].anchors
      BY <2>2 DEF Related
    <3> QED
      BY <3>1, LineFacts DEF WellFormed, InDeclarations
  <2> QED
    BY <2>1, <2>2
<1>3. ASSUME NEW at \in Places, LocationSuppressed(i.check, at[1], at[2])
      PROVE  MayCover(i)
  <2>1. PICK d \in Directives(at[1], "line") :
          /\ DirectiveMatches(source[at[1]][d].note, i.check)
          /\ MatchesLocation(at[1], d, at[2])
    BY <1>3 DEF LocationSuppressed
  <2>2. d \in DOMAIN source[at[1]]
    BY DEF Directives
  <2>3. \/ at[2] \in {d, d + 1} \/ SameHeader(at[1], d, at[2])
        \/ SameGroup(at[1], d, at[2])
    BY <1>2, <2>1, <2>2, MatchesInHeader
  <2> QED
    BY <2>1, <2>3 DEF MayCover
<1>4. CASE \E d \in Directives(i.file, "file") :
             DirectiveMatches(source[i.file][d].note, i.check)
  BY <1>4 DEF MayCover
<1>5. CASE LocationSuppressed(i.check, i.file, i.line)
  BY <1>3, <1>5
<1>6. CASE \E at \in Related(i) : LocationSuppressed(i.check, at[1], at[2])
  BY <1>3, <1>6
<1> QED
  BY <1>4, <1>5, <1>6 DEF IssueSuppressed

LEMMA CurrentReport ==
  ASSUME FindingsInv, Current
  PROVE  /\ Reported(report) = {i.smell : i \in Survivors}
         /\ \A id \in CheckIDs : report.coverage[id] = CheckCoverage(id)
<1>1. \A v : Without(v).verdict = v
  BY DEF Without
<1>2. PICK all \in SortedOrders(Survivors) :
        report = IF Collides(all) THEN Without("collision") ELSE ReportOf(all)
  BY <1>1 DEF FindingsInv, Outcome, Current
<1>3. report = ReportOf(all)
  BY <1>1, <1>2 DEF Current
<1>4. /\ DOMAIN report.issues = DOMAIN all
      /\ \A x \in DOMAIN all : report.issues[x].smell = all[x].smell
      /\ \A id \in CheckIDs : report.coverage[id] = CheckCoverage(id)
  BY <1>3 DEF ReportOf
<1>5. Reported(report) = {i.smell : i \in Survivors}
  BY <1>4, PlacedInv, OrderLists DEF Reported
<1> QED
  BY <1>4, <1>5

(* Whatever sources, selection and mode: a finding that is missing from a  *)
(* report was not selected, is said by the statistics to need types that   *)
(* are not there, or has a directive on its line, the line before or its   *)
(* declaration's header, or one in the group of types it stands in, if     *)
(* that has a comment of its own (run.go:103-240, 466-598;                 *)
(* stats.go:130-180).                                                      *)
THEOREM NothingVanishes == Spec => []OmissionsExplained
<1>1. FindingsInv => OmissionsExplained
  <2> SUFFICES ASSUME FindingsInv, Current, NEW i \in RawIssues,
                      i.smell \notin Reported(report), ~ MayCover(i)
               PROVE  report.coverage[i.check] \in
                        {"not-selected", "partial", "unavailable"}
    BY DEF OmissionsExplained
  <2>1. Placed
    BY PlacedInv
  <2>2. i.check \in CheckIDs /\ i.file \in Files
    BY <2>1, RawIssuesPlaced
  <2>3. report.coverage[i.check] = CheckCoverage(i.check)
    BY <2>2, CurrentReport
  <2>4. i \notin Survivors
    BY CurrentReport
  <2>5. ~ IssueSuppressed(i)
    BY <2>1, SuppressedMayBeCovered
  <2>6. CASE i.check \notin PlanChecks(settings)
    BY <2>3, <2>6 DEF CheckCoverage
  <2>7. CASE i.check \in PlanChecks(settings)
    <3>1. i \in PlannedIssues
      <4>1. \A j \in RawIssues : j.check \in CheckIDs
        BY <2>1, RawIssuesPlaced
      <4> QED
        BY <2>7, <4>1, PlanReportsSelection DEF PlannedIssues
    <3>2. ~ ModeSupports(i)
      BY <2>4, <2>5, <3>1 DEF Survivors
    <3>3. CheckByID[i.check].syntax = "unavailable"
      BY <3>2 DEF ModeSupports
    <3>4. ~ complete[i.file]
      <4>1. settings.mode \in {"auto", "syntax", "types"}
        BY InputsAssumption DEF FindingsInv, TypeOK
      <4> QED
        BY <2>2, <3>2, <4>1 DEF ModeSupports, FindingsInv
    <3> QED
      BY <2>2, <2>3, <2>7, <3>3, <3>4 DEF CheckCoverage
  <2> QED
    BY <2>6, <2>7
<1> QED
  BY <1>1, FindingsInvariance, PTL

(* A directive that the README promises to honour is honoured, for any     *)
(* sources: no reported finding has one on its line, on the line before,   *)
(* in its signature of several lines, or for its file                      *)
(* (README.md:285-293, run.go:466-598).                                    *)
THEOREM DirectivesAreHonoured == Spec => []DirectivesHonoured
<1>1. FindingsInv => DirectivesHonoured
  <2> SUFFICES ASSUME FindingsInv, Current, NEW i \in RawIssues,
                      i.smell \in Reported(report)
               PROVE  /\ \A d \in Directives(i.file, "file") :
                           ~ DirectiveMatches(source[i.file][d].note, i.check)
                      /\ \A d \in Directives(i.file, "line") :
                           DirectiveMatches(source[i.file][d].note, i.check) =>
                             /\ i.line \notin {d, d + 1}
                             /\ ~ \E h \in Heads(i.file) :
                                    /\ {d, i.line} \subseteq LinesOf(i.file, h)
                                    /\ {source[i.file][d].part,
                                        source[i.file][i.line].part}
                                         \subseteq {"func", "param"}
    BY DEF DirectivesHonoured
  <2>1. Placed
    BY PlacedInv
  <2>2. i \in Survivors
    <3>1. PICK j \in Survivors : j.smell = i.smell
      BY CurrentReport
    <3> QED
      BY <2>1, <3>1, SurvivorsRaw, OneIssuePerSmell
  <2>3. ~ IssueSuppressed(i) /\ i.file \in Files
    BY <2>1, <2>2, RawIssuesPlaced DEF Survivors
  <2>4. ASSUME NEW d \in Directives(i.file, "line"),
               DirectiveMatches(source[i.file][d].note, i.check)
        PROVE  ~ MatchesLocation(i.file, d, i.line)
    BY <2>3, <2>4 DEF IssueSuppressed, LocationSuppressed
  <2>5. ASSUME NEW d \in Directives(i.file, "line"), NEW h \in Heads(i.file),
               {d, i.line} \subseteq LinesOf(i.file, h),
               {source[i.file][d].part, source[i.file][i.line].part}
                 \subseteq {"func", "param"}
        PROVE  MatchesLocation(i.file, d, i.line)
    <3> DEFINE s == SpanStart(i.file, h)
               e == SpanEnd(i.file, h)
    <3>1. /\ h \in Nat /\ s \in 1..h /\ e \in Nat
          /\ DeclarationSpan(i.file, h) = s..e
      BY <2>1, <2>3, DeclarationFacts, SpanStartFacts, SpanFacts
    <3>2. ASSUME NEW n \in LinesOf(i.file, h),
                 source[i.file][n].part \in {"func", "param"}
          PROVE  n \in s..e
      <4>1. n \in Nat /\ h <= n /\ n <= DeclEnd(i.file, h)
        BY <2>1, <2>3, DeclarationFacts
      <4>2. HeaderEnd(i.file, h) \in Nat /\ DeclEnd(i.file, h) \in Nat
        BY <2>1, <2>3, DeclarationFacts
      <4>3. n <= HeaderEnd(i.file, h)
        BY <2>1, <2>3, <3>2, <4>1, <4>2, DeclarationFacts
      <4> QED
        BY <3>1, <4>1, <4>2, <4>3 DEF SpanEnd
    <3>3. d \in s..e /\ i.line \in s..e
      BY <2>5, <3>2
    <3> QED
      BY <3>1, <3>3 DEF MatchesLocation
  <2> QED
    BY <2>3, <2>4, <2>5 DEF IssueSuppressed, MatchesLocation
<1> QED
  BY <1>1, FindingsInvariance, PTL

=============================================================================
