-------------------------- MODULE Baseline_proofs --------------------------
(***************************************************************************)
(* Proofs about Baseline: types, what an update may write, and that no     *)
(* finding is hidden by a document nobody accepted.                        *)
(***************************************************************************)
EXTENDS Baseline, TLAPS

(***************************************************************************)
(* Lemmas about documents.                                                 *)
(***************************************************************************)
(* A document's entries are annotations of fingerprints.                   *)
LEMMA DocumentEntries ==
  ASSUME NEW d \in Documents
  PROVE  /\ Accepts(d) \subseteq Fingerprints
         /\ \A f \in Accepts(d) : d.entries[f] \in Annotations
         /\ d \notin {Absent, Unreadable, NoDocument}
<1>1. PICK S \in SUBSET Fingerprints : d.entries \in [S -> Annotations]
  BY DEF Documents
<1> QED
  BY <1>1, FilesAssumption DEF Accepts

(* The annotation of prune and of version 4 entries has the type of one.   *)
LEMMA NoAnnotationType == NoAnnotation \in Annotations
BY DEF NoAnnotation, Annotations

(* No entry is without a reason: prune accepts nothing.                    *)
LEMMA NoAnnotationInvalid == ~ValidAnnotation(NoAnnotation)
BY FilesAssumption DEF NoAnnotation, ValidAnnotation

(* init and -write-baseline start from a document that accepts nothing.    *)
LEMMA EmptyDocumentType ==
  EmptyDocument \in Documents /\ Accepts(EmptyDocument) = {}
<1>1. [f \in {} |-> NoAnnotation] \in [{} -> Annotations]
  OBVIOUS
<1>2. [{} -> Annotations] \in {[S -> Annotations] : S \in SUBSET Fingerprints}
  OBVIOUS
<1>3. [f \in {} |-> NoAnnotation]
        \in UNION {[S -> Annotations] : S \in SUBSET Fingerprints}
  BY <1>1, <1>2
<1> QED
  BY <1>3 DEF EmptyDocument, Documents, Accepts

(* Update returns a document of version 5 over the stale entries it keeps  *)
(* and the current findings.                                               *)
LEMMA UpdatedType ==
  ASSUME NEW d \in Documents, NEW current \in SUBSET Fingerprints,
         NEW a \in Annotations, NEW prune \in BOOLEAN
  PROVE  /\ Updated(d, current, a, prune) \in Documents
         /\ Updated(d, current, a, prune).version = 5
<1> DEFINE S == current \cup (IF prune THEN {} ELSE Stale(d, current))
           e == [f \in S |->
                  IF \/ f \in Stale(d, current)
                     \/ f \in Live(d, current) /\ d.entries[f].reason # NoReason
                    THEN d.entries[f] ELSE a]
<1>1. S \in SUBSET Fingerprints
  BY DocumentEntries DEF Stale
<1>2. \A f \in S : e[f] \in Annotations
  BY DocumentEntries DEF Stale, Live
<1>3. e \in [S -> Annotations]
  BY <1>2
<1>4. e \in UNION {[T -> Annotations] : T \in SUBSET Fingerprints}
  BY <1>1, <1>3
<1>5. Updated(d, current, a, prune) = [version |-> 5, entries |-> e]
  BY DEF Updated
<1> HIDE DEF e
<1> QED
  BY <1>4, <1>5 DEF Documents

(* Each entry Update returns is an entry it was given, or a current        *)
(* finding under the new annotation.                                       *)
LEMMA UpdatedEntries ==
  ASSUME NEW d, NEW current, NEW a, NEW prune,
         NEW f \in Accepts(Updated(d, current, a, prune))
  PROVE  \/ /\ f \in Accepts(d)
            /\ Updated(d, current, a, prune).entries[f] = d.entries[f]
         \/ /\ f \in current
            /\ Updated(d, current, a, prune).entries[f] = a
BY DEF Updated, Accepts, Stale, Live

(***************************************************************************)
(* The inductive invariant.                                                *)
(***************************************************************************)
ReadyFoundNothing == \A c \in Commands : pc[c] = "ready" => issues[c] = {}
LoadedHolds ==
  \A c \in Commands :
    pc[c] = "loaded" =>
      doc[c] \in Documents /\ Kind(c) \in {"diff", "update", "prune"}
AllReviewed(d) == \A f \in Accepts(d) : Reviewed(f, d.entries[f])
HeldIsReviewed ==
  \A c \in Commands : doc[c] \in Documents => AllReviewed(doc[c])
FileIsReviewed == file \in Documents => AllReviewed(file)

BaselineInv ==
  /\ TypeOK /\ ReadyFoundNothing /\ LoadedHolds
  /\ HeldIsReviewed /\ FileIsReviewed
  /\ PassingCheckHidesNothing

(* What a command that is about to write passes to Update has the types    *)
(* Update expects.                                                         *)
LEMMA ArgumentTypes ==
  ASSUME TypeOK, LoadedHolds, NEW c \in Commands, Writing(c)
  PROVE  /\ Base(c) \in Documents
         /\ issues[c] \in SUBSET Fingerprints
         /\ Annotation(c) \in Annotations
         /\ Prunes(c) \in BOOLEAN
<1>1. invocation[c] \in InvocationType
  BY InvocationsAssumption DEF TypeOK
<1>2. Base(c) \in Documents
  <2>1. CASE Kind(c) \in {"check", "init"}
    BY <2>1, EmptyDocumentType DEF Base
  <2>2. CASE Kind(c) \notin {"check", "init"}
    BY <2>2 DEF Base, Writing, LoadedHolds
  <2> QED BY <2>1, <2>2
<1>3. Annotation(c) \in Annotations
  BY <1>1, NoAnnotationType DEF Annotation, InvocationType
<1>4. Prunes(c) \in BOOLEAN
  BY <1>1 DEF Prunes, InvocationType
<1> QED
  BY <1>2, <1>3, <1>4 DEF TypeOK

(* What a command writes is a document of version 5.                       *)
LEMMA WrittenType ==
  ASSUME TypeOK, LoadedHolds, NEW c \in Commands, Write(c)
  PROVE  file' \in Documents /\ file'.version = 5 /\ ValidDocument(file')
<1>1. Writing(c) /\ CanUpdate(Base(c), issues[c], Annotation(c), Prunes(c))
      /\ file' = Updated(Base(c), issues[c], Annotation(c), Prunes(c))
  BY DEF Write
<1>2. ValidDocument(file')
  BY <1>1 DEF CanUpdate
<1> QED
  BY <1>1, <1>2, ArgumentTypes, UpdatedType

LEMMA TypeStep ==
  ASSUME TypeOK, LoadedHolds, [Next]_vars
  PROVE  TypeOK'
<1> USE BoundsAssumption
<1>1. ASSUME NEW c \in Commands, Analyse(c) PROVE TypeOK'
  BY <1>1 DEF TypeOK, Analyse, Exit, world
<1>2. ASSUME NEW c \in Commands, LoadDocument(c) PROVE TypeOK'
  <2>1. Loadable(file) => file \in Documents
    BY DEF Loadable, TypeOK
  <2> QED
    BY <1>2, <2>1 DEF TypeOK, LoadDocument, Exit, world
<1>3. ASSUME NEW c \in Commands, Write(c) PROVE TypeOK'
  <2>1. file' \in Documents
    BY <1>3, WrittenType
  <2> QED
    BY <1>3, <2>1 DEF TypeOK, Write, world
<1>4. ASSUME NEW c \in Commands, Refuse(c) \/ WriteFails(c) \/ RenderDiff(c)
      PROVE  TypeOK'
  <2>1. PICK e \in 0..2 : Exit(c, e)
    BY <1>4 DEF Refuse, WriteFails, RenderDiff
  <2> QED
    BY <1>4, <2>1 DEF TypeOK, Refuse, WriteFails, RenderDiff, Exit, world
<1>5. ASSUME NEW c \in Commands, CheckBaseline(c) PROVE TypeOK'
  <2>1. Loadable(file) => file \in Documents
    BY DEF Loadable, TypeOK
  <2>2. PICK e \in 0..2 : Exit(c, e)
    BY <1>5 DEF CheckBaseline
  <2>3. doc' \in [Commands -> Documents \cup {NoDocument}]
    BY <1>5, <2>1 DEF TypeOK, CheckBaseline
  <2>4. day' \in [Commands -> Days]
    BY <1>5 DEF TypeOK, CheckBaseline
  <2> QED
    BY <1>5, <2>2, <2>3, <2>4 DEF TypeOK, CheckBaseline, Exit, world
<1>6. ASSUME NEW c \in Commands, Kill(c) PROVE TypeOK'
  BY <1>6 DEF TypeOK, Kill, world
<1>7. CASE NextDay
  BY <1>7 DEF TypeOK, NextDay, Days
<1>8. CASE EditCode
  BY <1>8 DEF TypeOK, EditCode
<1>9. CASE UNCHANGED vars
  BY <1>9 DEF TypeOK, vars, world
<1> QED
  BY <1>1, <1>2, <1>3, <1>4, <1>5, <1>6, <1>7, <1>8, <1>9 DEF Next, Step

(* The findings of a command are set once, by its analysis.                *)
LEMMA FindingsStay ==
  ASSUME TypeOK, ReadyFoundNothing, [Next]_vars
  PROVE  /\ \A c \in Commands : issues[c] \subseteq issues'[c]
         /\ origin' = origin /\ invocation' = invocation
         /\ ReadyFoundNothing'
<1>1. ASSUME NEW c \in Commands, Analyse(c)
      PROVE  (\A d \in Commands : issues[d] \subseteq issues'[d])
             /\ ReadyFoundNothing'
  BY <1>1 DEF TypeOK, ReadyFoundNothing, Analyse, Exit
<1>2. ASSUME NEW c \in Commands, Step(c), ~Analyse(c)
      PROVE  /\ issues' = issues
             /\ \A d \in Commands : pc'[d] = "ready" => pc[d] = "ready"
  <2>1. issues' = issues
    BY <1>2 DEF Step, LoadDocument, Write, Refuse, WriteFails, RenderDiff,
                CheckBaseline, Kill
  <2>2. \E p \in {"loaded", "written", "exited", "killed"} :
          pc' = [pc EXCEPT ![c] = p]
    BY <1>2 DEF Step, LoadDocument, Write, Refuse, WriteFails, RenderDiff,
                CheckBaseline, Kill, Exit
  <2> QED
    BY <2>1, <2>2 DEF TypeOK
<1>3. CASE NextDay \/ EditCode \/ UNCHANGED vars
  BY <1>3 DEF NextDay, EditCode, vars, world, ReadyFoundNothing
<1>4. origin' = origin /\ invocation' = invocation
  BY DEF Next, Step, Analyse, LoadDocument, Write, Refuse, WriteFails,
         RenderDiff, CheckBaseline, Kill, NextDay, EditCode, vars, world
<1> QED
  BY <1>1, <1>2, <1>3, <1>4 DEF Next, Step, ReadyFoundNothing

(* So what somebody accepted stays accepted.                               *)
LEMMA ReviewedStays ==
  ASSUME TypeOK, ReadyFoundNothing, [Next]_vars
  PROVE  /\ \A f, a : Reviewed(f, a) => Reviewed(f, a)'
         /\ \A d : AllReviewed(d) => AllReviewed(d)'
<1>1. \A f, a : Reviewed(f, a) => Reviewed(f, a)'
  BY FindingsStay DEF Reviewed, Kind
<1> QED
  BY <1>1 DEF AllReviewed

LEMMA LoadedStep ==
  ASSUME TypeOK, LoadedHolds, [Next]_vars
  PROVE  LoadedHolds'
<1>1. ASSUME NEW c \in Commands, LoadDocument(c) PROVE LoadedHolds'
  <2>1. Loadable(file) => file \in Documents
    BY DEF Loadable, TypeOK
  <2> QED
    BY <1>1, <2>1 DEF TypeOK, LoadedHolds, LoadDocument, Exit, Kind
<1>2. ASSUME NEW c \in Commands, Step(c), ~LoadDocument(c) PROVE LoadedHolds'
  <2>1. /\ \A d \in Commands : pc'[d] = "loaded" => d # c /\ pc[d] = "loaded"
        /\ \A d \in Commands \ {c} : doc'[d] = doc[d]
        /\ invocation' = invocation
    BY <1>2 DEF Step, Analyse, Write, Refuse, WriteFails, RenderDiff,
                CheckBaseline, Kill, Exit, TypeOK
  <2> QED
    BY <2>1 DEF LoadedHolds, Kind
<1>3. CASE NextDay \/ EditCode \/ UNCHANGED vars
  BY <1>3 DEF NextDay, EditCode, vars, LoadedHolds, Kind
<1> QED
  BY <1>1, <1>2, <1>3 DEF Next

(* A command writes entries somebody accepted: those it was given, or its  *)
(* own findings under its own annotation, which prune does not have.       *)
LEMMA WrittenIsReviewed ==
  ASSUME BaselineInv, NEW c \in Commands, Write(c)
  PROVE  AllReviewed(file')
<1> DEFINE d == Updated(Base(c), issues[c], Annotation(c), Prunes(c))
<1>1. Writing(c) /\ file' = d /\ ValidDocument(d)
  BY DEF Write, CanUpdate
<1>2. SUFFICES ASSUME NEW f \in Accepts(d)
               PROVE  Reviewed(f, d.entries[f])
  BY <1>1 DEF AllReviewed
<1>3. CASE f \in Accepts(Base(c)) /\ d.entries[f] = Base(c).entries[f]
  <2>1. Kind(c) \notin {"check", "init"} /\ Base(c) = doc[c]
    BY <1>3, EmptyDocumentType DEF Base
  <2>2. doc[c] \in Documents
    BY <1>1, <2>1 DEF Writing, BaselineInv, LoadedHolds
  <2> QED
    BY <1>3, <2>1, <2>2 DEF BaselineInv, HeldIsReviewed, AllReviewed
<1>4. CASE f \in issues[c] /\ d.entries[f] = Annotation(c)
  <2>1. ValidAnnotation(Annotation(c))
    BY <1>1, <1>4 DEF ValidDocument
  <2>2. Kind(c) # "prune" /\ Annotation(c) = invocation[c].annotation
    BY <2>1, NoAnnotationInvalid DEF Annotation
  <2>3. \/ Kind(c) \in {"init", "update"}
        \/ Kind(c) = "check" /\ invocation[c].write
    BY <1>1, <2>2 DEF Writing
  <2> QED
    BY <1>4, <2>1, <2>2, <2>3 DEF Reviewed
<1> QED
  BY <1>3, <1>4, UpdatedEntries

LEMMA ReviewedStep ==
  ASSUME BaselineInv, [Next]_vars
  PROVE  HeldIsReviewed' /\ FileIsReviewed'
<1>1. /\ \A d : AllReviewed(d) => AllReviewed(d)'
      /\ TypeOK /\ TypeOK'
  BY ReviewedStays, TypeStep DEF BaselineInv
<1>2. ASSUME NEW c \in Commands, Write(c)
      PROVE  HeldIsReviewed' /\ FileIsReviewed'
  <2>1. AllReviewed(file')
    BY <1>2, WrittenIsReviewed
  <2> QED
    BY <1>1, <1>2, <2>1
       DEF Write, HeldIsReviewed, FileIsReviewed, BaselineInv, TypeOK
<1>3. ASSUME NEW c \in Commands, LoadDocument(c) \/ CheckBaseline(c)
      PROVE  HeldIsReviewed' /\ FileIsReviewed'
  <2>1. /\ file' = file
        /\ \A d \in Commands : doc'[d] \in {doc[d], file}
    BY <1>1, <1>3 DEF LoadDocument, CheckBaseline, TypeOK
  <2> QED
    BY <1>1, <2>1 DEF HeldIsReviewed, FileIsReviewed, BaselineInv
<1>4. ASSUME UNCHANGED <<file, doc>>
      PROVE  HeldIsReviewed' /\ FileIsReviewed'
  BY <1>1, <1>4 DEF HeldIsReviewed, FileIsReviewed, BaselineInv
<1>5. \/ \E c \in Commands : Write(c) \/ LoadDocument(c) \/ CheckBaseline(c)
      \/ UNCHANGED <<file, doc>>
  BY DEF Next, Step, Analyse, Refuse, WriteFails, RenderDiff, Kill,
         NextDay, EditCode, vars
<1> QED
  BY <1>2, <1>3, <1>4, <1>5

(* The verdict of a check: what it does not report, the file accepts.      *)
LEMMA CheckStep ==
  ASSUME BaselineInv, NEW c \in Commands, CheckBaseline(c), exit'[c] = 0,
         NEW f \in issues[c] \cap Failing
  PROVE  /\ invocation[c].read
         /\ \E a \in Annotations : Reviewed(f, a) /\ ~Expired(a, day'[c])
<1>1. TypeOK /\ \A e : Exit(c, e) => exit'[c] = e
  BY DEF BaselineInv, TypeOK, Exit
<1>2. CASE ~invocation[c].read
  BY <1>1, <1>2 DEF CheckBaseline, Reported
<1>3. CASE invocation[c].read
  <2>1. Loadable(file) /\ day' = [day EXCEPT ![c] = today]
    BY <1>1, <1>3 DEF CheckBaseline
  <2>2. Reported(c, Unexpired(file, today)) \cap Failing = {}
    BY <1>1, <1>3 DEF CheckBaseline
  <2>3. f \in Accepts(file) /\ ~Expired(file.entries[f], today)
    BY <2>2 DEF Reported, Unexpired
  <2>4. file \in Documents
    BY <1>1, <2>1 DEF Loadable, TypeOK
  <2>5. Reviewed(f, file.entries[f]) /\ file.entries[f] \in Annotations
    BY <2>3, <2>4, DocumentEntries DEF BaselineInv, FileIsReviewed, AllReviewed
  <2>6. day'[c] = today
    BY <1>1, <2>1 DEF TypeOK
  <2> QED
    BY <1>3, <2>3, <2>5, <2>6
<1> QED
  BY <1>2, <1>3

LEMMA PassingStep ==
  ASSUME BaselineInv, [Next]_vars
  PROVE  PassingCheckHidesNothing'
<1>1. SUFFICES ASSUME NEW c \in Commands,
                      pc'[c] = "exited", Kind(c)' = "check", exit'[c] = 0,
                      NEW f \in issues'[c] \cap Failing
               PROVE  /\ invocation'[c].read
                      /\ \E a \in Annotations :
                           Reviewed(f, a)' /\ ~Expired(a, day'[c])
  BY DEF PassingCheckHidesNothing, Expired, Days
<1>2. /\ TypeOK /\ invocation' = invocation /\ Kind(c) = "check"
      /\ \A a : Reviewed(f, a) => Reviewed(f, a)'
  BY <1>1, FindingsStay, ReviewedStays DEF BaselineInv, Kind
<1>3. CASE CheckBaseline(c)
  <2>1. issues' = issues
    BY <1>3 DEF CheckBaseline
  <2> QED
    BY <1>1, <1>2, <1>3, <2>1, CheckStep
<1>4. CASE /\ pc[c] = "exited" /\ exit[c] = 0
           /\ day'[c] = day[c] /\ issues'[c] = issues[c]
  BY <1>1, <1>2, <1>4 DEF BaselineInv, PassingCheckHidesNothing
<1>5. CASE ~CheckBaseline(c)
  <2>1. CASE Step(c)
    <3>1. \A e : Exit(c, e) => exit'[c] = e
      BY <1>2 DEF TypeOK, Exit
    <3>2. Kill(c) => pc'[c] = "killed"
      BY <1>2 DEF TypeOK, Kill
    <3>3. Write(c) => pc'[c] = "written"
      BY <1>2 DEF TypeOK, Write
    <3>4. ~LoadDocument(c) /\ ~Refuse(c) /\ ~WriteFails(c) /\ ~RenderDiff(c)
      BY <1>1, <1>2, <3>1
         DEF LoadDocument, Refuse, WriteFails, RenderDiff
    <3>5. ~Analyse(c)
      BY <1>1, <1>2, <3>1 DEF TypeOK, Analyse
    <3> QED
      BY <1>1, <1>5, <2>1, <3>2, <3>3, <3>4, <3>5 DEF Step
  <2>2. ASSUME NEW b \in Commands \ {c}, Step(b)
        PROVE  /\ pc'[c] = pc[c] /\ exit'[c] = exit[c]
               /\ day'[c] = day[c] /\ issues'[c] = issues[c]
    BY <2>2, <1>2 DEF TypeOK, Step, Analyse, LoadDocument, Write, Refuse,
                      WriteFails, RenderDiff, CheckBaseline, Kill, Exit
  <2>3. CASE NextDay \/ EditCode \/ UNCHANGED vars
    BY <1>1, <1>4, <2>3 DEF NextDay, EditCode, vars
  <2> QED
    BY <1>1, <1>4, <2>1, <2>2, <2>3 DEF Next
<1> QED
  BY <1>3, <1>5

(***************************************************************************)
(* The theorems.                                                           *)
(***************************************************************************)
(* The inductive invariant holds in every reachable state.                 *)
THEOREM BaselineInvariance == Spec => []BaselineInv
<1>1. Init => BaselineInv
  <2>1. Init => TypeOK
    BY FilesAssumption, CodeAssumption, BoundsAssumption
       DEF Init, TypeOK, Days
  <2>2. Init => FileIsReviewed
    BY DEF Init, FileIsReviewed, AllReviewed, Reviewed
  <2>3. Init => /\ ReadyFoundNothing /\ LoadedHolds /\ HeldIsReviewed
                /\ PassingCheckHidesNothing
    BY DocumentEntries
       DEF Init, ReadyFoundNothing, LoadedHolds, HeldIsReviewed,
           PassingCheckHidesNothing
  <2> QED BY <2>1, <2>2, <2>3 DEF BaselineInv
<1>2. BaselineInv /\ [Next]_vars => BaselineInv'
  BY TypeStep, FindingsStay, LoadedStep, ReviewedStep, PassingStep
     DEF BaselineInv
<1> QED
  BY <1>1, <1>2, PTL DEF Spec

(* Commands hold well-typed documents only, whatever the file held.        *)
THEOREM BaselineTyped == Spec => []TypeOK
BY BaselineInvariance, PTL DEF BaselineInv

(* Every entry was accepted by somebody who had seen the finding, however  *)
(* many commands overlap and wherever they are killed.                     *)
THEOREM OnlyReviewed == Spec => []OnlyReviewedDebtIsAccepted
<1>1. BaselineInv => OnlyReviewedDebtIsAccepted
  BY DEF BaselineInv, FileIsReviewed, AllReviewed, OnlyReviewedDebtIsAccepted
<1> QED
  BY <1>1, BaselineInvariance, PTL

(* A check that exits 0 hides no finding but what was accepted and has not *)
(* expired.                                                                *)
THEOREM NothingHidden == Spec => []PassingCheckHidesNothing
BY BaselineInvariance, PTL DEF BaselineInv

(* The file only changes to a complete, valid document of version 5.       *)
THEOREM StaysLoadable == Spec => FileStaysLoadable
<1>1. BaselineInv /\ [Next]_vars =>
        [file' \in Documents /\ file'.version = 5 /\ ValidDocument(file')]_file
  <2>1. ASSUME BaselineInv, [Next]_vars, file' # file
        PROVE  \E c \in Commands : Write(c)
    BY <2>1 DEF Next, Step, Analyse, LoadDocument, Refuse, WriteFails,
                RenderDiff, CheckBaseline, Kill, NextDay, EditCode, vars
  <2> QED
    BY <2>1, WrittenType DEF BaselineInv
<1> QED
  BY <1>1, BaselineInvariance, PTL DEF Spec, FileStaysLoadable

(***************************************************************************)
(* What a command wrote, and why a check failed.                           *)
(***************************************************************************)
(* An init or update that got so far accepts all it found, and nothing     *)
(* else if it prunes.                                                      *)
WroteItsFindings ==
  \A c \in Commands :
    /\ pc[c] = "written" \/ (pc[c] = "exited" /\ exit[c] = 0)
    /\ Kind(c) \in {"init", "update"}
    => /\ issues[c] \subseteq Accepts(doc[c])
       /\ Prunes(c) => Accepts(doc[c]) = issues[c]

(* A check that exits 1 has an entry its policies refuse, or a finding at  *)
(* the fail level that no entry accepts on the day of the check.           *)
FailsForAReason ==
  \A k \in Commands :
    /\ pc[k] = "exited" /\ Kind(k) = "check" /\ exit[k] = 1 /\ invocation[k].read
    => \/ Unexpired(doc[k], day[k]) # Accepts(doc[k])
       \/ invocation[k].staleError /\ Unexpired(doc[k], day[k]) \ issues[k] # {}
       \/ issues[k] \ Unexpired(doc[k], day[k]) # {}

VerdictInv == WroteItsFindings /\ FailsForAReason

(* The entries Update returns: the current findings, and the stale ones    *)
(* unless it prunes.                                                       *)
LEMMA UpdatedAccepts ==
  ASSUME NEW d, NEW current, NEW a, NEW prune \in BOOLEAN
  PROVE  Accepts(Updated(d, current, a, prune)) =
           current \cup (IF prune THEN {} ELSE Stale(d, current))
BY DEF Updated, Accepts

LEMMA WrittenAccepts ==
  ASSUME TypeOK, LoadedHolds, NEW c \in Commands, Write(c)
  PROVE  /\ issues[c] \subseteq Accepts(doc'[c])
         /\ Prunes(c) => Accepts(doc'[c]) = issues[c]
<1>1. doc'[c] = Updated(Base(c), issues[c], Annotation(c), Prunes(c))
  BY DEF Write, TypeOK
<1>2. Prunes(c) \in BOOLEAN
  BY ArgumentTypes DEF Write
<1> QED BY <1>1, <1>2, UpdatedAccepts

(* A command that exited, or wrote, changes by steps of its own only, and  *)
(* not at all once it exited.                                              *)
LEMMA OthersStay ==
  ASSUME TypeOK, [Next]_vars, NEW c \in Commands, ~Step(c)
  PROVE  /\ pc'[c] = pc[c] /\ exit'[c] = exit[c] /\ doc'[c] = doc[c]
         /\ day'[c] = day[c] /\ issues'[c] = issues[c]
<1>1. ASSUME NEW b \in Commands \ {c}, Step(b)
      PROVE  /\ pc'[c] = pc[c] /\ exit'[c] = exit[c] /\ doc'[c] = doc[c]
             /\ day'[c] = day[c] /\ issues'[c] = issues[c]
  BY <1>1 DEF TypeOK, Step, Analyse, LoadDocument, Write, Refuse,
              WriteFails, RenderDiff, CheckBaseline, Kill, Exit
<1>2. CASE NextDay \/ EditCode \/ UNCHANGED vars
  BY <1>2 DEF NextDay, EditCode, vars
<1> QED BY <1>1, <1>2 DEF Next

LEMMA VerdictStep ==
  ASSUME BaselineInv, VerdictInv, [Next]_vars
  PROVE  VerdictInv'
<1>1. TypeOK /\ LoadedHolds /\ invocation' = invocation
  BY FindingsStay DEF BaselineInv
<1>2. \A c \in Commands : \A e : Exit(c, e) => pc'[c] = "exited" /\ exit'[c] = e
  BY <1>1 DEF TypeOK, Exit
<1>3. ASSUME NEW c \in Commands,
             pc'[c] = "written" \/ (pc'[c] = "exited" /\ exit'[c] = 0),
             Kind(c) \in {"init", "update"}
      PROVE  /\ issues'[c] \subseteq Accepts(doc'[c])
             /\ Prunes(c) => Accepts(doc'[c]) = issues'[c]
  <2>1. CASE ~Step(c)
    BY <1>1, <1>3, <2>1, OthersStay DEF VerdictInv, WroteItsFindings
  <2>2. CASE Write(c)
    BY <1>1, <2>2, WrittenAccepts DEF Write
  <2>3. CASE RenderDiff(c)
    <3>1. pc[c] = "written"
      BY <1>3, <2>3 DEF RenderDiff
    <3> QED BY <2>3, <3>1, <1>3 DEF RenderDiff, VerdictInv, WroteItsFindings
  <2>4. CASE CheckBaseline(c)
    BY <1>3, <2>4 DEF CheckBaseline
  <2>5. ~Refuse(c) /\ ~WriteFails(c)
    BY <1>2, <1>3 DEF Refuse, WriteFails
  <2>6. ~Analyse(c) /\ ~LoadDocument(c) /\ ~Kill(c)
    BY <1>1, <1>2, <1>3 DEF Analyse, LoadDocument, Kill, TypeOK
  <2> QED BY <2>1, <2>2, <2>3, <2>4, <2>5, <2>6 DEF Step
<1>4. ASSUME NEW k \in Commands, pc'[k] = "exited", Kind(k) = "check",
             exit'[k] = 1, invocation[k].read
      PROVE  \/ Unexpired(doc'[k], day'[k]) # Accepts(doc'[k])
             \/ invocation[k].staleError /\ Unexpired(doc'[k], day'[k]) \ issues'[k] # {}
             \/ issues'[k] \ Unexpired(doc'[k], day'[k]) # {}
  <2>1. CASE ~Step(k)
    BY <1>1, <1>4, <2>1, OthersStay DEF VerdictInv, FailsForAReason
  <2>2. CASE CheckBaseline(k)
    <3>1. Loadable(file)
      BY <1>2, <1>4, <2>2 DEF CheckBaseline
    <3>2. /\ doc'[k] = file /\ day'[k] = today /\ issues' = issues
          /\ \/ Rejects(k, file)
             \/ Reported(k, Unexpired(file, today)) \cap Failing # {}
      BY <1>1, <1>2, <1>4, <2>2, <3>1 DEF CheckBaseline, TypeOK
    <3> QED BY <3>2 DEF Rejects, Reported
  <2>3. ~Refuse(k) /\ ~WriteFails(k) /\ ~RenderDiff(k)
    BY <1>2, <1>4 DEF Refuse, WriteFails, RenderDiff
  <2>4. ~Analyse(k) /\ ~LoadDocument(k) /\ ~Kill(k) /\ ~Write(k)
    BY <1>1, <1>2, <1>4 DEF Analyse, LoadDocument, Kill, Write, TypeOK
  <2> QED BY <2>1, <2>2, <2>3, <2>4 DEF Step
<1>5. WroteItsFindings'
  BY <1>1, <1>3 DEF WroteItsFindings, Kind, Prunes
<1>6. FailsForAReason'
  <2>1. \A d, t : Unexpired(d, t)' = Unexpired(d, t)
    OBVIOUS
  <2> QED BY <1>1, <1>4, <2>1 DEF FailsForAReason, Kind
<1> QED BY <1>5, <1>6 DEF VerdictInv

(* After a successful init or update, a check of the same findings against *)
(* the document it wrote fails for nothing but expiry, or stale entries    *)
(* that update kept and the check refuses, whatever other commands do.     *)
THEOREM UpdatePasses == Spec => []UpdateThenCheckPasses
<1>1. Init => VerdictInv
  BY DEF Init, VerdictInv, WroteItsFindings, FailsForAReason
<1>2. VerdictInv => UpdateThenCheckPasses
  BY DEF VerdictInv, WroteItsFindings, FailsForAReason, UpdateThenCheckPasses
<1> QED
  BY <1>1, <1>2, VerdictStep, BaselineInvariance, PTL DEF Spec

(* Update keeps the annotations in the file it loaded and, without -prune, *)
(* its stale entries.                                                      *)
THEOREM UpdateKeeps == Spec => UpdateKeepsAcceptedDebt
<1>1. BaselineInv /\ [Next]_vars =>
        [\A c \in Commands :
           /\ pc[c] = "loaded" /\ pc'[c] = "written" /\ Kind(c) = "update"
           /\ file = doc[c]
           => \A f \in Accepts(file) :
                f \in issues[c] \/ ~invocation[c].prune =>
                  /\ f \in Accepts(file')
                  /\ \/ file.entries[f].reason = NoReason
                     \/ file'.entries[f] = file.entries[f]]_vars
  <2> SUFFICES ASSUME BaselineInv, Next, NEW c \in Commands,
                      pc[c] = "loaded", pc'[c] = "written", Kind(c) = "update",
                      file = doc[c], NEW f \in Accepts(file),
                      f \in issues[c] \/ ~invocation[c].prune
               PROVE  /\ f \in Accepts(file')
                      /\ \/ file.entries[f].reason = NoReason
                         \/ file'.entries[f] = file.entries[f]
    OBVIOUS
  <2>1. TypeOK /\ LoadedHolds
    BY DEF BaselineInv
  <2>2. Write(c)
    <3>1. CASE ~Step(c)
      BY <2>1, <3>1, OthersStay
    <3>2. \A e : ~Exit(c, e)
      BY <2>1 DEF Exit, TypeOK
    <3>3. ~Refuse(c) /\ ~WriteFails(c) /\ ~RenderDiff(c) /\ ~CheckBaseline(c)
      BY <3>2 DEF Refuse, WriteFails, RenderDiff, CheckBaseline
    <3>4. ~Analyse(c) /\ ~LoadDocument(c) /\ ~Kill(c)
      BY <2>1, <3>2 DEF Analyse, LoadDocument, Kill, TypeOK
    <3> QED BY <3>1, <3>3, <3>4 DEF Step
  <2>3. file' = Updated(file, issues[c], Annotation(c), invocation[c].prune)
    <3>1. invocation[c].prune \in BOOLEAN
      BY <2>1, InvocationsAssumption DEF TypeOK, InvocationType
    <3> QED BY <2>2, <3>1 DEF Write, Base, Prunes
  <2>4. f \in Stale(file, issues[c]) \/ f \in Live(file, issues[c])
    BY DEF Stale, Live
  <2> QED BY <2>3, <2>4 DEF Updated, Accepts, Stale, Live
<1> QED
  BY <1>1, BaselineInvariance, PTL DEF Spec, UpdateKeepsAcceptedDebt
=============================================================================
