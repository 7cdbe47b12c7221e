------------------------------ MODULE Baseline ------------------------------
(***************************************************************************)
(* Baseline documents (src/internal/baseline/baseline.go) and the commands *)
(* that use them (src/internal/cli/commands.go): check, with -baseline and *)
(* -write-baseline, and baseline init, diff, update and prune.  Several    *)
(* commands work on one file without a lock while the code under analysis  *)
(* and the calendar move on; commands may be killed and writes may fail.   *)
(*                                                                         *)
(* A finding is its fingerprint, which fixes its check, path and subject,  *)
(* so an entry is a fingerprint with its annotation.  The owner of an      *)
(* annotation travels with its reason.  Findings have distinct             *)
(* fingerprints (FinalizeIssues refuses others).                           *)
(***************************************************************************)
EXTENDS Naturals

CONSTANTS
  Commands,       \* command invocations
  Fingerprints,   \* findings the code may have
  Failing,        \* those at or above the fail level
  Reasons,        \* reasons ValidateReason accepts
  Invocations,    \* command lines, see InvocationType
  InitialFiles,   \* contents the baseline file may have at first
  InitialCode,    \* findings the code may have at first
  MaxDay,         \* bound on the calendar
  MaxEdits,       \* bound on changes of the code
  Faults          \* analysis, writes and output may fail, commands be killed

CONSTANTS   \* model values
  Absent, Unreadable,   \* no file; a file Load rejects whatever the command
  NoReason, NoDate, BadDate, NoDocument

(***************************************************************************)
(* Documents.  Version 4 entries have no annotation.                       *)
(***************************************************************************)
Days == 0..MaxDay
Annotations == [reason : Reasons \cup {NoReason},
                expires : Days \cup {NoDate, BadDate}]
NoAnnotation == [reason |-> NoReason, expires |-> NoDate]
Documents == [version : {4, 5},
              entries : UNION {[S -> Annotations] : S \in SUBSET Fingerprints}]
EmptyDocument == [version |-> 5, entries |-> [f \in {} |-> NoAnnotation]]

ASSUME FilesAssumption ==
  /\ InitialFiles \subseteq Documents \cup {Absent, Unreadable}
  /\ {Absent, Unreadable, NoDocument} \cap Documents = {}
  /\ NoReason \notin Reasons /\ {NoDate, BadDate} \cap Nat = {}
ASSUME CodeAssumption ==
  InitialCode \subseteq SUBSET Fingerprints /\ Failing \subseteq Fingerprints
ASSUME BoundsAssumption == MaxDay \in Nat /\ MaxEdits \in Nat
ASSUME SwitchesAssumption == Faults \in BOOLEAN

InvocationType ==
  [kind : {"check", "init", "diff", "update", "prune"},
   annotation : Annotations,  \* -baseline-reason, -owner, -expires
   prune : BOOLEAN,           \* -prune
   write : BOOLEAN,           \* -write-baseline, to the same file
   read : BOOLEAN,            \* -baseline, which only check may leave out
   staleError : BOOLEAN,      \* -baseline-stale=error
   expiredError : BOOLEAN]    \* -baseline-expired=error
ASSUME InvocationsAssumption == Invocations \subseteq InvocationType

Accepts(doc) == DOMAIN doc.entries
ValidAnnotation(a) == a.reason \in Reasons /\ a.expires # BadDate
ValidDocument(doc) == \A f \in Accepts(doc) : ValidAnnotation(doc.entries[f])
Loadable(doc) ==
  /\ doc \notin {Absent, Unreadable}
  /\ doc.version = 4 \/ ValidDocument(doc)

(* Diff.                                                                   *)
Added(doc, current) == current \ Accepts(doc)
Live(doc, current) == Accepts(doc) \cap current
Stale(doc, current) == Accepts(doc) \ current

(***************************************************************************)
(* Faults that a change to the code could introduce.  Each stands before   *)
(* the definition it would replace; nothing uses them.                     *)
(***************************************************************************)
ExpiredIsAccepted(doc, day) == Accepts(doc)            \* expiry not looked at
AnnotationsReplaced(doc, current, annotation, prune) ==  \* also of live entries
  [version |-> 5,
   entries |-> [f \in current \cup (IF prune THEN {} ELSE Stale(doc, current)) |->
                  IF f \in current THEN annotation ELSE doc.entries[f]]]
StaleAnnotated(doc, current, annotation, prune) ==  \* v4 entries nobody saw
  [version |-> 5,
   entries |-> [f \in current \cup (IF prune THEN {} ELSE Stale(doc, current)) |->
                  IF f \in Accepts(doc) /\ doc.entries[f].reason # NoReason
                    THEN doc.entries[f] ELSE annotation]]

(* ReadAt: an entry accepts through the day it expires.                    *)
Expired(a, day) == a.expires \in Days /\ a.expires < day
Unexpired(doc, day) == {f \in Accepts(doc) : ~Expired(doc.entries[f], day)}

(* Update, first its result and then the conditions under which it returns *)
(* one.  Live entries keep their annotation.                               *)
Updated(doc, current, annotation, prune) ==
  [version |-> 5,
   entries |-> [f \in current \cup (IF prune THEN {} ELSE Stale(doc, current)) |->
                  IF \/ f \in Stale(doc, current)
                     \/ f \in Live(doc, current) /\ doc.entries[f].reason # NoReason
                    THEN doc.entries[f] ELSE annotation]]

NeedsReason(doc, current) ==
  \/ Added(doc, current) # {}
  \/ doc.version = 4 /\ Live(doc, current) # {}
CanUpdate(doc, current, annotation, prune) ==
  /\ NeedsReason(doc, current) => annotation.reason \in Reasons
  /\ ValidDocument(Updated(doc, current, annotation, prune))

(***************************************************************************)
(* The commands.                                                           *)
(***************************************************************************)
VARIABLES
  file,         \* the baseline file
  code,         \* the findings of the code as it is now
  origin,       \* the baseline file at the start, for the properties only
  today,        \* the UTC date
  edits,        \* changes of the code so far
  pc,           \* per command: where it is
  invocation,   \* its command line
  issues,       \* the findings of its analysis
  doc,          \* the document it loaded, then the one it wrote or read
  day,          \* the date it took when it read the document
  exit          \* its exit code, once it has exited

world == <<code, origin, today, edits>>
vars == <<file, world, pc, invocation, issues, doc, day, exit>>

Init ==
  /\ file \in InitialFiles
  /\ origin = file
  /\ code \in InitialCode
  /\ today = 0
  /\ edits = 0
  /\ pc = [c \in Commands |-> "ready"]
  /\ invocation \in [Commands -> Invocations]
  /\ issues = [c \in Commands |-> {}]
  /\ doc = [c \in Commands |-> NoDocument]
  /\ day = [c \in Commands |-> 0]
  /\ exit = [c \in Commands |-> 0]

Over(c) == pc[c] \in {"ready", "exited", "killed"}
Kind(c) == invocation[c].kind

Exit(c, e) ==
  /\ pc' = [pc EXCEPT ![c] = "exited"]
  /\ exit' = [exit EXCEPT ![c] = e]

(* executeAnalysis.                                                        *)
Analyse(c) ==
  /\ pc[c] = "ready"
  /\ \/ /\ pc' = [pc EXCEPT ![c] = "analysed"]
        /\ issues' = [issues EXCEPT ![c] = code]
        /\ UNCHANGED exit
     \/ /\ Faults
        /\ Exit(c, 2)
        /\ UNCHANGED issues
  /\ UNCHANGED <<file, world, invocation, doc, day>>

LoadUnchecked(c) ==            \* a file that cannot be read is used anyway
  /\ pc[c] = "analysed" /\ Kind(c) \in {"diff", "update", "prune"}
  /\ doc' = [doc EXCEPT ![c] = file]
  /\ pc' = [pc EXCEPT ![c] = "loaded"]
  /\ UNCHANGED <<file, world, invocation, issues, day, exit>>

(* Load, for baseline diff, update and prune.                              *)
LoadDocument(c) ==
  /\ pc[c] = "analysed" /\ Kind(c) \in {"diff", "update", "prune"}
  /\ IF Loadable(file)
       THEN /\ doc' = [doc EXCEPT ![c] = file]
            /\ pc' = [pc EXCEPT ![c] = "loaded"]
            /\ UNCHANGED exit
       ELSE /\ Exit(c, 2)
            /\ UNCHANGED doc
  /\ UNCHANGED <<file, world, invocation, issues, day>>

(* What a command passes to Update.                                        *)
Base(c) == IF Kind(c) \in {"check", "init"} THEN EmptyDocument ELSE doc[c]
Annotation(c) ==
  IF Kind(c) = "prune" THEN NoAnnotation ELSE invocation[c].annotation
Prunes(c) == Kind(c) = "update" => invocation[c].prune
Writing(c) ==
  \/ pc[c] = "analysed" /\ Kind(c) = "init"
  \/ pc[c] = "analysed" /\ Kind(c) = "check" /\ invocation[c].write
  \/ pc[c] = "loaded" /\ Kind(c) \in {"update", "prune"}

(* Update and WriteDocument, which renames a finished temporary file.      *)
Write(c) ==
  /\ Writing(c)
  /\ CanUpdate(Base(c), issues[c], Annotation(c), Prunes(c))
  /\ file' = Updated(Base(c), issues[c], Annotation(c), Prunes(c))
  /\ doc' = [doc EXCEPT ![c] = file']
  /\ pc' = [pc EXCEPT ![c] = "written"]
  /\ UNCHANGED <<world, invocation, issues, day, exit>>

Refuse(c) ==
  /\ Writing(c)
  /\ ~CanUpdate(Base(c), issues[c], Annotation(c), Prunes(c))
  /\ Exit(c, 2)
  /\ UNCHANGED <<file, world, invocation, issues, doc, day>>

WriteFailsInPlace(c) ==                              \* no temporary file
  /\ Faults /\ Writing(c)
  /\ file' = Unreadable
  /\ Exit(c, 2)
  /\ UNCHANGED <<world, invocation, issues, doc, day>>

(* A step of WriteDocument before the rename fails, or the rename does.    *)
WriteFails(c) ==
  /\ Faults /\ Writing(c)
  /\ Exit(c, 2)
  /\ UNCHANGED <<file, world, invocation, issues, doc, day>>

(* renderBaselineDiff; only JSON output reports a failure to write it.     *)
RenderDiff(c) ==
  /\ \/ pc[c] = "loaded" /\ Kind(c) = "diff"
     \/ pc[c] = "written" /\ Kind(c) # "check"
  /\ \/ Faults /\ Exit(c, 2)
     \/ Exit(c, IF /\ Kind(c) = "diff"
                   /\ Added(doc[c], issues[c]) \cup Stale(doc[c], issues[c]) # {}
                  THEN 1 ELSE 0)
  /\ UNCHANGED <<file, world, invocation, issues, doc, day>>

(* The rest of check: ReadAt, the expired and stale policies, Filter, the  *)
(* report, and the fail level.                                             *)
Rejects(c, d) ==
  \/ invocation[c].expiredError /\ Unexpired(d, today) # Accepts(d)
  \/ invocation[c].staleError /\ Unexpired(d, today) \ issues[c] # {}
ReportedUnfiltered(c, accepted) == issues[c]  \* the fail level ignores -baseline
Reported(c, accepted) == issues[c] \ accepted

CheckBaseline(c) ==
  /\ Kind(c) = "check"
  /\ pc[c] = IF invocation[c].write THEN "written" ELSE "analysed"
  /\ IF ~invocation[c].read
       THEN /\ \/ Faults /\ Exit(c, 2)
               \/ Exit(c, IF Reported(c, {}) \cap Failing # {} THEN 1 ELSE 0)
            /\ UNCHANGED <<doc, day>>
     ELSE IF ~Loadable(file)
       THEN Exit(c, 2) /\ UNCHANGED <<doc, day>>
     ELSE /\ doc' = [doc EXCEPT ![c] = file]
          /\ day' = [day EXCEPT ![c] = today]
          /\ \/ Rejects(c, file) /\ Exit(c, 1)
             \/ ~Rejects(c, file) /\ Faults /\ Exit(c, 2)
             \/ /\ ~Rejects(c, file)
                /\ Exit(c, IF Reported(c, Unexpired(file, today)) \cap Failing # {}
                             THEN 1 ELSE 0)
  /\ UNCHANGED <<file, world, invocation, issues>>

(* The process is killed, between any two of the steps above.              *)
Kill(c) ==
  /\ Faults /\ ~Over(c)
  /\ pc' = [pc EXCEPT ![c] = "killed"]
  /\ UNCHANGED <<file, world, invocation, issues, doc, day, exit>>

NextDay ==
  /\ today < MaxDay
  /\ today' = today + 1
  /\ UNCHANGED <<file, code, origin, edits, pc, invocation, issues, doc, day, exit>>

EditCode ==
  /\ edits < MaxEdits
  /\ edits' = edits + 1
  /\ code' \in SUBSET Fingerprints
  /\ UNCHANGED <<file, origin, today, pc, invocation, issues, doc, day, exit>>

Step(c) ==
  \/ Analyse(c) \/ LoadDocument(c)
  \/ Write(c) \/ Refuse(c) \/ WriteFails(c)
  \/ RenderDiff(c) \/ CheckBaseline(c) \/ Kill(c)

Next == (\E c \in Commands : Step(c)) \/ NextDay \/ EditCode

Spec == Init /\ [][Next]_vars

(***************************************************************************)
(* Properties.                                                             *)
(***************************************************************************)
(* Every variable keeps its type: what a command holds is a document Load  *)
(* or Update returned, and exit codes are those the README lists.          *)
TypeOK ==
  /\ file \in Documents \cup {Absent, Unreadable}
  /\ origin \in InitialFiles
  /\ code \subseteq Fingerprints
  /\ today \in Days /\ edits \in 0..MaxEdits
  /\ pc \in [Commands ->
             {"ready", "analysed", "loaded", "written", "exited", "killed"}]
  /\ invocation \in [Commands -> Invocations]
  /\ issues \in [Commands -> SUBSET Fingerprints]
  /\ doc \in [Commands -> Documents \cup {NoDocument}]
  /\ day \in [Commands -> Days]
  /\ exit \in [Commands -> 0..2]

(* Whatever fails or is killed, the file only ever changes to a complete   *)
(* document of version 5 that Load accepts (WriteDocument validates, then  *)
(* writes a temporary file and renames it).                                *)
FileStaysLoadable ==
  [][file' \in Documents /\ file'.version = 5 /\ ValidDocument(file')]_file

(* Somebody accepted f with annotation a: it is in the file the commands   *)
(* started from, or a command that had found f was given a, a valid one.   *)
Reviewed(f, a) ==
  \/ /\ origin \in Documents
     /\ f \in Accepts(origin) /\ origin.entries[f] = a
  \/ \E c \in Commands :
        /\ f \in issues[c] /\ a = invocation[c].annotation
        /\ ValidAnnotation(a)
        /\ \/ Kind(c) \in {"init", "update"}
           \/ Kind(c) = "check" /\ invocation[c].write

(* No interleaving of updates, prunes, migrations and crashes puts an      *)
(* entry into the file that nobody accepted, or under another's annotation *)
(* (Update keeps live entries and wants a reason for the others).          *)
OnlyReviewedDebtIsAccepted ==
  file \in Documents =>
    \A f \in Accepts(file) : Reviewed(f, file.entries[f])

(* A check that exits 0 had each finding at its fail level accepted by     *)
(* somebody whose acceptance had not expired on the day of the check.      *)
PassingCheckHidesNothing ==
  \A c \in Commands :
    pc[c] = "exited" /\ Kind(c) = "check" /\ exit[c] = 0 =>
      \A f \in issues[c] \cap Failing :
        /\ invocation[c].read
        /\ \E a \in Annotations : Reviewed(f, a) /\ ~Expired(a, day[c])

(* After a successful init or update, a check of the same findings against *)
(* the document it wrote does not fail, unless an entry has expired or the *)
(* check is asked to fail on the stale entries that update kept.           *)
UpdateThenCheckPasses ==
  \A c, k \in Commands :
    /\ pc[c] = "exited" /\ Kind(c) \in {"init", "update"} /\ exit[c] = 0
    /\ pc[k] = "exited" /\ Kind(k) = "check" /\ invocation[k].read
    /\ doc[k] = doc[c] /\ issues[k] = issues[c]
    /\ Unexpired(doc[k], day[k]) = Accepts(doc[k])
    /\ invocation[k].staleError => Prunes(c)
    => exit[k] # 1

(* Update keeps the annotations in the file, and without -prune its stale  *)
(* entries (README.md:334-335), provided the file is still the one it      *)
(* loaded: nothing keeps another command from writing in between.          *)
UpdateKeepsAcceptedDebt ==
  [][\A c \in Commands :
       /\ pc[c] = "loaded" /\ pc'[c] = "written" /\ Kind(c) = "update"
       /\ file = doc[c]
       => \A f \in Accepts(file) :
            f \in issues[c] \/ ~invocation[c].prune =>
              /\ f \in Accepts(file')
              /\ \/ file.entries[f].reason = NoReason
                 \/ file'.entries[f] = file.entries[f]]_vars

(* An update with a valid reason migrates a version 4 file                 *)
(* (README.md:333-334).                                                    *)
UpdateMigrates ==
  \A c \in Commands :
    /\ pc[c] = "loaded" /\ Kind(c) = "update" /\ doc[c].version = 4
    /\ ValidAnnotation(invocation[c].annotation)
    => CanUpdate(doc[c], issues[c], Annotation(c), Prunes(c))
=============================================================================
