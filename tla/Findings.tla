------------------------------ MODULE Findings ------------------------------
(***************************************************************************)
(* What happens to the findings of the checks before they are reported     *)
(* (RunPlan, src/internal/analyzer/run.go:103-240 and 386-598): the plan   *)
(* says which are kept, the analysis mode drops those that needed types    *)
(* that are not there, the list is sorted, directives in the sources       *)
(* suppress some of it, and what is left is named; findings that would     *)
(* share a name are told apart by receiver and then by order.  Sources     *)
(* are edited between analyses, and a name is what a baseline accepts, so  *)
(* the questions are which findings an edit may drop or rename.            *)
(*                                                                         *)
(* A source is a sequence of lines; a line has code of some part of a      *)
(* declaration, or a comment, or both: a function begins with "func", a    *)
(* type of its own with "type", a type of a group "type (" with "spec";    *)
(* the closing parenthesis of a group is a blank line.  A check reports a  *)
(* smell where it stands; a line is one position.  Each file is a package  *)
(* of its own.                                                             *)
(***************************************************************************)
EXTENDS Selection

CONSTANTS
  Smells,      \* what checks may report, each at most once
  CheckOf,     \* [Smells -> CheckIDs]
  IdentityOf,  \* [Smells -> ...], subject and identity: deriveIssueIdentity
  EvidenceOf,  \* [Smells -> Nat], the order of the evidence texts
  Receivers,   \* receiver types of methods
  SettingsSet, \* settings a run may have
  Sources,     \* sources the workspace may start with
  NewLines,    \* lines an edit may insert
  MaxEdits     \* bound on edits

NoReceiver == ""
Parts == {"none", "func", "param", "type", "group", "spec", "body"}
Notes == [kind : {"none", "prose", "bad"}, id : {""}]
           \cup [kind : {"line", "file"}, id : CheckIDs \cup Families]
Lines == [part : Parts, receiver : Receivers \cup {NoReceiver},
          smells : SUBSET Smells, anchors : SUBSET Smells, note : Notes]

ASSUME SmellsAssumption ==
  /\ IsFiniteSet(Smells)
  /\ CheckOf \in [Smells -> CheckIDs]
  /\ DOMAIN IdentityOf = Smells
  /\ EvidenceOf \in [Smells -> Nat]
  /\ \A s, t \in Smells :  \* the identity is a function of the evidence
       CheckOf[s] = CheckOf[t] /\ EvidenceOf[s] = EvidenceOf[t]
         => IdentityOf[s] = IdentityOf[t]
ASSUME InputsAssumption ==
  /\ NoReceiver \notin Receivers
  /\ NewLines \subseteq Lines /\ MaxEdits \in Nat
  /\ \A s \in SettingsSet : s.mode \in {"auto", "syntax", "types"}

VARIABLES
  settings,  \* of every run
  source,    \* one sequence of lines per file
  complete,  \* per file: typeComplete of its package
  report,    \* of the last run
  fresh,     \* the report is of the present source
  edits

vars == <<settings, source, complete, report, fresh, edits>>

Files == DOMAIN source

(***************************************************************************)
(* Declarations: a function reaches from its first line to its last, the   *)
(* brace that opens the body is on the last line of its header.            *)
(***************************************************************************)
Heads(f) == {n \in DOMAIN source[f] : source[f][n].part \in {"func", "type", "spec"}}
Groups(f) == {n \in DOMAIN source[f] : source[f][n].part = "group"}
LinesOf(f, head) ==  \* the code of one function or type
  {n \in DOMAIN source[f] :
     /\ n >= head /\ source[f][n].part # "none"
     /\ \A h \in Heads(f) \cup Groups(f) : ~ (head < h /\ h <= n)}
GroupsOf(f, head) ==  \* the group a type stands in, if any
  {g \in Groups(f) :
     /\ g < head /\ source[f][head].part = "spec"
     /\ \A m \in g + 1..head : source[f][m].part \in {"spec", "body", "none"}}
DeclEnd(f, head) == CHOOSE n \in LinesOf(f, head) : \A m \in LinesOf(f, head) : m <= n
HeaderEnd(f, head) ==
  CHOOSE n \in LinesOf(f, head) :
    /\ source[f][n].part # "body"
    /\ \A m \in LinesOf(f, head) : m > n => source[f][m].part = "body"

IsComment(line) == line.part = "none" /\ line.note.kind # "none"

\* The comment lines right above a declaration are its Doc.
DocStart(f, head) ==
  CHOOSE n \in 1..head :
    /\ \A m \in n..(head - 1) : IsComment(source[f][m])
    /\ n > 1 => ~ IsComment(source[f][n - 1])

\* The Doc is that of the whole declaration: every type of a documented
\* group has its span begin above the group.
Documented(f, head) == {g \in GroupsOf(f, head) : DocStart(f, g) < g}
SpanStart(f, head) ==
  IF source[f][head].part # "spec" THEN DocStart(f, head)
  ELSE IF Documented(f, head) = {} THEN head
  ELSE DocStart(f, CHOOSE g \in Documented(f, head) : TRUE)

SpanToEnd(f, head) ==  \* fault: the span of a function includes its body
  SpanStart(f, head)..DeclEnd(f, head)

\* functionDeclarationSpan and typeDeclarationSpans.
DeclarationSpan(f, head) ==
  SpanStart(f, head)..(IF source[f][head].part = "func" THEN HeaderEnd(f, head)
                       ELSE DeclEnd(f, head))

EnclosingReceiver(f, n) ==
  LET methods == {h \in Heads(f) : source[f][h].part = "func"
                                   /\ h <= n /\ n <= DeclEnd(f, h)}
  IN IF methods = {} THEN NoReceiver ELSE source[f][CHOOSE h \in methods : TRUE].receiver

(***************************************************************************)
(* Suppressions.                                                           *)
(***************************************************************************)
RefusedSource ==  \* ValidateSuppressions
  \E f \in Files : \E n \in DOMAIN source[f] : source[f][n].note.kind = "bad"

Directives(f, kind) == {n \in DOMAIN source[f] : source[f][n].note.kind = kind}
DirectiveMatches(note, check) == note.id \in {check, CheckByID[check].rule}

MatchesLineOnly(f, directive, n) ==  \* fault: headers of several lines are forgotten
  directive = n \/ directive + 1 = n

MatchesLocation(f, directive, n) ==
  \/ directive = n \/ directive + 1 = n
  \/ \E h \in Heads(f) :
       LET span == DeclarationSpan(f, h)
       IN (directive \in span \/ directive + 1 = SpanStart(f, h)) /\ n \in span

LocationSuppressed(check, f, n) ==
  \E d \in Directives(f, "line") :
    DirectiveMatches(source[f][d].note, check) /\ MatchesLocation(f, d, n)

Related(i) ==
  {at \in UNION {{f} \X DOMAIN source[f] : f \in Files} :
     i.smell \in source[at[1]][at[2]].anchors}

IssueSuppressed(i) ==
  \/ \E d \in Directives(i.file, "file") :
       DirectiveMatches(source[i.file][d].note, i.check)
  \/ LocationSuppressed(i.check, i.file, i.line)
  \/ \E at \in Related(i) : LocationSuppressed(i.check, at[1], at[2])

(***************************************************************************)
(* The findings of the checks, and those that reach the report.            *)
(***************************************************************************)
RawIssues ==
  {i \in UNION {[smell : Smells, check : CheckIDs, file : {f}, line : DOMAIN source[f]] :
                  f \in Files} :
     i.smell \in source[i.file][i.line].smells /\ i.check = CheckOf[i.smell]}

PlannedIssues == UNION {GroupIssues(RawIssues, g) : g \in PlanGroups(settings)}

\* filterModeUnsupported.
ModeSupports(i) ==
  \/ CheckByID[i.check].syntax # "unavailable"
  \/ settings.mode = "types"
  \/ settings.mode = "auto" /\ complete[i.file]

Survivors == {i \in PlannedIssues : ModeSupports(i) /\ ~ IssueSuppressed(i)}

(***************************************************************************)
(* sortIssues.  The order of the check names is that of the registry here; *)
(* findings with equal keys stay in the order in which workers delivered   *)
(* them.                                                                   *)
(***************************************************************************)
CheckRank(id) == CHOOSE n \in DOMAIN Registry : Registry[n].id = id
SortKey(i) == <<i.file, i.line, CheckRank(i.check), EvidenceOf[i.smell]>>
LessKey(a, b) ==
  \E n \in DOMAIN a : a[n] < b[n] /\ \A m \in 1..(n - 1) : a[m] = b[m]

UnsortedOrders(S) ==  \* fault: sorted by file only
  {all \in [1..Cardinality(S) -> S] :
     /\ {all[x] : x \in DOMAIN all} = S
     /\ \A x, y \in DOMAIN all : x < y => all[x].file <= all[y].file}

SortedOrders(S) ==
  {all \in [1..Cardinality(S) -> S] :
     /\ {all[x] : x \in DOMAIN all} = S
     /\ \A x, y \in DOMAIN all : x # y => all[x] # all[y]
     /\ \A x, y \in DOMAIN all : x < y => ~ LessKey(SortKey(all[y]), SortKey(all[x]))}

(***************************************************************************)
(* disambiguateIdentities and FinalizeIssues.                              *)
(***************************************************************************)
IdentityKey(i) == <<i.check, i.file, IdentityOf[i.smell]>>
Group(all, x) == {y \in DOMAIN all : IdentityKey(all[y]) = IdentityKey(all[x])}

Qualifier(all, x) ==
  IF Cardinality(Group(all, x)) < 2 THEN NoReceiver
  ELSE EnclosingReceiver(all[x].file, all[x].line)

OccurrenceInFile(all, x) ==  \* fault: positions are counted per check
  Cardinality({all[y].line : y \in {y \in DOMAIN all :
     /\ all[y].check = all[x].check /\ all[y].file = all[x].file
     /\ all[y].line <= all[x].line}})

NoOccurrence(all, x) == 1  \* fault: only receivers tell findings apart

OccurrenceFromZero(all, x) ==  \* fault: off by one
  Cardinality({all[y].line : y \in {y \in Group(all, x) : all[y].line < all[x].line}})

\* Findings at one position count once; the second of them keeps its name
\* for FinalizeIssues to reject.
Occurrence(all, x) ==
  LET same == {y \in Group(all, x) : Qualifier(all, y) = Qualifier(all, x)}
      at(y) == all[y].line
  IN IF \E y \in same : y < x /\ at(y) = at(x) THEN 1
     ELSE Cardinality({at(y) : y \in {y \in same : at(y) <= at(x)}})

\* What Fingerprint hashes.
Fingerprint(all, x) ==
  [key |-> IdentityKey(all[x]), receiver |-> Qualifier(all, x),
   occurrence |-> Occurrence(all, x)]

Collides(all) ==
  \E x, y \in DOMAIN all : x # y /\ Fingerprint(all, x) = Fingerprint(all, y)

(***************************************************************************)
(* checkCoverageFor: what the statistics of the run say of a check.        *)
(***************************************************************************)
CoverageByAnyPackage(id) ==  \* fault: one typed package is enough
  IF id \notin PlanChecks(settings) THEN "not-selected"
  ELSE IF \E f \in Files : complete[f] THEN "complete"
  ELSE "unavailable"

CheckCoverage(id) ==
  IF id \notin PlanChecks(settings) THEN "not-selected"
  ELSE IF \A f \in Files : complete[f] THEN "complete"
  ELSE IF CheckByID[id].syntax = "equivalent" THEN "syntax-equivalent"
  ELSE IF CheckByID[id].syntax = "conservative" THEN "conservative"
  ELSE IF \E f \in Files : complete[f] THEN "partial"
  ELSE "unavailable"

(***************************************************************************)
(* executeAnalysis.                                                        *)
(***************************************************************************)
Without(verdict) ==
  [verdict |-> verdict, issues |-> <<>>, coverage |-> [id \in {} |-> "complete"]]

NoReport == Without("none")

ReportOf(all) ==
  [verdict |-> "ok",
   issues |-> [x \in DOMAIN all |->
                 [smell |-> all[x].smell, key |-> IdentityKey(all[x]),
                  within |-> EnclosingReceiver(all[x].file, all[x].line),
                  fingerprint |-> Fingerprint(all, x)]],
   coverage |-> [id \in CheckIDs |-> CheckCoverage(id)]]

Analyze ==
  /\ \/ SelectionRefused(settings) /\ report' = Without("refused settings")
     \/ /\ ~ SelectionRefused(settings) /\ RefusedSource
        /\ report' = Without("refused directive")
     \/ /\ ~ SelectionRefused(settings) /\ ~ RefusedSource
        /\ \E all \in SortedOrders(Survivors) :
             report' = IF Collides(all) THEN Without("collision") ELSE ReportOf(all)
  /\ fresh' = TRUE
  /\ UNCHANGED <<settings, source, complete, edits>>

(***************************************************************************)
(* Edits: lines come and go, what they say belongs to a declaration.       *)
(***************************************************************************)
InDeclarations(lines) ==
  \A n \in DOMAIN lines :
    LET before == {m \in 1..(n - 1) : lines[m].part # "none"}
        after(parts) == \E m \in before : /\ lines[m].part \in parts
                                          /\ \A k \in before : k <= m
    IN /\ lines[n].part = "param" => after({"func", "param"})
       /\ lines[n].part = "body" => after({"func", "param", "type", "spec", "body"})
       /\ lines[n].part = "spec" =>
            \E g \in before : /\ lines[g].part = "group"
                              /\ \A m \in before :
                                   m > g => lines[m].part \in {"spec", "body"}
       /\ lines[n].part = "none" => lines[n].smells \cup lines[n].anchors = {}
       /\ lines[n].part # "func" => lines[n].receiver = NoReceiver

WellFormed(lines) ==
  /\ InDeclarations(lines)
  /\ \A n, m \in DOMAIN lines : n # m => lines[n].smells \cap lines[m].smells = {}

EachSmellOnce(src) ==
  \A f, g \in DOMAIN src : f # g =>
    \A n \in DOMAIN src[f], m \in DOMAIN src[g] : src[f][n].smells \cap src[g][m].smells = {}

ASSUME SourcesAssumption ==
  \A src \in Sources :
    /\ src \in Seq(Seq(Lines))
    /\ \A f \in DOMAIN src : WellFormed(src[f])
    /\ EachSmellOnce(src)

ChangeFile(f, lines) ==
  /\ edits < MaxEdits /\ edits' = edits + 1
  /\ source' = [source EXCEPT ![f] = lines]
  /\ WellFormed(lines) /\ EachSmellOnce(source')
  /\ fresh' = FALSE
  /\ UNCHANGED <<settings, complete, report>>

InsertLine(f, n, line) ==
  ChangeFile(f, SubSeq(source[f], 1, n) \o <<line>> \o SubSeq(source[f], n + 1, Len(source[f])))

DeleteLine(f, n) ==
  ChangeFile(f, SubSeq(source[f], 1, n - 1) \o SubSeq(source[f], n + 1, Len(source[f])))

Init ==
  /\ settings \in SettingsSet
  /\ source \in Sources
  /\ complete \in [DOMAIN source -> BOOLEAN]
  /\ settings.mode = "types" => \A f \in DOMAIN source : complete[f]
  /\ settings.mode = "syntax" => \A f \in DOMAIN source : ~ complete[f]
  /\ report = NoReport
  /\ fresh = FALSE
  /\ edits = 0

Next ==
  \/ Analyze
  \/ \E f \in Files : \E n \in 0..Len(source[f]), line \in NewLines : InsertLine(f, n, line)
  \/ \E f \in Files : \E n \in DOMAIN source[f] : DeleteLine(f, n)

Spec == Init /\ [][Next]_vars

(***************************************************************************)
(* Properties.                                                             *)
(***************************************************************************)
ReportedIssue ==
  [smell : Smells, key : CheckIDs \X Nat \X {IdentityOf[s] : s \in Smells},
   within : Receivers \cup {NoReceiver},
   fingerprint : [key : CheckIDs \X Nat \X {IdentityOf[s] : s \in Smells},
                  receiver : Receivers \cup {NoReceiver}, occurrence : Nat \ {0}]]

\* Types; occurrences count from one (run.go:152).
TypeOK ==
  /\ settings \in SettingsSet
  /\ source \in Seq(Seq(Lines)) /\ \A f \in Files : WellFormed(source[f])
  /\ complete \in [Files -> BOOLEAN]
  /\ report.verdict \in {"none", "refused settings", "refused directive", "collision", "ok"}
  /\ report.issues \in Seq(ReportedIssue)
  /\ DOMAIN report.coverage = IF report.verdict = "ok" THEN CheckIDs ELSE {}
  /\ fresh \in BOOLEAN /\ edits \in 0..MaxEdits

Reported(r) == {r.issues[x].smell : x \in DOMAIN r.issues}
IssueOf(r, smell) == r.issues[CHOOSE x \in DOMAIN r.issues : r.issues[x].smell = smell]
Current == fresh /\ report.verdict = "ok"

\* What the README says of directives (README.md:285-293), in terms of the
\* lines between a directive and a finding.
InFunctionBody(f, n) ==
  /\ source[f][n].part = "body"
  /\ \E h \in Heads(f) : source[f][h].part = "func" /\ n \in LinesOf(f, h)

SameHeader(f, d, n) ==
  \E h \in Heads(f) :
    /\ n \in LinesOf(f, h) /\ ~ InFunctionBody(f, n)
    /\ \A m \in d + 1..h - 1 : IsComment(source[f][m])
    /\ \A m \in h + 1..d : m \notin Heads(f) /\ ~ InFunctionBody(f, m)

\* A documented group of types is one declaration to the code.
SameGroup(f, d, n) ==
  \E h \in Heads(f) : \E g \in Documented(f, h) :
    /\ \A m \in d + 1..g - 1 : IsComment(source[f][m])
    /\ g <= n /\ {d, n} \subseteq 1..DeclEnd(f, h)

MayCover(i) ==
  \/ \E d \in Directives(i.file, "file") :
       DirectiveMatches(source[i.file][d].note, i.check)
  \/ \E at \in Related(i) \cup {<<i.file, i.line>>} : \E d \in Directives(at[1], "line") :
       /\ DirectiveMatches(source[at[1]][d].note, i.check)
       /\ at[2] \in {d, d + 1} \/ SameHeader(at[1], d, at[2]) \/ SameGroup(at[1], d, at[2])

\* A finding that a check makes is missing from a report for a reason the
\* report or the source shows: the statistics say that its check was not
\* selected or could not run everywhere, or a directive for it stands on its
\* line, the line before, or in the header of its declaration, never in or
\* for a function's body (README.md:285-293, stats.go:130-180).  Inside a
\* "type (...)" group with a comment of its own this says little: the code
\* takes the group for one declaration, and a directive at one type silences
\* the others up to the last (run.go:501-517).
OmissionsExplained ==
  Current => \A i \in RawIssues :
    \/ i.smell \in Reported(report)
    \/ report.coverage[i.check] \in {"not-selected", "partial", "unavailable"}
    \/ MayCover(i)

\* A directive on the line of a finding, on the line before, or in the same
\* multi-line function signature silences it, and so does a file-level
\* directive in its file (README.md:285-292).
DirectivesHonoured ==
  Current => \A i \in RawIssues : i.smell \in Reported(report) =>
    /\ \A d \in Directives(i.file, "file") :
         ~ DirectiveMatches(source[i.file][d].note, i.check)
    /\ \A d \in Directives(i.file, "line") :
         DirectiveMatches(source[i.file][d].note, i.check) =>
           /\ i.line \notin {d, d + 1}
           /\ ~ \E h \in Heads(i.file) :
                  /\ {d, i.line} \subseteq LinesOf(i.file, h)
                  /\ {source[i.file][d].part, source[i.file][i.line].part}
                       \subseteq {"func", "param"}

\* A run is refused for a collision exactly when a check made the same
\* finding twice at one position; otherwise every reported finding has a
\* fingerprint of its own, so that accepting one never accepts another
\* (run.go:124-129, CONTRIBUTING.md:10).
CollisionsAreDuplicates ==
  /\ fresh /\ report.verdict \in {"ok", "collision"} =>
       (report.verdict = "collision" <=>
          \E i, j \in Survivors : /\ i # j /\ i.line = j.line
                                  /\ IdentityKey(i) = IdentityKey(j))
  /\ \A x, y \in DOMAIN report.issues : x # y =>
       report.issues[x].fingerprint # report.issues[y].fingerprint

\* Two runs on the same sources give the same report, in the same order,
\* whatever order the workers delivered the findings in (run.go:387).  The
\* findings of the checks are given here: Dispatch has one check that does not
\* always make the same (ocp_parallel.go:79).
SameSourceSameReport == [][Analyze /\ fresh => report' = report]_vars

\* The findings a finding shares its identity with, and their order.
Peers(r, smell) == {x \in DOMAIN r.issues : r.issues[x].key = IssueOf(r, smell).key}

SamePeers(r, q, smell) ==
  LET views(t) == {<<t.issues[x].smell, t.issues[x].key, t.issues[x].within>> :
                     x \in Peers(t, smell)}
      order(t) == {<<t.issues[p[1]].smell, t.issues[p[2]].smell>> :
                     p \in {p \in Peers(t, smell) \X Peers(t, smell) : p[1] <= p[2]}}
  IN views(r) = views(q) /\ order(r) = order(q)

\* Edits rename a finding only when they change which findings share its
\* identity, or their order: lines that move, comments, other findings and
\* directives for other findings leave its fingerprint alone (run.go:124-128,
\* README.md:203-207).
OnlyCollidersRenamed ==
  [][\A s \in Reported(report) \cap Reported(report') :
       SamePeers(report, report', s) =>
         IssueOf(report, s).fingerprint = IssueOf(report', s).fingerprint]_vars

=============================================================================
