---------------------------- MODULE Command_proofs ----------------------------
(* One run of the program, for any worlds, calls and baselines: what an    *)
(* exit code of 0 may leave unsaid, what one of 1 is due to, and what the  *)
(* modes of loading promise.  The invariant says, for each place the run   *)
(* can be at, how what it holds follows from what it was given.            *)
EXTENDS Command, TLAPS

Resolved ==
  /\ policy = Policy(call, ConfigDocument, ConfigPath)
  /\ call.mode \in {"auto", "syntax", "types"}
Loaded ==
  /\ Resolved
  /\ loaded = LoadWorkspace(world.loader, call.targets, call.tests, call.mode, policy.checks)
Detected == {smell \in world.smells : Found(smell)}
Told == call.command = "check" => stderr = loaded.warnings
Debt == IF call.baseline = NoFile THEN {} ELSE Baseline.accepted

\* A report holds what was detected and is no accepted debt, and decides the
\* exit code.
ReportedAll ==
  /\ Loaded /\ Told /\ call.command = "check"
  /\ issues = Detected \ Debt /\ stdout.issues = issues
  /\ ~ WriteFailed =>
       exit = IF call.fail /\ HasSeverityAtLeast(issues, policy.failLevel) THEN 1 ELSE 0
  /\ WriteFailed => exit = 2
FailedUnreported ==
  \/ world.pipe # "open"
  \/ stdout.kind = "diff" /\ stdout.issues # {}
  \/ call.command = "check" /\ call.baseline # NoFile /\ RejectedDebt

CommandInv ==
  /\ world \in Worlds /\ call \in Calls
  /\ pc \in {"parse", "resolved", "loaded", "analysed", "written", "accepted", "done"}
  /\ loaded # Nothing => Loaded /\ pc \notin {"parse", "resolved"}
  /\ pc = "resolved" => Resolved
  /\ pc = "loaded" => Loaded
  /\ pc \in {"analysed", "written"} => Loaded /\ Told /\ issues = Detected
  /\ pc = "accepted" => Loaded /\ Told /\ issues = Detected \ Debt
  /\ pc # "done" => stdout = Silence
  /\ pc = "done" /\ stdout.kind = "report" => ReportedAll
  /\ pc = "done" /\ stdout.kind # "report" /\ exit = 1 => FailedUnreported

-----------------------------------------------------------------------------
(***************************************************************************)
(* Loading.                                                                *)
(***************************************************************************)
\* Whatever is required of it, a load names the same packages, and what it says
\* of types is true.
LEMMA LoadsSelected ==
  ASSUME NEW loader, NEW targets, NEW tests, NEW req
  PROVE  LET load == LoadOnce(loader, targets, tests, req)
             some == Returned(loader, targets, tests)
         IN /\ {<<p.path, p.forTest>> : p \in load.packages} =
                 {<<p.path, p.forTest>> : p \in SelectLoaded(some)}
            /\ \A p \in SelectLoaded(some) :
                 \E q \in load.packages :
                   /\ q.path = p.path /\ q.forTest = p.forTest
                   /\ q.complete <=> req.needsTypeInfo /\ ~ p.illTyped
            /\ \A p \in some : req.needsTypeInfo /\ p.illTyped => p.path \in load.warnings
            /\ load.ok /\ req.strict /\ req.needsTypeInfo => \A q \in load.packages : q.complete
<1> DEFINE load == LoadOnce(loader, targets, tests, req)
           some == Returned(loader, targets, tests)
           Row(p) == [path |-> p.path, forTest |-> p.forTest,
                      complete |-> req.needsTypeInfo /\ ~ p.illTyped]
<1>1. /\ load.packages = {Row(p) : p \in SelectLoaded(some)}
      /\ load.warnings = {p.path : p \in {p \in some : req.needsTypeInfo /\ p.illTyped}}
      /\ load.ok /\ req.strict => {p \in some : req.needsTypeInfo /\ p.illTyped} = {}
  BY DEF LoadOnce
<1>2. \A p \in SelectLoaded(some) : p \in some
  BY DEF SelectLoaded
<1> HIDE DEF load, some
<1>3. \A p \in SelectLoaded(some) : Row(p) \in load.packages
  BY <1>1
<1>4. \A q \in load.packages : \E p \in SelectLoaded(some) : q = Row(p)
  BY <1>1
<1>5. {<<p.path, p.forTest>> : p \in load.packages} =
        {<<p.path, p.forTest>> : p \in SelectLoaded(some)}
  <2>1. ASSUME NEW q \in load.packages
        PROVE  \E p \in SelectLoaded(some) : q.path = p.path /\ q.forTest = p.forTest
    BY <1>4
  <2>2. ASSUME NEW p \in SelectLoaded(some)
        PROVE  \E q \in load.packages : q.path = p.path /\ q.forTest = p.forTest
    BY <1>3
  <2> QED BY <2>1, <2>2
<1>6. ASSUME load.ok, req.strict, req.needsTypeInfo, NEW q \in load.packages
      PROVE  q.complete
  <2>1. PICK p \in SelectLoaded(some) : q = Row(p)
    BY <1>4
  <2>2. ~ p.illTyped
    BY <1>1, <1>2, <1>6
  <2> QED BY <1>6, <2>1, <2>2
<1>7. \A p \in some : req.needsTypeInfo /\ p.illTyped => p.path \in load.warnings
  BY <1>1
<1>8. \A p \in SelectLoaded(some) :
        \E q \in load.packages :
          /\ q.path = p.path /\ q.forTest = p.forTest
          /\ q.complete <=> req.needsTypeInfo /\ ~ p.illTyped
  BY <1>3
<1> QED BY <1>5, <1>6, <1>7, <1>8 DEF load, some

LEMMA RequirementsOf ==
  ASSUME NEW mode, NEW checks
  PROVE  /\ mode = "types" => Requirements(mode, checks).strict
         /\ mode = "types" => Requirements(mode, checks).needsTypeInfo
         /\ mode # "types" => ~ Requirements(mode, checks).strict
         /\ mode = "auto" /\ (\E id \in checks : CheckByID[id].syntax # "equivalent")
              => Requirements(mode, checks).needsTypeInfo
         /\ ~ SyntaxOnly.strict /\ ~ SyntaxOnly.needsTypeInfo
BY DEF Requirements, SyntaxOnly

\* The load a run works with is the first one or, in auto mode, a second one
\* without types that warns of the whole run.
LEMMA WorkspaceIsOneLoad ==
  ASSUME NEW loader, NEW targets, NEW tests, NEW mode, NEW checks
  PROVE  LET load == LoadWorkspace(loader, targets, tests, mode, checks)
             req == Requirements(mode, checks)
             first == LoadOnce(loader, targets, tests, req)
             second == LoadOnce(loader, targets, tests, SyntaxOnly)
         IN \/ load = first /\ ~ (~ first.ok /\ mode = "auto" /\ req.needsTypeInfo /\ second.ok)
            \/ /\ mode = "auto" /\ second.ok
               /\ load.ok = second.ok /\ load.packages = second.packages
               /\ load.warnings = {WholeRun}
BY DEF LoadWorkspace, LoadOnce

\* The modes, for one load of a workspace.
LEMMA ModesOfLoad ==
  ASSUME NEW loader, NEW targets, NEW tests, NEW mode, NEW checks
  PROVE  LET load == LoadWorkspace(loader, targets, tests, mode, checks)
             bare == LoadOnce(loader, targets, tests, SyntaxOnly)
         IN /\ mode = "types" /\ load.ok => \A p \in load.packages : p.complete
            /\ mode = "auto" /\ bare.ok =>
                 /\ load.ok
                 /\ {<<p.path, p.forTest>> : p \in load.packages} =
                      {<<p.path, p.forTest>> : p \in bare.packages}
<1> DEFINE load == LoadWorkspace(loader, targets, tests, mode, checks)
           req == Requirements(mode, checks)
           first == LoadOnce(loader, targets, tests, req)
           bare == LoadOnce(loader, targets, tests, SyntaxOnly)
<1>1. CASE load = first /\ ~ (~ first.ok /\ mode = "auto" /\ req.needsTypeInfo /\ bare.ok)
  <2>1. mode = "types" /\ load.ok => \A p \in load.packages : p.complete
    BY <1>1, RequirementsOf, LoadsSelected
  <2>2. {<<p.path, p.forTest>> : p \in load.packages} =
          {<<p.path, p.forTest>> : p \in bare.packages}
    BY <1>1, LoadsSelected
  <2>3. ASSUME mode = "auto", bare.ok, ~ first.ok PROVE FALSE
    <3>1. ~ req.needsTypeInfo /\ ~ req.strict
      BY <1>1, <2>3, RequirementsOf
    <3>2. ~ SyntaxOnly.needsTypeInfo /\ ~ SyntaxOnly.strict
      BY RequirementsOf
    <3>3. \A kind : Fails(kind, req) <=> Fails(kind, SyntaxOnly)
      BY <3>1, <3>2 DEF Fails
    <3> QED BY <2>3, <3>1, <3>2, <3>3 DEF LoadOnce
  <2> QED BY <1>1, <2>1, <2>2, <2>3
<1>2. CASE mode = "auto" /\ bare.ok /\ load.ok = bare.ok /\ load.packages = bare.packages
  BY <1>2
<1> QED BY <1>1, <1>2, WorkspaceIsOneLoad

\* What a run of a check knows of a smell it was asked for: it is detected, or
\* its file is excluded, or it needs types and the load lacks them and says so.
LEMMA AskedIsDetected ==
  ASSUME Loaded, world \in Worlds, NEW smell \in world.smells, Asked(smell),
         ~ Found(smell), smell.file \notin policy.excludes
  PROVE  /\ NeedsTypes(smell)
         /\ call.mode = "syntax" \/ loaded.warnings \cap {smell.package, WholeRun} # {}
<1> DEFINE loader == world.loader
           some == Returned(loader, call.targets, call.tests)
           req == Requirements(call.mode, policy.checks)
           first == LoadOnce(loader, call.targets, call.tests, req)
           bare == LoadOnce(loader, call.targets, call.tests, SyntaxOnly)
<1>1. PICK p \in loader.packages : p.path = smell.package /\ Matches(call.targets, p)
  BY DEF Asked
<1>2. PICK q \in loader.packages :
        q.path = p.path /\ q.dir = p.dir /\ (q.forTest <=> smell.inTest)
  BY <1>1, WorldsAssumption
<1>3. q \in some
  BY <1>1, <1>2 DEF Asked, Returned, Matches
<1>4. PICK r \in SelectLoaded(some) : r.path = smell.package /\ (smell.inTest => r.forTest)
  <2>1. CASE q \in SelectLoaded(some)
    BY <1>1, <1>2, <2>1
  <2>2. CASE q \notin SelectLoaded(some)
    <3>1. PICK r \in some : r.path = q.path /\ r.forTest
      BY <1>3, <2>2 DEF SelectLoaded
    <3> QED BY <1>1, <1>2, <3>1 DEF SelectLoaded
  <2> QED BY <2>1, <2>2
<1>5. r \in some /\ smell.check \in policy.checks
  BY <1>4 DEF SelectLoaded, Asked
<1>6. ASSUME NEW m \in loaded.packages, m.path = r.path, m.forTest = r.forTest
      PROVE  NeedsTypes(smell) /\ ~ m.complete
  BY <1>4, <1>5, <1>6 DEF Found, NeedsTypes
<1>7. CASE loaded = first
  <2>1. PICK m \in loaded.packages :
          /\ m.path = r.path /\ m.forTest = r.forTest
          /\ m.complete <=> req.needsTypeInfo /\ ~ r.illTyped
    BY <1>7, LoadsSelected
  <2>2. NeedsTypes(smell) /\ ~ (req.needsTypeInfo /\ ~ r.illTyped)
    BY <1>6, <2>1
  <2>3. call.mode # "syntax" => req.needsTypeInfo
    <3>1. CheckByID[smell.check].syntax # "equivalent"
      BY <2>2, WorldsAssumption DEF NeedsTypes
    <3> QED BY <1>5, <3>1, RequirementsOf DEF Loaded, Resolved
  <2>4. req.needsTypeInfo /\ r.illTyped => smell.package \in loaded.warnings
    BY <1>4, <1>5, <1>7, LoadsSelected
  <2> QED BY <2>2, <2>3, <2>4
<1>8. CASE loaded.packages = bare.packages /\ loaded.warnings = {WholeRun}
  <2>1. PICK m \in loaded.packages : m.path = r.path /\ m.forTest = r.forTest
    BY <1>8, LoadsSelected
  <2> QED BY <1>6, <1>8, <2>1
<1> QED BY <1>7, <1>8, WorkspaceIsOneLoad DEF Loaded

-----------------------------------------------------------------------------
(***************************************************************************)
(* Directories, and the walk that finds a configuration.                   *)
(***************************************************************************)
\* What is above a directory is the least set that holds it and its parents.
LEMMA AboveIsLeast ==
  ASSUME NEW dir \in Dirs
  PROVE  /\ dir \in Above(dir) /\ Above(dir) \subseteq Dirs
         /\ \A a \in Above(dir) : Parent[a] \in Above(dir)
         /\ \A some \in SUBSET Dirs :
              dir \in some /\ (\A e \in some : Parent[e] \in some) => Above(dir) \subseteq some
<1>1. \A a \in Dirs : Parent[a] \in Dirs
  BY DirsAssumption
<1>2. ASSUME NEW a \in Above(dir) PROVE Parent[a] \in Above(dir)
  BY <1>1, <1>2 DEF Above
<1> QED BY <1>2 DEF Above

LEMMA AboveTransits ==
  ASSUME NEW a, NEW b \in Dirs, NEW c \in Dirs, a \in Above(b), b \in Above(c)
  PROVE  a \in Above(c)
<1>1. Above(c) \in SUBSET Dirs /\ \A e \in Above(c) : Parent[e] \in Above(c)
  BY AboveIsLeast
<1> QED BY <1>1, AboveIsLeast

LEMMA AboveByParent ==
  ASSUME NEW dir \in Dirs, NEW a \in Above(dir), a # dir
  PROVE  a \in Above(Parent[dir])
<1> DEFINE some == {dir} \cup Above(Parent[dir])
<1>1. Parent[dir] \in Dirs
  BY DirsAssumption
<1>2. some \in SUBSET Dirs /\ dir \in some
  BY <1>1, AboveIsLeast
<1>3. \A e \in some : Parent[e] \in some
  BY <1>1, AboveIsLeast
<1>4. Above(dir) \subseteq some
  BY <1>2, <1>3, AboveIsLeast
<1> QED BY <1>4

\* Of two directories one of them alone is above the other.
LEMMA AboveOneWay ==
  ASSUME NEW a \in Dirs, NEW b \in Dirs, a \in Above(b), b \in Above(a)
  PROVE  a = b
<1> DEFINE circle == {d \in Dirs : a \in Above(d) /\ d \in Above(a)}
<1>1. PICK d \in circle : Parent[d] = d \/ Parent[d] \notin circle
  <2>1. circle \in (SUBSET Dirs) \ {{}}
    BY AboveIsLeast
  <2> QED BY <2>1, DirsAssumption
<1>2. d \in Dirs /\ a \in Above(d) /\ Parent[d] \in Dirs /\ Parent[d] \in Above(a)
  BY <1>1, AboveIsLeast, DirsAssumption
<1>3. CASE Parent[d] = d
  <2>1. Above(d) \subseteq {d}
    <3>1. {d} \in SUBSET Dirs /\ d \in {d} /\ \A e \in {d} : Parent[e] \in {d}
      BY <1>2, <1>3
    <3> QED BY <1>2, <3>1, AboveIsLeast
  <2>2. a = d
    BY <1>2, <2>1
  <2> QED BY <2>1, <2>2
<1>4. CASE Parent[d] \notin circle
  <2>1. a = d
    BY <1>2, <1>4, AboveByParent
  <2>2. ASSUME b # a PROVE FALSE
    <3>1. b \in Above(Parent[a])
      BY <2>2, AboveByParent
    <3>2. a \in Above(Parent[a])
      BY <1>2, <2>1, <3>1, AboveTransits
    <3> QED BY <1>2, <1>4, <2>1, <3>2
  <2> QED BY <2>2
<1> QED BY <1>1, <1>3, <1>4

LEMMA VisitedIsLeast ==
  ASSUME NEW tree, NEW start \in Dirs
  PROVE  /\ start \in Visited(tree, start) /\ Visited(tree, start) \subseteq Dirs
         /\ \A d \in Visited(tree, start) :
              Configured(tree, d) \/ Parent[d] \in Visited(tree, start)
         /\ \A some \in SUBSET Dirs :
              start \in some /\ (\A e \in some : Configured(tree, e) \/ Parent[e] \in some)
                => Visited(tree, start) \subseteq some
<1>1. \A a \in Dirs : Parent[a] \in Dirs
  BY DirsAssumption
<1>2. ASSUME NEW d \in Visited(tree, start), ~ Configured(tree, d)
      PROVE  Parent[d] \in Visited(tree, start)
  BY <1>1, <1>2 DEF Visited
<1> QED BY <1>2 DEF Visited

\* A walk visits what is above its start up to one directory with a file, and
\* beyond that one nothing; without a file it visits everything above.
LEMMA WalkEnds ==
  ASSUME NEW tree, NEW start \in Dirs
  PROVE  LET visited == Visited(tree, start)
         IN /\ visited \subseteq Above(start)
            /\ \A c, d \in visited : Configured(tree, c) /\ Configured(tree, d) => c = d
            /\ \A c \in visited :
                 Configured(tree, c) => Above(start) \subseteq visited \cup Above(c)
            /\ (\A d \in visited : ~ Configured(tree, d)) => Above(start) \subseteq visited
<1> DEFINE visited == Visited(tree, start)
<1>1. visited \subseteq Above(start)
  <2>1. /\ Above(start) \in SUBSET Dirs /\ start \in Above(start)
        /\ \A e \in Above(start) : Configured(tree, e) \/ Parent[e] \in Above(start)
    BY AboveIsLeast
  <2> QED BY <2>1, VisitedIsLeast
<1>2. ASSUME NEW c \in visited, Configured(tree, c)
      PROVE  visited \subseteq {d \in Dirs : c \in Above(d)}
  <2> DEFINE some == {d \in Dirs : c \in Above(d)}
  <2>1. some \in SUBSET Dirs /\ start \in some
    BY <1>1
  <2>2. ASSUME NEW e \in some, ~ Configured(tree, e) PROVE Parent[e] \in some
    <3>1. c # e /\ Parent[e] \in Dirs
      BY <1>2, <2>2, DirsAssumption
    <3> QED BY <3>1, AboveByParent
  <2> HIDE DEF some
  <2>3. visited \subseteq some
    BY <2>1, <2>2, VisitedIsLeast
  <2> QED BY <2>3 DEF some
<1>3. ASSUME NEW c \in visited, NEW d \in visited, Configured(tree, c), Configured(tree, d)
      PROVE  c = d
  <2>1. c \in Above(d) /\ d \in Above(c) /\ c \in Dirs /\ d \in Dirs
    BY <1>2, <1>3
  <2> QED BY <2>1, AboveOneWay
<1>4. ASSUME NEW c \in visited, Configured(tree, c)
      PROVE  Above(start) \subseteq visited \cup Above(c)
  <2>1. c \in Dirs /\ visited \subseteq Dirs /\ start \in visited
    BY VisitedIsLeast
  <2>2. \A e \in visited : e = c \/ Parent[e] \in visited
    BY <1>3, <1>4, VisitedIsLeast
  <2>3. Above(c) \subseteq Dirs /\ c \in Above(c) /\ \A e \in Above(c) : Parent[e] \in Above(c)
    BY <2>1, AboveIsLeast
  <2> DEFINE some == visited \cup Above(c)
  <2>4. some \in SUBSET Dirs /\ start \in some /\ \A e \in some : Parent[e] \in some
    BY <2>1, <2>2, <2>3
  <2> HIDE DEF some
  <2>5. Above(start) \subseteq some
    BY <2>4, AboveIsLeast
  <2> QED BY <2>5 DEF some
<1>5. ASSUME \A d \in visited : ~ Configured(tree, d)
      PROVE  Above(start) \subseteq visited
  <2>1. visited \in SUBSET Dirs /\ start \in visited /\ \A e \in visited : Parent[e] \in visited
    BY <1>5, VisitedIsLeast
  <2> QED BY <2>1, AboveIsLeast
<1> QED BY <1>1, <1>3, <1>4, <1>5

\* The files of a directory, and what they make of it.
FilesIn(tree, dir) == {path \in DOMAIN tree : path[1] = dir /\ path[2] \in ConfigFileNames}

LEMMA FileOfDirectory ==
  ASSUME NEW tree, NEW dir, NoFile \notin DOMAIN tree
  PROVE  /\ Configured(tree, dir) <=> FilesIn(tree, dir) # {}
         /\ ConfigFileInDir(tree, dir) \in {NoFile, Ambiguous}
              \/ FilesIn(tree, dir) = {ConfigFileInDir(tree, dir)}
<1> DEFINE found == FilesIn(tree, dir)
           here == ConfigFileInDir(tree, dir)
<1>1. here = CASE found = {} -> NoFile
               [] \E path \in found : found = {path} -> CHOOSE path \in found : TRUE
               [] OTHER -> Ambiguous
  BY DEF ConfigFileInDir, FilesIn
<1>2. CASE found = {}
  <2>1. here = NoFile
    BY <1>1, <1>2
  <2> QED BY <1>2, <2>1 DEF Configured
<1>3. CASE \E path \in found : found = {path}
  <2>1. PICK path \in found : found = {path}
    BY <1>3
  <2>2. here = path
    BY <1>1, <2>1
  <2>3. path \in DOMAIN tree
    BY DEF FilesIn
  <2> QED BY <2>1, <2>2, <2>3 DEF Configured
<1>4. CASE found # {} /\ ~ \E path \in found : found = {path}
  <2>1. here = Ambiguous
    BY <1>1, <1>4
  <2> QED BY <1>4, <2>1, DirsAssumption DEF Configured
<1> QED BY <1>2, <1>3, <1>4

\* What FindConfig returns is no file and there is none above, or it is the only
\* file of its directory, and any other one above lies further up.
LEMMA FoundAbove ==
  ASSUME NEW tree, NEW start \in Dirs, NoFile \notin DOMAIN tree,
         FindConfig(tree, start) # Ambiguous
  PROVE  LET above == {path \in DOMAIN tree :
                         path[1] \in Above(start) /\ path[2] \in ConfigFileNames}
             file == FindConfig(tree, start)
         IN IF file = NoFile THEN above = {}
            ELSE /\ file \in above
                 /\ \A path \in above \ {file} : file[1] \in Below(path[1]) \ {path[1]}
<1> DEFINE above == {path \in DOMAIN tree :
                       path[1] \in Above(start) /\ path[2] \in ConfigFileNames}
           file == FindConfig(tree, start)
           visited == Visited(tree, start)
           ends == {d \in visited : Configured(tree, d)}
<1>1. file = IF ends = {} THEN NoFile ELSE ConfigFileInDir(tree, CHOOSE d \in ends : TRUE)
  BY DEF FindConfig
<1>2. \A path \in above : path \in FilesIn(tree, path[1]) /\ Configured(tree, path[1])
  <2>1. \A path \in above : path \in FilesIn(tree, path[1])
    BY DEF FilesIn
  <2> QED BY <2>1, FileOfDirectory
<1>3. CASE ends = {}
  <2>1. Above(start) \subseteq visited
    BY <1>3, WalkEnds
  <2>2. \A path \in above : path[1] \in ends
    BY <1>2, <2>1
  <2> QED BY <1>1, <1>3, <2>2
<1>4. CASE ends # {}
  <2>1. PICK c \in ends : file = ConfigFileInDir(tree, c)
    BY <1>1, <1>4
  <2>2. file # NoFile /\ FilesIn(tree, c) = {file}
    BY <2>1, FileOfDirectory DEF Configured
  <2>3. file \in DOMAIN tree /\ file[1] = c /\ file[2] \in ConfigFileNames
    BY <2>2 DEF FilesIn
  <2>4. c \in Above(start) /\ c \in Dirs
    BY WalkEnds, VisitedIsLeast
  <2>5. file \in above
    BY <2>3, <2>4
  <2>6. ASSUME NEW path \in above \ {file}
        PROVE  file[1] \in Below(path[1]) \ {path[1]}
    <3>1. path[1] # c
      BY <1>2, <2>2
    <3>2. path[1] \notin visited
      BY <1>2, <3>1, WalkEnds
    <3>3. path[1] \in Above(c)
      BY <3>2, WalkEnds
    <3> QED BY <2>3, <2>4, <3>1, <3>3 DEF Below
  <2> QED BY <2>2, <2>5, <2>6
<1> QED BY <1>3, <1>4

-----------------------------------------------------------------------------
(***************************************************************************)
(* The steps.                                                              *)
(***************************************************************************)
\* A run that stops without a report keeps what it holds.
LEMMA StopKeeps ==
  ASSUME CommandInv, pc # "done", NEW code, pc' = "done", exit' = code,
         UNCHANGED <<world, call, policy, loaded, issues>>,
         pc \in {"parse", "resolved"} => loaded = Nothing,
         stdout'.kind # "report", code = 1 => FailedUnreported'
  PROVE  CommandInv'
<1>1. Loaded => Loaded'
  BY DEF Loaded, Resolved, ConfigPath, ConfigDocument
<1> QED BY <1>1 DEF CommandInv

LEMMA PrintedIs ==
  ASSUME NEW kind, NEW found, Prints(kind, found)
  PROVE  /\ world.pipe = "open" => stdout'.kind = kind /\ stdout'.issues = found
         /\ world.pipe # "open" => stdout' = Silence
         /\ stdout'.kind \in {kind, "none"} /\ Silence.kind = "none"
BY DEF Prints, Silence

LEMMA CommandStep == CommandInv /\ [Next]_vars => CommandInv'
<1> SUFFICES ASSUME CommandInv, [Next]_vars PROVE CommandInv'
  OBVIOUS
<1> USE DEF Goto, Exit, inputs, results, output
<1>0. /\ pc \in {"parse", "resolved"} => loaded = Nothing
      /\ pc # "done" => stdout = Silence
      /\ Silence.kind = "none"
  BY DEF CommandInv, Silence
<1>1. CASE RefuseArguments
  <2>1. PICK code \in {0, 2} : pc' = "done" /\ exit' = code
    BY <1>1 DEF RefuseArguments, Stop
  <2> QED BY <1>0, <1>1, <2>1, StopKeeps DEF RefuseArguments, Stop
<1>2. CASE ShowVersion
  BY <1>0, <1>2, StopKeeps, PrintedIs DEF ShowVersion
<1>3. CASE ValidateConfig
  <2>1. /\ pc = "parse" /\ pc' = "done" /\ exit' \in {0, 2}
        /\ Prints("valid", {}) \/ stdout' = stdout
        /\ UNCHANGED <<world, call, policy, loaded, issues>>
    BY <1>3 DEF ValidateConfig
  <2>2. stdout'.kind # "report"
    BY <1>0, <2>1, PrintedIs
  <2> QED BY <1>0, <2>1, <2>2, StopKeeps
<1>4. CASE ExplainCheck
  <2>1. /\ pc = "parse" /\ pc' = "done" /\ exit' \in {0, 2}
        /\ Prints("checks", {}) \/ stdout' = stdout
        /\ UNCHANGED <<world, call, policy, loaded, issues>>
    BY <1>4 DEF ExplainCheck
  <2>2. stdout'.kind # "report"
    BY <1>0, <2>1, PrintedIs
  <2> QED BY <1>0, <2>1, <2>2, StopKeeps
<1>5. CASE RefusePolicy
  BY <1>0, <1>5, StopKeeps DEF RefusePolicy, Resolves, Stop
<1>6. CASE ResolvePolicy
  <2>1. OptionsValid(call)
    BY <1>6 DEF ResolvePolicy, Resolves, ArgumentsRefused
  <2>2. Resolved'
    BY <1>6, <2>1 DEF ResolvePolicy, Resolved, OptionsValid, ConfigPath, ConfigDocument
  <2> QED BY <1>0, <1>6, <2>2 DEF ResolvePolicy, Resolves, CommandInv
<1>7. CASE PrintConfig
  <2>1. exit' \in {0, 2} /\ Prints("config", {})
    BY <1>7 DEF PrintConfig
  <2> QED BY <1>0, <1>7, <2>1, StopKeeps, PrintedIs DEF PrintConfig
<1>8. CASE Load
  <2>1. /\ pc = "resolved" /\ UNCHANGED <<world, call, policy, issues, documents, stdout, stderr>>
        /\ loaded' = LoadWorkspace(world.loader, call.targets, call.tests, call.mode,
                                   policy.checks)
        /\ pc' = "loaded" \/ (pc' = "done" /\ exit' = 2)
    BY <1>8 DEF Load
  <2>2. Loaded'
    BY <2>1 DEF CommandInv, Resolved, Loaded, ConfigPath, ConfigDocument
  <2> QED BY <1>0, <2>1, <2>2 DEF CommandInv
<1>9. CASE RefuseSources
  BY <1>0, <1>9, StopKeeps DEF RefuseSources, Stop
<1>10. CASE Analyse
  <2>1. Loaded' /\ Told'
    BY <1>10 DEF Analyse, CommandInv, Loaded, Resolved, Told, WarnsOfLoad, ConfigPath,
                 ConfigDocument
  <2>2. issues' = Detected'
    BY <1>10 DEF Analyse, Detected, Found
  <2> QED BY <1>0, <1>10, <2>1, <2>2 DEF Analyse, CommandInv
<1>11. CASE WriteBaseline
  <2>1. /\ pc = "analysed" /\ UNCHANGED <<world, call, policy, loaded, issues, stdout, stderr>>
        /\ pc' = "written" \/ (pc' = "done" /\ exit' = 2)
    BY <1>11 DEF WriteBaseline, Checking
  <2>2. Loaded' /\ Told' /\ issues' = Detected'
    BY <2>1 DEF CommandInv, Loaded, Resolved, Told, ConfigPath, ConfigDocument, Detected, Found
  <2> QED BY <1>0, <2>1, <2>2 DEF CommandInv
<1>12. CASE RefuseBaseline
  <2>1. pc \in {"analysed", "written"}
    BY <1>12 DEF RefuseBaseline, Accepting, Checking
  <2> QED BY <1>0, <1>12, <2>1, StopKeeps DEF RefuseBaseline, Stop
<1>13. CASE RejectBaseline
  <2>1. pc \in {"analysed", "written"} /\ call.command = "check"
    BY <1>13 DEF RejectBaseline, Accepting, Checking
  <2>2. FailedUnreported'
    BY <1>13, <2>1 DEF RejectBaseline, Stop, FailedUnreported, RejectedDebt, Baseline
  <2> QED BY <1>0, <1>13, <2>1, <2>2, StopKeeps DEF RejectBaseline, Stop
<1>14. CASE Accept
  <2>1. pc \in {"analysed", "written"} /\ issues' = issues \ Debt
        /\ UNCHANGED <<world, call, policy, loaded, documents, stdout, stderr>>
        /\ pc' = "accepted"
    BY <1>14 DEF Accept, Accepting, Checking, Debt
  <2>2. Loaded' /\ Told' /\ Detected' = Detected /\ Debt' = Debt
    BY <2>1 DEF CommandInv, Loaded, Resolved, Told, ConfigPath, ConfigDocument, Detected, Found,
                Debt, Baseline
  <2> QED BY <1>0, <2>1, <2>2 DEF CommandInv
<1>15. CASE Report
  <2>1. /\ pc = "accepted" /\ call.command = "check" /\ Prints("report", issues) /\ pc' = "done"
        /\ UNCHANGED <<world, call, policy, loaded, issues, documents, stderr>>
        /\ WriteFailed => exit' = 2
        /\ ~ WriteFailed =>
             exit' = IF call.fail /\ HasSeverityAtLeast(issues, policy.failLevel) THEN 1 ELSE 0
    BY <1>15 DEF Report, Checking
  <2>2. Loaded' /\ Told' /\ issues' = Detected' \ Debt'
    BY <2>1 DEF CommandInv, Loaded, Resolved, Told, ConfigPath, ConfigDocument, Detected, Found,
                Debt, Baseline
  <2>3. stdout'.kind = "report" => ReportedAll'
    BY <2>1, <2>2, PrintedIs, <1>0 DEF ReportedAll, WriteFailed, HasSeverityAtLeast
  <2>4. stdout'.kind # "report" => world.pipe # "open"
    BY <2>1, PrintedIs
  <2> QED BY <2>1, <2>2, <2>3, <2>4 DEF CommandInv, FailedUnreported
<1>16. CASE Stats
  <2>1. exit' \in {0, 2} /\ Prints("stats", {})
    BY <1>16 DEF Stats
  <2> QED BY <1>0, <1>16, <2>1, StopKeeps, PrintedIs DEF Stats
<1>17. CASE MaintainBaseline
  <2>1. pc = "analysed" /\ pc' = "done" /\ UNCHANGED <<world, call, policy, loaded, issues>>
    BY <1>17 DEF MaintainBaseline, Stop
  <2>2. \/ exit' \in {0, 2} /\ (stdout' = stdout \/ Prints("diff", Changed))
        \/ exit' = 1 /\ Changed # {} /\ Prints("diff", Changed)
    BY <1>17 DEF MaintainBaseline, Stop
  <2>3. stdout'.kind # "report" /\ (exit' = 1 => FailedUnreported')
    BY <1>0, <2>1, <2>2, PrintedIs DEF FailedUnreported
  <2> QED BY <1>0, <2>1, <2>3, StopKeeps
<1>18. CASE Ended \/ UNCHANGED vars
  <2>1. UNCHANGED vars
    BY <1>18 DEF Ended
  <2>2. /\ Loaded => Loaded'
        /\ Resolved => Resolved'
        /\ Told => Told'
        /\ Detected' = Detected /\ Debt' = Debt
        /\ FailedUnreported => FailedUnreported'
    BY <2>1 DEF vars, Loaded, Resolved, Told, ConfigPath, ConfigDocument, Detected, Found,
                Debt, Baseline, FailedUnreported, RejectedDebt
  <2>3. ReportedAll => ReportedAll'
    BY <2>1, <2>2 DEF vars, ReportedAll, WriteFailed, HasSeverityAtLeast
  <2> QED BY <2>1, <2>2, <2>3 DEF CommandInv, vars
<1> QED
  BY <1>1, <1>2, <1>3, <1>4, <1>5, <1>6, <1>7, <1>8, <1>9, <1>10, <1>11, <1>12, <1>13, <1>14,
     <1>15, <1>16, <1>17, <1>18 DEF Next

-----------------------------------------------------------------------------
(***************************************************************************)
(* The theorems.                                                           *)
(***************************************************************************)
\* The inductive invariant of a run.
THEOREM CommandInvariance == Spec => []CommandInv
<1>1. Init => CommandInv
  BY DEF Init, CommandInv
<1> QED BY <1>1, CommandStep, PTL DEF Spec

\* The level a run fails at is the one that was asked for.
LEMMA LevelAsked == Resolved => policy.failLevel = FailLevelAsked
BY DEF Resolved, Policy, FailLevelAsked, Given

\* A check that prints its report and exits 0 has hidden no smell it was asked
\* for: what it leaves out at its fail level is excluded, accepted debt, or
\* takes types that the user gave up or a warning says are missing, whatever
\* the loader returned (Run in run.go, runCheckCommand).  What a conservative
\* check reports with types only counts among the last.
THEOREM PassingHidesNothing == Spec => []PassHidesNothing
<1>1. CommandInv => PassHidesNothing
  <2> SUFFICES ASSUME CommandInv, pc = "done", exit = 0, stdout.kind = "report", call.fail,
                      NEW smell \in world.smells, Asked(smell), Failing(smell),
                      smell.file \notin policy.excludes,
                      ~ (call.baseline # NoFile /\ smell \in documents[call.baseline].accepted)
               PROVE  /\ NeedsTypes(smell)
                      /\ call.mode = "syntax" \/ stderr \cap {smell.package, WholeRun} # {}
    BY DEF PassHidesNothing
  <2>1. /\ ReportedAll /\ world \in Worlds
        /\ ~ HasSeverityAtLeast(issues, policy.failLevel)
    BY DEF CommandInv, ReportedAll
  <2>2. smell \notin issues
    <3>1. policy.failLevel = FailLevelAsked
      BY <2>1, LevelAsked DEF ReportedAll, Loaded
    <3> QED BY <2>1, <3>1 DEF HasSeverityAtLeast, Failing
  <2>3. smell \notin Debt
    BY DEF Debt, Baseline
  <2>4. ~ Found(smell)
    BY <2>1, <2>2, <2>3 DEF ReportedAll, Detected
  <2> QED BY <2>1, <2>4, AskedIsDetected DEF ReportedAll, Told
<1> QED BY <1>1, CommandInvariance, PTL

\* With a report, the exit code is 1 exactly when a finding in it is at the fail
\* level; without one, a 1 is due to rejected debt or to a diff.
THEOREM ExitCodesTell == Spec => []ExitTellsTheReport
<1>1. CommandInv => ExitTellsTheReport
  <2> SUFFICES ASSUME CommandInv, pc = "done", world.pipe = "open"
               PROVE  /\ stdout.kind = "report" =>
                           (exit = 1 <=> call.fail /\ \E i \in stdout.issues : Failing(i))
                      /\ exit = 1 /\ stdout.kind # "report" =>
                           \/ stdout.kind = "diff" /\ stdout.issues # {}
                           \/ call.command = "check" /\ call.baseline # NoFile /\ RejectedDebt
    BY DEF ExitTellsTheReport, RejectedDebt
  <2>1. ASSUME stdout.kind = "report"
        PROVE  exit = 1 <=> call.fail /\ \E i \in stdout.issues : Failing(i)
    <3>1. ReportedAll /\ ~ WriteFailed
      BY <2>1 DEF CommandInv, WriteFailed
    <3>2. policy.failLevel = FailLevelAsked
      BY <3>1, LevelAsked DEF ReportedAll, Loaded
    <3> QED BY <3>1, <3>2 DEF ReportedAll, HasSeverityAtLeast, Failing
  <2> QED BY <2>1 DEF CommandInv, FailedUnreported
<1> QED BY <1>1, CommandInvariance, PTL

\* In types mode nothing is analysed without its types, and auto mode loads
\* whatever syntax mode loads, for every loader (workspace.go:26-28).
THEOREM ModesPromise == Spec => []ModesKeepTheirPromise
<1>1. CommandInv => ModesKeepTheirPromise
  <2> SUFFICES ASSUME CommandInv, loaded # Nothing
               PROVE  ModesKeepTheirPromise
    BY DEF ModesKeepTheirPromise
  <2>1. loaded = LoadWorkspace(world.loader, call.targets, call.tests, call.mode, policy.checks)
    BY DEF CommandInv, Loaded
  <2> QED BY <2>1, ModesOfLoad DEF ModesKeepTheirPromise
<1> QED BY <1>1, CommandInvariance, PTL

\* The policy in force was resolved from the file the targets led to, which was
\* neither ambiguous nor refused.
ScopeInv ==
  /\ world \in Worlds /\ call \in Calls
  /\ policy # Nothing =>
       policy = Policy(call, ConfigDocument, ConfigPath) /\ ~ ConfigRefused

\* Without -config all targets run under the policy of one file, the nearest
\* above each of them, or under none if no file is above any, for any tree of
\* directories and files (FindConfigForTargets, control.go:94).
THEOREM OneScope == Spec => []OneScopeForAllTargets
<1>1. Init => ScopeInv
  BY DEF Init, ScopeInv
<1>2. ScopeInv /\ [Next]_vars => ScopeInv'
  <2> SUFFICES ASSUME ScopeInv, [Next]_vars PROVE ScopeInv'
    OBVIOUS
  <2>1. UNCHANGED <<world, call>>
    BY DEF Next, vars, inputs, Stop, RefuseArguments, ShowVersion, ValidateConfig, ExplainCheck,
           RefusePolicy, ResolvePolicy, PrintConfig, Load, RefuseSources, Analyse, WriteBaseline,
           RefuseBaseline, RejectBaseline, Accept, Report, Stats, MaintainBaseline, Ended
  <2>2. ResolvePolicy \/ policy' = policy
    BY DEF Next, vars, results, Stop, RefuseArguments, ShowVersion, ValidateConfig, ExplainCheck,
           RefusePolicy, PrintConfig, Load, RefuseSources, Analyse, WriteBaseline,
           RefuseBaseline, RejectBaseline, Accept, Report, Stats, MaintainBaseline, Ended
  <2>3. ConfigPath' = ConfigPath /\ ConfigDocument' = ConfigDocument
    BY <2>1 DEF ConfigPath, ConfigDocument
  <2>4. ConfigRefused' = ConfigRefused
    BY <2>1, <2>3 DEF ConfigRefused
  <2>5. CASE ResolvePolicy
    BY <2>1, <2>3, <2>4, <2>5 DEF ResolvePolicy, ScopeInv
  <2>6. CASE policy' = policy
    BY <2>1, <2>3, <2>4, <2>6 DEF ScopeInv
  <2> QED BY <2>2, <2>5, <2>6
<1>3. ScopeInv => OneScopeForAllTargets
  <2> SUFFICES ASSUME ScopeInv, policy # Nothing, call.config = NoFile,
                      NEW target \in call.targets
               PROVE  LET above == {path \in DOMAIN world.tree :
                                      /\ path[1] \in Above(ConfigSearchStart(target))
                                      /\ path[2] \in ConfigFileNames}
                      IN IF policy.configFile = NoFile THEN above = {}
                         ELSE /\ policy.configFile \in above
                              /\ \A path \in above \ {policy.configFile} :
                                   policy.configFile[1] \in Below(path[1]) \ {path[1]}
    BY DEF OneScopeForAllTargets
  <2>1. policy.configFile = FindConfigForTargets(world.tree, call.targets)
    BY DEF ScopeInv, Policy, ConfigPath
  <2>2. NoFile \notin DOMAIN world.tree /\ Ambiguous \notin DOMAIN world.tree
    BY WorldsAssumption DEF ScopeInv
  <2>3. policy.configFile # Ambiguous
    BY <2>1, <2>2, DirsAssumption DEF ScopeInv, ConfigRefused, ConfigPath, Loads
  <2>4. policy.configFile = FindConfig(world.tree, ConfigSearchStart(target))
    BY <2>1, <2>3 DEF FindConfigForTargets
  <2>5. ConfigSearchStart(target) \in Dirs
    BY CallsAssumption DEF ScopeInv
  <2> QED BY <2>2, <2>3, <2>4, <2>5, FoundAbove
<1> QED BY <1>1, <1>2, <1>3, PTL DEF Spec

=============================================================================
