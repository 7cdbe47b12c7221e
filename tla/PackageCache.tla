---------------------------- MODULE PackageCache ----------------------------
(***************************************************************************)
(* The findings cache (src/internal/analyzer/cache.go, cache_key.go) as    *)
(* several solidlint processes use it while somebody edits the sources:    *)
(* the goroutines of a run read entries, hash packages, analyse and store, *)
(* each of these a step of its own, over one cache directory.              *)
(*                                                                         *)
(* Data is abstracted to what decides a lookup and what the checks see.    *)
(* The files of a package are one content; a content determines the        *)
(* declarations its importers see, as ObjectString prints them, and        *)
(* whether it loads and type-checks.  Printed declarations name the types  *)
(* of other packages without showing them (type Client = d.Client), while  *)
(* the checks follow such a name to the type.  The findings of a job are   *)
(* the inputs they were computed from, so that equal findings mean equal   *)
(* inputs; sha256 and the JSON encoding are injective.  An entry nobody    *)
(* can decode is Torn.                                                     *)
(***************************************************************************)
EXTENDS Naturals, FiniteSets

CONSTANTS
  Runs,           \* solidlint processes
  Workers,        \* pool goroutines of each run
  Checkouts,      \* working trees of the module
  Packages,       \* package paths every run loads
  Imports,        \* [Packages -> SUBSET Packages], direct imports
  Groups,         \* package-scoped runner groups
  ProgramGroups,  \* program-scoped runner groups
  Policies,       \* values of cacheKeyMaterial.digest()
  Contents,       \* what the files of a package may hold
  API,            \* [Contents -> ...], the declarations, as printed
  Exposing,       \* printed declarations that name types of the imports
  IllTyped,       \* contents with a type error that leaves the API as it is
  Unresolved,     \* contents with an import that no typed load can resolve
  InitialTrees,   \* sources the checkouts may start with
  FileKey,        \* [Packages -> ...], pkgPath with "/" and "\" replaced
  EditsDuringRuns,\* sources may change while a run works on them
  MaxEdits,       \* bound on edits
  MaxPowerLosses, \* bound on power losses
  StoresMayFail   \* a write to the cache directory may fail

CONSTANTS Program, NoEntry, Torn, NoDigest, NoJob, NoReport  \* model values

ASSUME ImportsAssumption == Imports \in [Packages -> SUBSET Packages]
ASSUME ContentsAssumption ==
  /\ IllTyped \subseteq Contents /\ Unresolved \subseteq Contents
  /\ DOMAIN API = Contents
  /\ InitialTrees \subseteq [Packages -> Contents]
ASSUME SwitchesAssumption ==
  /\ EditsDuringRuns \in BOOLEAN /\ StoresMayFail \in BOOLEAN
  /\ MaxEdits \in Nat /\ MaxPowerLosses \in Nat
ASSUME ProgramAssumption == Program \notin Packages /\ Program \notin Groups

(***************************************************************************)
(* Jobs and the files that hold their entries.                             *)
(***************************************************************************)
PackageJobs == [unit : Packages, group : Groups]
ProgramJobs == [unit : {Program}, group : ProgramGroups]
Jobs == PackageJobs \cup ProgramJobs

(* The packages a job analyses and its key covers.                         *)
Covers(j) == IF j.unit = Program THEN Packages ELSE {j.unit}

EntryPathOfAnyPolicy(pol, j) ==  \* fault: c.config is left out of the path
  IF j.unit = Program THEN <<Program, j.group>> ELSE <<j.group, FileKey[j.unit]>>

(* entryPath and programEntryPath, below the cache root.                   *)
EntryPath(pol, j) == IF j.unit = Program THEN <<pol, Program, j.group>>
                                         ELSE <<pol, j.group, FileKey[j.unit]>>
Paths == {EntryPath(pol, j) : pol \in Policies, j \in Jobs}

(***************************************************************************)
(* What a load of the sources says about a package.  In the default mode,  *)
(* auto, a list error in any package makes loadWorkspace start over        *)
(* without types; a type error leaves the package and those that import it *)
(* incomplete.  A load without types has no imports either.                *)
(***************************************************************************)
Trees == [Packages -> Contents]
Load(t) == [tree |-> t, typed |-> \A p \in Packages : t[p] \notin Unresolved]
AllLoads == {Load(t) : t \in Trees}

ImportedAPIs(l, p) ==
  [q \in (IF l.typed THEN Imports[p] ELSE {}) |-> API[l.tree[q]]]

Reaches(p) == {q \in Packages :
                 \A S \in SUBSET Packages :
                   p \in S /\ (\A s \in S : Imports[s] \subseteq S) => q \in S}
TypeComplete(l, p) ==
  l.typed /\ \A q \in Reaches(p) : l.tree[q] \notin IllTyped

(* The packages whose types the checks of p may come to: its imports, and  *)
(* the imports of every package among them that names their types.         *)
Sees(l, p) == {q \in Packages :
                 \A S \in SUBSET Packages :
                   /\ Imports[p] \subseteq S
                   /\ \A s \in S : API[l.tree[s]] \in Exposing => Imports[s] \subseteq S
                   => q \in S}
Behind(l, p) ==
  [q \in (IF l.typed THEN Sees(l, p) \ Imports[p] ELSE {}) |-> API[l.tree[q]]]

(* The inputs that determine what the checks report on package p.          *)
View(c, l, p) ==
  [checkout |-> c, src |-> l.tree[p], apis |-> ImportedAPIs(l, p),
   behind |-> Behind(l, p), complete |-> TypeComplete(l, p)]
Findings(c, pol, l, j) ==
  [job |-> j, policy |-> pol, views |-> [p \in Covers(j) |-> View(c, l, p)]]

DigestOfOwnFiles(p, onDisk, l) ==  \* fault: dependencyAPIDigest is left out
  [pkg |-> p, src |-> onDisk[p], apis |-> [q \in {} |-> q]]

(* packageHash: the files are read when the hash is computed, the imported *)
(* APIs come from the type information loaded before.                      *)
Digest(p, onDisk, l) ==
  [pkg |-> p, src |-> onDisk[p], apis |-> ImportedAPIs(l, p)]

(***************************************************************************)
(* The values all of these range over, and the ones that mean none.        *)
(***************************************************************************)
Digests == [pkg : Packages, src : Contents,
            apis : UNION {[D -> {API[c] : c \in Contents}] :
                          D \in {{}} \cup {Imports[p] : p \in Packages}}]
AllFindings ==
  {Findings(c, pol, l, j) :
     c \in Checkouts, pol \in Policies, l \in AllLoads, j \in Jobs}
Entries == [key : SUBSET Digests, findings : AllFindings]
Reports == [findings : AllFindings, hit : BOOLEAN]
ASSUME SpecialsAssumption ==
  /\ NoJob \notin Jobs /\ NoDigest \notin Digests /\ NoReport \notin Reports
  /\ NoEntry \notin Entries /\ Torn \notin Entries

VARIABLES
  source,     \* the files of each checkout
  disk,       \* the entries of the cache directory
  phase,      \* of each run
  checkout,   \* the working tree a run analyses
  policy,     \* its policy digest
  loaded,     \* the sources it loaded, and whether with type information
  before,     \* history: runs that had finished when it started
  pending,    \* its jobs not taken by a goroutine yet
  hashes,     \* its memo of package hashes
  reported,   \* what it gathered for each job, and whether that was a hit
  pc, job, entry, digest,   \* of each goroutine
  edits, powerLosses        \* how often these happened

runVars == <<phase, checkout, policy, loaded, before>>
envVars == <<source, edits, powerLosses>>
vars == <<source, disk, phase, checkout, policy, loaded, before, pending,
          hashes, reported, pc, job, entry, digest, edits, powerLosses>>

Goroutines == Runs \X Workers
Run(g) == g[1]
NoHashes == [p \in Packages |-> NoDigest]

Init ==
  /\ \E t \in InitialTrees : source = [c \in Checkouts |-> t]
  /\ disk = [f \in Paths |-> NoEntry]
  /\ phase = [r \in Runs |-> "idle"]
  /\ checkout \in [Runs -> Checkouts]
  /\ policy \in [Runs -> Policies]
  /\ loaded = [r \in Runs |-> Load(source[checkout[r]])]
  /\ before = [r \in Runs |-> {}]
  /\ pending = [r \in Runs |-> {}]
  /\ hashes = [r \in Runs |-> NoHashes]
  /\ reported = [r \in Runs |-> [j \in Jobs |-> NoReport]]
  /\ pc = [g \in Goroutines |-> "idle"]
  /\ job = [g \in Goroutines |-> NoJob]
  /\ entry = [g \in Goroutines |-> NoEntry]
  /\ digest = [g \in Goroutines |-> NoDigest]
  /\ edits = 0
  /\ powerLosses = 0

-----------------------------------------------------------------------------
Path(g) == EntryPath(policy[Run(g)], job[g])

(* packageHash and programHash, once every package they cover has a memo.  *)
Hashed(g) == /\ digest[g] = NoDigest
             /\ \A p \in Covers(job[g]) : hashes[Run(g)][p] # NoDigest
Key(g) == {hashes[Run(g)][p] : p \in Covers(job[g])}

Report(g, findings, hit) ==
  /\ reported' = [reported EXCEPT ![Run(g)][job[g]] =
                    [findings |-> findings, hit |-> hit]]
  /\ pc' = [pc EXCEPT ![g] = "idle"]
  /\ job' = [job EXCEPT ![g] = NoJob]
  /\ entry' = [entry EXCEPT ![g] = NoEntry]

(* The checks run on what was loaded, which no longer changes.             *)
Fresh(g) ==
  Findings(checkout[Run(g)], policy[Run(g)], loaded[Run(g)], job[g])

-----------------------------------------------------------------------------
(***************************************************************************)
(* Faults.  No action uses them: each is a definition below with a bug     *)
(* that a change to cache.go could introduce, and shows that some property *)
(* would notice.  (Two more stand before Digest and EntryPath.)            *)
(***************************************************************************)
StoredBeforeHashed(g) ==         \* the hash is not waited for
  /\ pc[g] = "store"
  /\ disk' = [disk EXCEPT ![Path(g)] =
                [key |-> Key(g), findings |-> Fresh(g)]]
  /\ Report(g, Fresh(g), FALSE)
  /\ UNCHANGED <<runVars, pending, hashes, digest, envVars>>

NeverStored(g) ==                \* every write fails, and nobody is told
  /\ pc[g] = "store"
  /\ Hashed(g)
  /\ Report(g, Fresh(g), FALSE)
  /\ UNCHANGED <<runVars, disk, pending, hashes, digest, envVars>>

-----------------------------------------------------------------------------
(* A process starts: it loads the workspace and begins with an empty memo. *)
(* go/packages (external) is taken to read one consistent tree.            *)
StartRun(r) ==
  /\ phase[r] = "idle"
  /\ phase' = [phase EXCEPT ![r] = "running"]
  /\ loaded' = [loaded EXCEPT ![r] = Load(source[checkout[r]])]
  /\ before' = [before EXCEPT ![r] = {q \in Runs : phase[q] = "finished"}]
  /\ pending' = [pending EXCEPT ![r] = Jobs]
  /\ UNCHANGED <<disk, checkout, policy, hashes, reported, pc, job, entry,
                 digest, envVars>>

(* A free goroutine takes a job.  The program groups wait for the package  *)
(* jobs and run one at a time, as CheckPool has it.                        *)
Take(g, j) ==
  /\ phase[Run(g)] = "running"
  /\ pc[g] = "idle"
  /\ j \in pending[Run(g)]
  /\ j \in ProgramJobs =>
       /\ pending[Run(g)] \cap PackageJobs = {}
       /\ \A w \in Workers : pc[<<Run(g), w>>] = "idle"
  /\ pending' = [pending EXCEPT ![Run(g)] = @ \ {j}]
  /\ job' = [job EXCEPT ![g] = j]
  /\ pc' = [pc EXCEPT ![g] = "load"]
  /\ UNCHANGED <<disk, runVars, hashes, reported, entry, digest, envVars>>

(* load and loadProgram read the file first.  When there is none, or it    *)
(* does not decode, they miss before any hash is computed.                 *)
ReadEntry(g) ==
  /\ pc[g] = "load"
  /\ entry' = [entry EXCEPT ![g] = disk[Path(g)]]
  /\ pc' = [pc EXCEPT ![g] = IF disk[Path(g)] \in {NoEntry, Torn}
                               THEN "store" ELSE "validate"]
  /\ UNCHANGED <<disk, runVars, pending, hashes, reported, job, digest,
                 envVars>>

(* packageHash of a package without a memo: the sources are read now.      *)
HashSources(g) ==
  /\ pc[g] \in {"validate", "store"}
  /\ digest[g] = NoDigest
  /\ \E p \in Covers(job[g]) :
       /\ hashes[Run(g)][p] = NoDigest
       /\ digest' = [digest EXCEPT ![g] =
                       Digest(p, source[checkout[Run(g)]], loaded[Run(g)])]
  /\ UNCHANGED <<disk, runVars, pending, hashes, reported, pc, job, entry,
                 envVars>>

(* hashes.LoadOrStore: another goroutine of the run may have been faster.  *)
MemoHash(g) ==
  /\ digest[g] # NoDigest
  /\ hashes' = [hashes EXCEPT ![Run(g)][digest[g].pkg] =
                  IF @ = NoDigest THEN digest[g] ELSE @]
  /\ digest' = [digest EXCEPT ![g] = NoDigest]
  /\ UNCHANGED <<disk, runVars, pending, reported, pc, job, entry, envVars>>

(* The hash decides whether the entry read before is a hit.                *)
Hit(g) ==
  /\ pc[g] = "validate"
  /\ Hashed(g)
  /\ entry[g].key = Key(g)
  /\ Report(g, entry[g].findings, TRUE)
  /\ UNCHANGED <<disk, runVars, pending, hashes, digest, envVars>>

Stale(g) ==
  /\ pc[g] = "validate"
  /\ Hashed(g)
  /\ entry[g].key # Key(g)
  /\ pc' = [pc EXCEPT ![g] = "store"]
  /\ entry' = [entry EXCEPT ![g] = NoEntry]
  /\ UNCHANGED <<disk, runVars, pending, hashes, reported, job, digest,
                 envVars>>

(* The entry is written to a temporary file and renamed into place.        *)
Store(g) ==
  /\ pc[g] = "store"
  /\ Hashed(g)
  /\ disk' = [disk EXCEPT ![Path(g)] =
                [key |-> Key(g), findings |-> Fresh(g)]]
  /\ Report(g, Fresh(g), FALSE)
  /\ UNCHANGED <<runVars, pending, hashes, digest, envVars>>

(* writeFileAtomically gives up silently; the findings are still reported. *)
StoreFails(g) ==
  /\ StoresMayFail
  /\ pc[g] = "store"
  /\ Hashed(g)
  /\ Report(g, Fresh(g), FALSE)
  /\ UNCHANGED <<disk, runVars, pending, hashes, digest, envVars>>

FinishRun(r) ==
  /\ phase[r] = "running"
  /\ pending[r] = {}
  /\ \A w \in Workers : pc[<<r, w>>] = "idle"
  /\ phase' = [phase EXCEPT ![r] = "finished"]
  /\ hashes' = [hashes EXCEPT ![r] = NoHashes]
  /\ UNCHANGED <<disk, checkout, policy, loaded, before, pending, reported, pc,
                 job, entry, digest, envVars>>

-----------------------------------------------------------------------------
(* The environment.  Processes die where they are; only renamed entries    *)
(* survive them.                                                           *)
Die(dead) ==
  /\ phase' = [r \in Runs |-> IF r \in dead THEN "killed" ELSE phase[r]]
  /\ pending' = [r \in Runs |-> IF r \in dead THEN {} ELSE pending[r]]
  /\ hashes' = [r \in Runs |-> IF r \in dead THEN NoHashes ELSE hashes[r]]
  /\ pc' = [g \in Goroutines |-> IF Run(g) \in dead THEN "idle" ELSE pc[g]]
  /\ job' = [g \in Goroutines |-> IF Run(g) \in dead THEN NoJob ELSE job[g]]
  /\ entry' = [g \in Goroutines |->
                 IF Run(g) \in dead THEN NoEntry ELSE entry[g]]
  /\ digest' = [g \in Goroutines |->
                 IF Run(g) \in dead THEN NoDigest ELSE digest[g]]
  /\ reported' = [r \in Runs |->
                    IF r \in dead THEN [j \in Jobs |-> NoReport] ELSE reported[r]]
  /\ UNCHANGED <<checkout, policy, loaded, before, source, edits>>

Running == {r \in Runs : phase[r] = "running"}

Kill(r) ==
  /\ r \in Running
  /\ Die({r})
  /\ UNCHANGED <<disk, powerLosses>>

(* Entries are not synced before the rename: a power loss may leave names  *)
(* whose contents were never written.                                      *)
PowerLoss ==
  /\ powerLosses < MaxPowerLosses
  /\ powerLosses' = powerLosses + 1
  /\ Die(Running)
  /\ \E lost \in SUBSET {f \in Paths : disk[f] # NoEntry} :
       disk' = [f \in Paths |-> IF f \in lost THEN Torn ELSE disk[f]]

Edit(c, p, content) ==
  /\ edits < MaxEdits
  /\ EditsDuringRuns \/ \A r \in Running : checkout[r] # c
  /\ content # source[c][p]
  /\ source' = [source EXCEPT ![c][p] = content]
  /\ edits' = edits + 1
  /\ UNCHANGED <<disk, runVars, pending, hashes, reported, pc, job, entry,
                 digest, powerLosses>>

(* Every process is over.                                                  *)
AllOver == /\ \A r \in Runs : phase[r] \in {"finished", "killed"}
           /\ UNCHANGED vars

GoroutineStep(g) ==
  \/ \E j \in Jobs : Take(g, j)
  \/ ReadEntry(g) \/ HashSources(g) \/ MemoHash(g)
  \/ Hit(g) \/ Stale(g) \/ Store(g) \/ StoreFails(g)
Environment ==
  \/ \E r \in Runs : Kill(r)
  \/ PowerLoss
  \/ \E c \in Checkouts, p \in Packages, content \in Contents :
       Edit(c, p, content)

Next == \/ \E r \in Runs : StartRun(r) \/ FinishRun(r)
        \/ \E g \in Goroutines : GoroutineStep(g)
        \/ Environment
        \/ AllOver

Spec == Init /\ [][Next]_vars

-----------------------------------------------------------------------------
(* The values every variable ranges over.                                  *)
TypeOK ==
  /\ source \in [Checkouts -> Trees]
  /\ disk \in [Paths -> Entries \cup {NoEntry, Torn}]
  /\ phase \in [Runs -> {"idle", "running", "finished", "killed"}]
  /\ checkout \in [Runs -> Checkouts]
  /\ policy \in [Runs -> Policies]
  /\ loaded \in [Runs -> AllLoads]
  /\ before \in [Runs -> SUBSET Runs]
  /\ pending \in [Runs -> SUBSET Jobs]
  /\ hashes \in [Runs -> [Packages -> Digests \cup {NoDigest}]]
  /\ reported \in [Runs -> [Jobs -> Reports \cup {NoReport}]]
  /\ pc \in [Goroutines -> {"idle", "load", "validate", "store"}]
  /\ job \in [Goroutines -> Jobs \cup {NoJob}]
  /\ entry \in [Goroutines -> Entries \cup {NoEntry, Torn}]
  /\ digest \in [Goroutines -> Digests \cup {NoDigest}]
  /\ edits \in Nat /\ powerLosses \in Nat

Reported(r, j) == reported[r][j] # NoReport
Recomputed(r, j) == Findings(checkout[r], policy[r], loaded[r], j)

(* A cache may change how long a run takes and nothing else: for every job *)
(* a run reports what analysing its sources would have reported (the       *)
(* cold and warm parity of CONTRIBUTING.md:10).  The code keeps less.      *)
WarmEqualsCold ==
  \A r \in Runs, j \in Jobs :
    Reported(r, j) => reported[r][j].findings = Recomputed(r, j)

(* What the code keeps of it, whoever is killed, whatever is torn and      *)
(* however the goroutines of runs on one checkout interleave: a report     *)
(* differs from a recomputation only in what follows from packages that    *)
(* the analysed one does not import, by the types its imports name or by   *)
(* a type error there; and a program group, whose key covers every         *)
(* package, reports exactly what a recomputation would (cache.go:65-300).  *)
WarmDiffersOnlyBehind ==
  \A r \in Runs, j \in Jobs : Reported(r, j) =>
    LET warm == reported[r][j].findings
        cold == Recomputed(r, j)
    IN /\ j \in ProgramJobs => warm = cold
       /\ warm.job = j /\ warm.policy = cold.policy
       /\ \A p \in Covers(j) :
            LET v == warm.views[p]
                w == cold.views[p]
            IN v.checkout = w.checkout /\ v.src = w.src /\ v.apis = w.apis

(* Whatever happens to the sources and to the cache directory, a hit never *)
(* brings the findings of another package, group or policy, nor findings   *)
(* computed against other declarations of the imported packages.           *)
HitsAreForThisJob ==
  \A r \in Runs, j \in Jobs :
    Reported(r, j) /\ reported[r][j].hit =>
      LET f == reported[r][j].findings IN
        /\ f.job = j
        /\ f.policy = policy[r]
        /\ \A p \in Covers(j) : f.views[p].apis = ImportedAPIs(loaded[r], p)

(* One run knows one hash for a package: when its goroutines race to hash  *)
(* a package whose files are being edited, all of them end up with the     *)
(* first result, so that the entries of its groups stay together           *)
(* (cache.go:209-232).                                                     *)
PackageHashedOnce ==
  [][\A r \in Runs, p \in Packages :
       hashes[r][p] # NoDigest =>
         hashes'[r][p] \in {hashes[r][p], NoDigest} /\
         (hashes'[r][p] = NoDigest => phase'[r] # "running")]_vars

(* The cache is worth its cost: when a run finished and nothing changed,   *)
(* was lost or written by others, the next one of its policy analyses      *)
(* nothing (cache.go:115-139 stores what cache.go:65-101 looks up).        *)
WarmRunHits ==
  \A r \in Runs : \A q \in before[r] :
    (/\ powerLosses = 0 /\ ~StoresMayFail
     /\ policy[q] = policy[r] /\ loaded[q] = loaded[r]
     /\ \A o \in Runs \ {q, r} : phase[o] = "idle" \/ loaded[o] = loaded[r])
    => \A j \in Jobs : Reported(r, j) => reported[r][j].hit
=============================================================================
