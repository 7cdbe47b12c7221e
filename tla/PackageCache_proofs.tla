------------------------- MODULE PackageCache_proofs ------------------------
EXTENDS PackageCache, TLAPS

(* The circumstances in which a warm run reports what a cold one would,    *)
(* but for what comes from behind the imports.                             *)
Quiet == EditsDuringRuns = FALSE
Stable == /\ Quiet
          /\ \A c, d \in Checkouts : c = d

(* And those in which nothing comes from there: no content is in error,    *)
(* and a package imports every package whose types it may come to.         *)
NothingBehind ==
  /\ IllTyped = {} /\ Unresolved = {}
  /\ \A l \in AllLoads, p \in Packages : Sees(l, p) \subseteq Imports[p]

-----------------------------------------------------------------------------
(***************************************************************************)
(* Jobs, findings and digests.                                             *)
(***************************************************************************)
LEMMA JobFacts ==
  ASSUME NEW j \in Jobs
  PROVE  /\ Covers(j) \subseteq Packages
         /\ j.unit = Program => /\ Covers(j) = Packages
                                /\ j.group \in ProgramGroups
                                /\ j = [unit |-> Program, group |-> j.group]
         /\ j.unit # Program => /\ j.unit \in Packages
                                /\ Covers(j) = {j.unit}
                                /\ j.group \in Groups
                                /\ j = [unit |-> j.unit, group |-> j.group]
  BY ProgramAssumption DEF Jobs, PackageJobs, ProgramJobs, Covers

LEMMA FindingsFacts ==
  \A c \in Checkouts, pol \in Policies, l \in AllLoads, j \in Jobs :
    /\ Findings(c, pol, l, j) \in AllFindings
    /\ Findings(c, pol, l, j).job = j
    /\ Findings(c, pol, l, j).policy = pol
    /\ \A p \in Covers(j) : Findings(c, pol, l, j).views[p] = View(c, l, p)
  BY DEF Findings, AllFindings

LEMMA LoadFacts ==
  /\ \A t \in Trees : Load(t) \in AllLoads /\ Load(t).tree = t
  /\ \A l \in AllLoads : l.tree \in Trees /\ l = Load(l.tree)
<1>1. \A t : Load(t).tree = t
  BY DEF Load
<1>2. ASSUME NEW l \in AllLoads PROVE l.tree \in Trees /\ l = Load(l.tree)
  <2>1. PICK t \in Trees : l = Load(t)
    BY DEF AllLoads
  <2>2. l.tree = t
    BY <1>1, <2>1
  <2> QED
    BY <2>1, <2>2
<1> QED
  BY <1>1, <1>2 DEF AllLoads

LEMMA ViewFacts ==
  \A c, l, p :
    /\ View(c, l, p).checkout = c
    /\ View(c, l, p).src = l.tree[p]
    /\ View(c, l, p).apis = ImportedAPIs(l, p)
    /\ View(c, l, p).behind = Behind(l, p)
    /\ View(c, l, p).complete = TypeComplete(l, p)
  BY DEF View

LEMMA DigestFacts ==
  ASSUME NEW onDisk \in Trees, NEW l \in AllLoads, NEW p \in Packages
  PROVE  /\ Digest(p, onDisk, l) \in Digests
         /\ Digest(p, onDisk, l).pkg = p
         /\ Digest(p, onDisk, l).src = onDisk[p]
         /\ Digest(p, onDisk, l).apis = ImportedAPIs(l, p)
<1> DEFINE D == IF l.typed THEN Imports[p] ELSE {}
           Declared == {API[c] : c \in Contents}
<1>1. D \subseteq Packages
  BY ImportsAssumption
<1>2. \A q \in D : API[l.tree[q]] \in Declared
  BY <1>1, LoadFacts DEF Trees
<1>3. ImportedAPIs(l, p) \in [D -> Declared]
  BY <1>2 DEF ImportedAPIs
<1>4. D \in {{}} \cup {Imports[q] : q \in Packages}
  OBVIOUS
<1>5. ImportedAPIs(l, p) \in
        UNION {[E -> Declared] : E \in {{}} \cup {Imports[q] : q \in Packages}}
  BY <1>3, <1>4
<1>6. onDisk[p] \in Contents
  BY DEF Trees
<1> QED
  BY <1>5, <1>6 DEF Digest, Digests

-----------------------------------------------------------------------------
(***************************************************************************)
(* The inductive invariant: every hash and every entry is about what it    *)
(* says it is about.                                                       *)
(***************************************************************************)
IsHash(d, r, p) ==
  /\ d \in Digests
  /\ d.pkg = p
  /\ d.apis = ImportedAPIs(loaded[r], p)
  /\ Quiet => d.src = loaded[r].tree[p]

Describes(d, p, view) ==    \* the digest of p covers what its findings show
  /\ d.pkg = p
  /\ d.apis = view.apis
  /\ Quiet => d.src = view.src

IsEntry(f, e) ==
  /\ e \in Entries
  /\ e.findings.job \in Jobs
  /\ f = EntryPath(e.findings.policy, e.findings.job)
  /\ \A p \in Covers(e.findings.job) :
       \E d \in e.key : Describes(d, p, e.findings.views[p])

(* What WarmDiffersOnlyBehind says of one report.                          *)
DiffersOnlyBehind(warm, cold, j) ==
  /\ j \in ProgramJobs => warm = cold
  /\ warm.job = j /\ warm.policy = cold.policy
  /\ \A p \in Covers(j) : /\ warm.views[p].checkout = cold.views[p].checkout
                          /\ warm.views[p].src = cold.views[p].src
                          /\ warm.views[p].apis = cold.views[p].apis

IsReport(r, j, rep) ==
  /\ rep \in Reports
  /\ Stable => DiffersOnlyBehind(rep.findings, Recomputed(r, j), j)
  /\ rep.hit => /\ rep.findings.job = j
                /\ rep.findings.policy = policy[r]
                /\ \A p \in Covers(j) :
                     rep.findings.views[p].apis = ImportedAPIs(loaded[r], p)

LoadInv == \A r \in Runs :
  /\ Quiet /\ phase[r] = "running" => loaded[r].tree = source[checkout[r]]
MemoInv == \A r \in Runs, p \in Packages :
  hashes[r][p] # NoDigest =>
    phase[r] = "running" /\ IsHash(hashes[r][p], r, p)
DigestInv == \A g \in Goroutines :
  digest[g] # NoDigest =>
    pc[g] # "idle" /\ IsHash(digest[g], Run(g), digest[g].pkg)
JobInv == \A g \in Goroutines :
  pc[g] # "idle" => job[g] \in Jobs /\ phase[Run(g)] = "running"
EntryInv == \A g \in Goroutines :
  pc[g] = "validate" => IsEntry(Path(g), entry[g])
DiskInv == \A f \in Paths :
  disk[f] \in {NoEntry, Torn} \/ IsEntry(f, disk[f])
ReportInv == \A r \in Runs, j \in Jobs :
  Reported(r, j) => phase[r] # "idle" /\ IsReport(r, j, reported[r][j])

CacheInv == /\ TypeOK /\ LoadInv /\ MemoInv /\ DigestInv /\ JobInv
            /\ EntryInv /\ DiskInv /\ ReportInv

-----------------------------------------------------------------------------
(* A hit: equal keys under one path are the same job on the same inputs.   *)
LEMMA EqualPaths ==
  ASSUME NEW pol \in Policies, NEW qol \in Policies,
         NEW j \in Jobs, NEW k \in Jobs,
         EntryPath(pol, j) = EntryPath(qol, k)
  PROVE  /\ pol = qol
         /\ (j.unit = Program) <=> (k.unit = Program)
         /\ j.group = k.group
<1>1. CASE j.unit = Program /\ k.unit = Program
  BY <1>1 DEF EntryPath
<1>2. CASE j.unit # Program /\ k.unit # Program
  BY <1>2 DEF EntryPath
<1>3. CASE j.unit = Program /\ k.unit # Program
  <2>1. <<pol, Program, j.group>> = <<qol, k.group, FileKey[k.unit]>>
    BY <1>3 DEF EntryPath
  <2> QED
    BY <2>1, <1>3, JobFacts, ProgramAssumption
<1>4. CASE j.unit # Program /\ k.unit = Program
  <2>1. <<pol, j.group, FileKey[j.unit]>> = <<qol, Program, k.group>>
    BY <1>4 DEF EntryPath
  <2> QED
    BY <2>1, <1>4, JobFacts, ProgramAssumption
<1> QED
  BY <1>1, <1>2, <1>3, <1>4

LEMMA KeyFacts ==
  ASSUME CacheInv, NEW g \in Goroutines, job[g] \in Jobs, Hashed(g)
  PROVE  /\ Key(g) \in SUBSET Digests
         /\ \A p \in Covers(job[g]) : IsHash(hashes[Run(g)][p], Run(g), p)
         /\ \A d \in Key(g) : d.pkg \in Covers(job[g])
         /\ \A d \in Key(g) : d = hashes[Run(g)][d.pkg]
<1>1. Run(g) \in Runs
  BY DEF Goroutines, Run
<1>2. \A p \in Covers(job[g]) : IsHash(hashes[Run(g)][p], Run(g), p)
  BY <1>1, JobFacts DEF CacheInv, MemoInv, Hashed
<1> QED
  BY <1>2 DEF Key, IsHash

LEMMA HitFacts ==
  ASSUME CacheInv, NEW g \in Goroutines, job[g] \in Jobs, Hashed(g),
         NEW e, IsEntry(Path(g), e), e.key = Key(g)
  PROVE  IsReport(Run(g), job[g], [findings |-> e.findings, hit |-> TRUE])
<1> DEFINE r == Run(g)
           j == job[g]
<1>1. /\ r \in Runs /\ policy[r] \in Policies /\ checkout[r] \in Checkouts
      /\ loaded[r] \in AllLoads
  BY DEF Goroutines, Run, CacheInv, TypeOK
<1>2. e.findings \in AllFindings
  BY DEF IsEntry, Entries
<1>3. PICK c \in Checkouts, pol \in Policies, l \in AllLoads, k \in Jobs :
        e.findings = Findings(c, pol, l, k)
  BY <1>2 DEF AllFindings
<1>4. /\ e.findings.job = k
      /\ e.findings.policy = pol
      /\ \A p \in Covers(k) : e.findings.views[p] = View(c, l, p)
  <2>1. /\ Findings(c, pol, l, k).job = k
        /\ Findings(c, pol, l, k).policy = pol
        /\ \A p \in Covers(k) : Findings(c, pol, l, k).views[p] = View(c, l, p)
    BY FindingsFacts
  <2> QED
    BY <2>1, <1>3
<1>5. \A p \in Covers(k) :
        \E d \in Key(g) : Describes(d, p, e.findings.views[p])
  BY <1>4 DEF IsEntry
<1>6. pol = policy[r] /\ (k.unit = Program <=> j.unit = Program)
        /\ k.group = j.group
  BY <1>1, <1>4, EqualPaths DEF IsEntry, Path
<1>7. k = j
  <2>1. CASE j.unit = Program
    BY <2>1, <1>6, JobFacts
  <2>2. CASE j.unit # Program
    <3>1. Covers(k) = {k.unit} /\ Covers(j) = {j.unit}
      BY <2>2, <1>6, JobFacts
    <3>2. k.unit \in Covers(j)
      <4>1. PICK d \in Key(g) : Describes(d, k.unit, e.findings.views[k.unit])
        BY <3>1, <1>5
      <4> QED
        BY <4>1, KeyFacts DEF Describes
    <3> QED
      BY <2>2, <3>1, <3>2, <1>6, JobFacts
  <2> QED
    BY <2>1, <2>2
<1>8. ASSUME NEW p \in Covers(j)
      PROVE  /\ e.findings.views[p].apis = ImportedAPIs(loaded[r], p)
             /\ Quiet => l.tree[p] = loaded[r].tree[p]
  <2>1. PICK d \in Key(g) : Describes(d, p, e.findings.views[p])
    BY <1>5, <1>7
  <2>2. IsHash(d, r, p)
    <3>1. d = hashes[r][d.pkg]
      BY KeyFacts
    <3>2. IsHash(hashes[r][p], r, p)
      BY KeyFacts
    <3> QED
      BY <2>1, <3>1, <3>2 DEF Describes
  <2>3. e.findings.views[p] = View(c, l, p)
    BY <1>4, <1>7
  <2>4. e.findings.views[p].src = l.tree[p]
    BY <2>3, ViewFacts
  <2> QED
    BY <2>1, <2>2, <2>4 DEF IsHash, Describes
<1>9. ASSUME Stable PROVE DiffersOnlyBehind(e.findings, Recomputed(r, j), j)
  <2> DEFINE cold == Recomputed(r, j)
  <2>1. cold.job = j /\ cold.policy = policy[r]
          /\ \A p \in Covers(j) : cold.views[p] = View(checkout[r], loaded[r], p)
    BY <1>1, FindingsFacts DEF Recomputed
  <2>2. c = checkout[r] /\ Quiet
    BY <1>1, <1>9 DEF Stable
  <2>3. ASSUME NEW p \in Covers(j)
        PROVE  /\ e.findings.views[p].checkout = cold.views[p].checkout
               /\ e.findings.views[p].src = cold.views[p].src
               /\ e.findings.views[p].apis = cold.views[p].apis
    <3>1. e.findings.views[p] = View(c, l, p)
      BY <1>4, <1>7
    <3>2. cold.views[p] = View(checkout[r], loaded[r], p)
      BY <2>1
    <3>3. l.tree[p] = loaded[r].tree[p]
      BY <1>8, <2>2
    <3>4. e.findings.views[p].apis = ImportedAPIs(loaded[r], p)
      BY <1>8
    <3> HIDE DEF cold
    <3>5. cold.views[p].checkout = checkout[r] /\ cold.views[p].src = loaded[r].tree[p]
            /\ cold.views[p].apis = ImportedAPIs(loaded[r], p)
      BY <3>2, ViewFacts
    <3>6. e.findings.views[p].checkout = c /\ e.findings.views[p].src = l.tree[p]
      BY <3>1, ViewFacts
    <3> QED
      BY <2>2, <3>3, <3>4, <3>5, <3>6
  <2>4. ASSUME j \in ProgramJobs PROVE e.findings = cold
    <3>1. Covers(j) = Packages
      BY <2>4 DEF ProgramJobs, Covers
    <3>2. l.tree \in Trees /\ loaded[r].tree \in Trees
      BY <1>1, LoadFacts
    <3>3. l.tree = loaded[r].tree
      BY <1>8, <2>2, <3>1, <3>2 DEF Trees
    <3>4. l = loaded[r]
      BY <1>1, <3>3, LoadFacts
    <3> QED
      BY <1>3, <1>6, <1>7, <2>2, <3>4 DEF Recomputed
  <2> HIDE DEF cold
  <2>5. e.findings.job = j /\ e.findings.policy = cold.policy
    BY <1>4, <1>6, <1>7, <2>1
  <2>6. DiffersOnlyBehind(e.findings, cold, j)
    BY <2>3, <2>4, <2>5 DEF DiffersOnlyBehind
  <2> QED
    BY <2>6 DEF cold
<1> QED
  BY <1>2, <1>4, <1>6, <1>7, <1>8, <1>9 DEF IsReport, Reports

(* A store: the key and the findings of one job.                           *)
LEMMA FreshFacts ==
  ASSUME CacheInv, NEW g \in Goroutines, job[g] \in Jobs, Hashed(g)
  PROVE  /\ IsEntry(Path(g), [key |-> Key(g), findings |-> Fresh(g)])
         /\ IsReport(Run(g), job[g], [findings |-> Fresh(g), hit |-> FALSE])
         /\ Path(g) \in Paths
<1> DEFINE r == Run(g)
           j == job[g]
<1>1. /\ r \in Runs /\ policy[r] \in Policies /\ checkout[r] \in Checkouts
      /\ loaded[r] \in AllLoads
  BY DEF Goroutines, Run, CacheInv, TypeOK
<1>2. /\ Fresh(g) \in AllFindings /\ Fresh(g).job = j
      /\ Fresh(g).policy = policy[r]
      /\ \A p \in Covers(j) :
           Fresh(g).views[p] = View(checkout[r], loaded[r], p)
  <2> DEFINE f == Findings(checkout[r], policy[r], loaded[r], j)
  <2>1. /\ f \in AllFindings /\ f.job = j /\ f.policy = policy[r]
        /\ \A p \in Covers(j) : f.views[p] = View(checkout[r], loaded[r], p)
    BY <1>1, FindingsFacts
  <2> QED
    BY <2>1 DEF Fresh
<1>3. [key |-> Key(g), findings |-> Fresh(g)] \in Entries
  BY <1>2, KeyFacts DEF Entries
<1>4. ASSUME NEW p \in Covers(j)
      PROVE  \E d \in Key(g) : Describes(d, p, Fresh(g).views[p])
  <2>1. hashes[r][p] \in Key(g) /\ IsHash(hashes[r][p], r, p)
    BY KeyFacts DEF Key
  <2>2. Fresh(g).views[p] = View(checkout[r], loaded[r], p)
    BY <1>2
  <2>3. Fresh(g).views[p].src = loaded[r].tree[p]
          /\ Fresh(g).views[p].apis = ImportedAPIs(loaded[r], p)
    BY <2>2, ViewFacts
  <2> QED
    BY <2>1, <2>3 DEF IsHash, Describes
<1>5. IsEntry(Path(g), [key |-> Key(g), findings |-> Fresh(g)])
  BY <1>2, <1>3, <1>4 DEF IsEntry, Path
<1>6. IsReport(r, j, [findings |-> Fresh(g), hit |-> FALSE])
  <2>1. Fresh(g) = Recomputed(r, j)
    BY DEF Fresh, Recomputed
  <2>2. DiffersOnlyBehind(Fresh(g), Recomputed(r, j), j)
    BY <1>2, <2>1 DEF DiffersOnlyBehind
  <2> QED
    BY <1>2, <2>2 DEF IsReport, Reports
<1> QED
  BY <1>1, <1>5, <1>6 DEF Path, Paths

-----------------------------------------------------------------------------
LEMMA InitCache == Init => CacheInv
<1> SUFFICES ASSUME Init PROVE CacheInv
  OBVIOUS
<1> USE DEF Init
<1>1. source \in [Checkouts -> Trees]
  BY ContentsAssumption DEF Trees
<1>2. loaded \in [Runs -> AllLoads]
  BY <1>1, LoadFacts
<1>3. TypeOK
  BY <1>1, <1>2 DEF TypeOK, NoHashes
<1>4. LoadInv
  BY DEF LoadInv
<1>5. MemoInv /\ DigestInv /\ JobInv /\ EntryInv
  BY DEF MemoInv, DigestInv, JobInv, EntryInv, NoHashes
<1>6. DiskInv /\ ReportInv
  BY DEF DiskInv, ReportInv, Reported
<1> QED
  BY <1>3, <1>4, <1>5, <1>6 DEF CacheInv

(***************************************************************************)
(* Steps.  Each lemma first says what the step leaves alone.               *)
(***************************************************************************)
LEMMA RunOf == \A g \in Goroutines : Run(g) \in Runs
  BY DEF Goroutines, Run

LEMMA Frame ==
  ASSUME CacheInv
  PROVE  /\ UNCHANGED <<source, phase, checkout, loaded>> => LoadInv'
         /\ UNCHANGED <<hashes, phase, loaded>> => MemoInv'
         /\ UNCHANGED <<digest, pc, loaded>> => DigestInv'
         /\ UNCHANGED <<pc, job, phase>> => JobInv'
         /\ UNCHANGED <<pc, policy, job, entry>> => EntryInv'
         /\ UNCHANGED disk => DiskInv'
         /\ UNCHANGED <<reported, phase, checkout, policy, loaded>> => ReportInv'
<1>1. UNCHANGED <<source, phase, checkout, loaded>> => LoadInv'
  BY DEF CacheInv, LoadInv
<1>2. UNCHANGED <<hashes, phase, loaded>> => MemoInv'
  BY DEF CacheInv, MemoInv, IsHash
<1>3. UNCHANGED <<digest, pc, loaded>> => DigestInv'
  BY DEF CacheInv, DigestInv, IsHash
<1>4. UNCHANGED <<pc, job, phase>> => JobInv'
  BY DEF CacheInv, JobInv
<1>5. UNCHANGED <<pc, policy, job, entry>> => EntryInv'
  BY DEF CacheInv, EntryInv, IsEntry, Path
<1>6. UNCHANGED disk => DiskInv'
  BY DEF CacheInv, DiskInv, IsEntry
<1>7. UNCHANGED <<reported, phase, checkout, policy, loaded>> => ReportInv'
  BY DEF CacheInv, ReportInv, IsReport, Reported, Recomputed
<1> QED
  BY <1>1, <1>2, <1>3, <1>4, <1>5, <1>6, <1>7

LEMMA StartRunStep ==
  ASSUME CacheInv, NEW r \in Runs, StartRun(r)
  PROVE  CacheInv'
<1> USE DEF StartRun, runVars, envVars
<1>1. TypeOK /\ source[checkout[r]] \in Trees
  BY DEF CacheInv, TypeOK
<1> DEFINE l == Load(source[checkout[r]])
<1>2. loaded' = [loaded EXCEPT ![r] = l]
  OBVIOUS
<1>3. l \in AllLoads /\ l.tree = source[checkout[r]]
  BY <1>1, LoadFacts
<1> HIDE DEF l
<1>4. loaded' \in [Runs -> AllLoads]
  BY <1>1, <1>2, <1>3 DEF TypeOK
<1>5. TypeOK'
  BY <1>1, <1>4 DEF TypeOK
<1>6. \A q \in Runs \ {r} : loaded'[q] = loaded[q] /\ phase'[q] = phase[q]
  BY <1>1, <1>2 DEF TypeOK
<1>7. loaded'[r] = l /\ phase'[r] = "running" /\ phase[r] = "idle"
  BY <1>1, <1>2 DEF TypeOK
<1>8. LoadInv'
  BY <1>3, <1>6, <1>7 DEF LoadInv, CacheInv
<1>9. MemoInv'
  BY <1>6, <1>7 DEF MemoInv, CacheInv, IsHash
<1>10. DigestInv' /\ JobInv'
  BY <1>6, <1>7, RunOf DEF DigestInv, JobInv, CacheInv, IsHash
<1>11. EntryInv' /\ DiskInv'
  BY Frame
<1>12. ReportInv'
  BY <1>6, <1>7 DEF ReportInv, CacheInv, IsReport, Reported, Recomputed
<1> QED
  BY <1>5, <1>8, <1>9, <1>10, <1>11, <1>12 DEF CacheInv

LEMMA TakeStep ==
  ASSUME CacheInv, NEW g \in Goroutines, NEW j \in Jobs, Take(g, j)
  PROVE  CacheInv'
<1> USE DEF Take, runVars, envVars
<1>1. TypeOK'
  BY RunOf DEF CacheInv, TypeOK
<1>2. LoadInv' /\ MemoInv' /\ DiskInv' /\ ReportInv'
  BY Frame
<1>3. \A h \in Goroutines \ {g} : pc'[h] = pc[h] /\ job'[h] = job[h]
  BY DEF CacheInv, TypeOK
<1>4. pc'[g] = "load" /\ job'[g] = j /\ pc[g] = "idle"
  BY DEF CacheInv, TypeOK
<1>5. DigestInv' /\ JobInv'
  BY <1>3, <1>4 DEF CacheInv, DigestInv, JobInv, IsHash
<1>6. EntryInv'
  BY <1>3, <1>4 DEF CacheInv, EntryInv, IsEntry, Path
<1> QED
  BY <1>1, <1>2, <1>5, <1>6 DEF CacheInv

LEMMA PathIsAPath ==
  ASSUME TypeOK, NEW g \in Goroutines, job[g] \in Jobs
  PROVE  Path(g) \in Paths
  BY RunOf DEF TypeOK, Path, Paths

LEMMA ReadEntryStep ==
  ASSUME CacheInv, NEW g \in Goroutines, ReadEntry(g)
  PROVE  CacheInv'
<1> USE DEF ReadEntry, runVars, envVars
<1>1. job[g] \in Jobs /\ Path(g) \in Paths
  BY PathIsAPath DEF CacheInv, JobInv
<1>2. TypeOK'
  BY <1>1 DEF CacheInv, TypeOK
<1>3. LoadInv' /\ MemoInv' /\ DiskInv' /\ ReportInv'
  BY Frame
<1>4. \A h \in Goroutines \ {g} : pc'[h] = pc[h] /\ entry'[h] = entry[h]
  BY DEF CacheInv, TypeOK
<1>5. /\ entry'[g] = disk[Path(g)]
      /\ pc[g] # "idle" /\ pc'[g] # "idle"
      /\ pc'[g] = "validate" => disk[Path(g)] \notin {NoEntry, Torn}
  BY DEF CacheInv, TypeOK
<1>6. DigestInv' /\ JobInv'
  BY <1>4, <1>5 DEF CacheInv, DigestInv, JobInv, IsHash
<1>7. pc'[g] = "validate" => IsEntry(Path(g), entry'[g])
  BY <1>1, <1>5 DEF CacheInv, DiskInv
<1>8. EntryInv'
  BY <1>4, <1>7 DEF CacheInv, EntryInv, IsEntry, Path
<1> QED
  BY <1>2, <1>3, <1>6, <1>8 DEF CacheInv

LEMMA HashSourcesStep ==
  ASSUME CacheInv, NEW g \in Goroutines, HashSources(g)
  PROVE  CacheInv'
<1> USE DEF HashSources, runVars, envVars
<1> DEFINE r == Run(g)
<1>1. PICK p \in Covers(job[g]) :
        digest' = [digest EXCEPT ![g] =
                     Digest(p, source[checkout[r]], loaded[r])]
  OBVIOUS
<1>2. /\ r \in Runs /\ phase[r] = "running" /\ pc[g] # "idle"
      /\ p \in Packages /\ source[checkout[r]] \in Trees
      /\ loaded[r] \in AllLoads
  BY RunOf, JobFacts DEF CacheInv, JobInv, TypeOK
<1> DEFINE d == Digest(p, source[checkout[r]], loaded[r])
<1>3. /\ d \in Digests /\ d.pkg = p /\ d.src = source[checkout[r]][p]
      /\ d.apis = ImportedAPIs(loaded[r], p)
  BY <1>2, DigestFacts
<1>4. IsHash(d, r, d.pkg)
  BY <1>2, <1>3 DEF IsHash, CacheInv, LoadInv
<1>5. digest'[g] = d /\ \A h \in Goroutines \ {g} : digest'[h] = digest[h]
  BY <1>1 DEF CacheInv, TypeOK
<1>6. TypeOK'
  BY <1>1, <1>3 DEF CacheInv, TypeOK
<1>7. LoadInv' /\ MemoInv' /\ DiskInv' /\ ReportInv' /\ JobInv' /\ EntryInv'
  BY Frame
<1>8. DigestInv'
  BY <1>2, <1>4, <1>5 DEF CacheInv, DigestInv, IsHash
<1> QED
  BY <1>6, <1>7, <1>8 DEF CacheInv

LEMMA MemoHashStep ==
  ASSUME CacheInv, NEW g \in Goroutines, MemoHash(g)
  PROVE  CacheInv'
<1> USE DEF MemoHash, runVars, envVars
<1> DEFINE r == Run(g)
           d == digest[g]
<1>1. /\ r \in Runs /\ phase[r] = "running" /\ IsHash(d, r, d.pkg)
      /\ d.pkg \in Packages
  BY RunOf DEF CacheInv, DigestInv, JobInv, IsHash, Digests
<1>2. hashes' = [hashes EXCEPT ![r][d.pkg] = IF @ = NoDigest THEN d ELSE @]
  OBVIOUS
<1>3. TypeOK'
  BY <1>1, <1>2 DEF CacheInv, TypeOK, IsHash
<1>4. \A q \in Runs, p \in Packages :
        hashes'[q][p] = hashes[q][p] \/ (q = r /\ p = d.pkg /\ hashes'[q][p] = d)
  BY <1>1, <1>2 DEF CacheInv, TypeOK
<1>5. MemoInv'
  BY <1>1, <1>4 DEF CacheInv, MemoInv, IsHash
<1>6. \A h \in Goroutines : digest'[h] \in {digest[h], NoDigest}
  BY DEF CacheInv, TypeOK
<1>7. DigestInv'
  BY <1>6 DEF CacheInv, DigestInv, IsHash
<1>8. LoadInv' /\ DiskInv' /\ ReportInv' /\ JobInv' /\ EntryInv'
  BY Frame
<1> QED
  BY <1>3, <1>5, <1>7, <1>8 DEF CacheInv

(* What Report does, to a job whose findings are known to be good.         *)
LEMMA ReportStep ==
  ASSUME CacheInv, NEW g \in Goroutines, job[g] \in Jobs,
         NEW f, NEW hit \in BOOLEAN, Report(g, f, hit),
         digest[g] = NoDigest, phase[Run(g)] = "running",
         IsReport(Run(g), job[g], [findings |-> f, hit |-> hit]),
         UNCHANGED <<runVars, envVars, pending, hashes, digest>>,
         disk' \in [Paths -> Entries \cup {NoEntry, Torn}]
  PROVE  TypeOK' /\ LoadInv' /\ MemoInv' /\ DigestInv' /\ JobInv'
           /\ EntryInv' /\ ReportInv'
<1> USE DEF Report, runVars, envVars
<1> DEFINE r == Run(g)
           j == job[g]
           rep == [findings |-> f, hit |-> hit]
<1>1. r \in Runs /\ rep \in Reports
  BY RunOf DEF IsReport
<1>2. TypeOK'
  BY <1>1 DEF CacheInv, TypeOK
<1>3. LoadInv' /\ MemoInv'
  BY Frame
<1>4. /\ pc'[g] = "idle" /\ entry'[g] = NoEntry
      /\ \A h \in Goroutines \ {g} : /\ pc'[h] = pc[h] /\ job'[h] = job[h]
                                    /\ entry'[h] = entry[h]
  BY DEF CacheInv, TypeOK
<1>5. DigestInv' /\ JobInv'
  BY <1>4 DEF CacheInv, DigestInv, JobInv, IsHash
<1>6. EntryInv'
  BY <1>4 DEF CacheInv, EntryInv, IsEntry, Path
<1>7. \A q \in Runs, k \in Jobs :
        \/ reported'[q][k] = reported[q][k]
        \/ q = r /\ k = j /\ reported'[q][k] = rep
  BY <1>1 DEF CacheInv, TypeOK
<1>8. ReportInv'
  <2>1. \A q \in Runs, k \in Jobs : \A x : IsReport(q, k, x)' <=> IsReport(q, k, x)
    BY DEF IsReport, Recomputed
  <2>2. ASSUME NEW q \in Runs, NEW k \in Jobs, Reported(q, k)'
        PROVE  phase'[q] # "idle" /\ IsReport(q, k, reported'[q][k])
    <3>1. CASE reported'[q][k] = reported[q][k]
      BY <2>2, <3>1 DEF CacheInv, ReportInv, Reported
    <3>2. CASE q = r /\ k = j /\ reported'[q][k] = rep
      BY <3>2
    <3> QED
      BY <1>7, <3>1, <3>2
  <2> QED
    BY <2>1, <2>2 DEF ReportInv
<1> QED
  BY <1>2, <1>3, <1>5, <1>6, <1>8

LEMMA HitStep ==
  ASSUME CacheInv, NEW g \in Goroutines, Hit(g)
  PROVE  CacheInv'
<1> USE DEF Hit
<1>1. job[g] \in Jobs /\ phase[Run(g)] = "running" /\ IsEntry(Path(g), entry[g])
  BY DEF CacheInv, JobInv, EntryInv
<1>2. IsReport(Run(g), job[g], [findings |-> entry[g].findings, hit |-> TRUE])
  BY <1>1, HitFacts
<1>3. disk' \in [Paths -> Entries \cup {NoEntry, Torn}] /\ DiskInv'
  BY Frame DEF CacheInv, TypeOK
<1> QED
  BY <1>1, <1>2, <1>3, ReportStep DEF CacheInv, Hashed

LEMMA StaleStep ==
  ASSUME CacheInv, NEW g \in Goroutines, Stale(g)
  PROVE  CacheInv'
<1> USE DEF Stale, runVars, envVars
<1>1. TypeOK'
  BY DEF CacheInv, TypeOK
<1>2. LoadInv' /\ MemoInv' /\ DiskInv' /\ ReportInv'
  BY Frame
<1>3. /\ pc'[g] = "store" /\ pc[g] = "validate"
      /\ \A h \in Goroutines \ {g} : pc'[h] = pc[h] /\ entry'[h] = entry[h]
  BY DEF CacheInv, TypeOK
<1>4. DigestInv' /\ JobInv'
  BY <1>3 DEF CacheInv, DigestInv, JobInv, IsHash
<1>5. EntryInv'
  BY <1>3 DEF CacheInv, EntryInv, IsEntry, Path
<1> QED
  BY <1>1, <1>2, <1>4, <1>5 DEF CacheInv

LEMMA StoreStep ==
  ASSUME CacheInv, NEW g \in Goroutines, Store(g)
  PROVE  CacheInv'
<1> USE DEF Store
<1> DEFINE e == [key |-> Key(g), findings |-> Fresh(g)]
<1>1. job[g] \in Jobs /\ phase[Run(g)] = "running"
  BY DEF CacheInv, JobInv
<1>2. /\ IsEntry(Path(g), e) /\ Path(g) \in Paths
      /\ IsReport(Run(g), job[g], [findings |-> Fresh(g), hit |-> FALSE])
  BY <1>1, FreshFacts
<1>3. e \in Entries
  BY <1>2 DEF IsEntry
<1>4. disk' \in [Paths -> Entries \cup {NoEntry, Torn}]
  BY <1>3 DEF CacheInv, TypeOK
<1>5. \A f \in Paths : disk'[f] = disk[f] \/ (f = Path(g) /\ disk'[f] = e)
  BY DEF CacheInv, TypeOK
<1>6. DiskInv'
  BY <1>2, <1>5 DEF CacheInv, DiskInv, IsEntry
<1> QED
  BY <1>1, <1>2, <1>4, <1>6, ReportStep DEF CacheInv, Hashed

LEMMA StoreFailsStep ==
  ASSUME CacheInv, NEW g \in Goroutines, StoreFails(g)
  PROVE  CacheInv'
<1> USE DEF StoreFails
<1>1. job[g] \in Jobs /\ phase[Run(g)] = "running"
  BY DEF CacheInv, JobInv
<1>2. IsReport(Run(g), job[g], [findings |-> Fresh(g), hit |-> FALSE])
  BY <1>1, FreshFacts
<1>3. disk' \in [Paths -> Entries \cup {NoEntry, Torn}] /\ DiskInv'
  BY Frame DEF CacheInv, TypeOK
<1> QED
  BY <1>1, <1>2, <1>3, ReportStep DEF CacheInv, Hashed

LEMMA FinishRunStep ==
  ASSUME CacheInv, NEW r \in Runs, FinishRun(r)
  PROVE  CacheInv'
<1> USE DEF FinishRun, envVars
<1>1. NoHashes \in [Packages -> Digests \cup {NoDigest}]
  BY DEF NoHashes
<1>2. TypeOK'
  BY <1>1 DEF CacheInv, TypeOK
<1>3. /\ \A q \in Runs \ {r} : phase'[q] = phase[q] /\ hashes'[q] = hashes[q]
      /\ phase'[r] = "finished" /\ hashes'[r] = NoHashes
      /\ phase[r] = "running"
  BY DEF CacheInv, TypeOK
<1>4. LoadInv' /\ MemoInv'
  BY <1>3 DEF CacheInv, LoadInv, MemoInv, IsHash, NoHashes
<1>5. \A g \in Goroutines : pc[g] # "idle" => Run(g) # r
  BY DEF Goroutines, Run
<1>6. DigestInv' /\ EntryInv' /\ DiskInv'
  BY Frame
<1>7. JobInv'
  BY <1>3, <1>5, RunOf DEF CacheInv, JobInv
<1>8. ReportInv'
  BY <1>3 DEF CacheInv, ReportInv, IsReport, Reported, Recomputed
<1> QED
  BY <1>2, <1>4, <1>6, <1>7, <1>8 DEF CacheInv

LEMMA DieStep ==
  ASSUME CacheInv, NEW dead \in SUBSET Runs, Die(dead), DiskInv',
         disk' \in [Paths -> Entries \cup {NoEntry, Torn}], powerLosses' \in Nat
  PROVE  CacheInv'
<1> USE DEF Die
<1>1. NoHashes \in [Packages -> Digests \cup {NoDigest}]
  BY DEF NoHashes
<1>2. TypeOK'
  BY <1>1 DEF CacheInv, TypeOK
<1>3. \A r \in Runs : r \notin dead => /\ phase'[r] = phase[r]
                                     /\ hashes'[r] = hashes[r]
                                     /\ reported'[r] = reported[r]
  OBVIOUS
<1>4. \A r \in dead : /\ phase'[r] = "killed" /\ hashes'[r] = NoHashes
                      /\ \A j \in Jobs : reported'[r][j] = NoReport
  OBVIOUS
<1>5. LoadInv' /\ MemoInv' /\ ReportInv'
  BY <1>3, <1>4 DEF CacheInv, LoadInv, MemoInv, IsHash, NoHashes, ReportInv,
       IsReport, Reported, Recomputed
<1>6. \A g \in Goroutines :
        /\ Run(g) \in dead => pc'[g] = "idle" /\ digest'[g] = NoDigest
        /\ Run(g) \notin dead =>
             /\ pc'[g] = pc[g] /\ job'[g] = job[g] /\ entry'[g] = entry[g]
             /\ digest'[g] = digest[g]
  OBVIOUS
<1>7. DigestInv' /\ JobInv'
  BY <1>3, <1>6, RunOf DEF CacheInv, DigestInv, JobInv, IsHash
<1>8. EntryInv'
  BY <1>6 DEF CacheInv, EntryInv, IsEntry, Path
<1> QED
  BY <1>2, <1>5, <1>7, <1>8 DEF CacheInv

LEMMA KillStep ==
  ASSUME CacheInv, NEW r \in Runs, Kill(r)
  PROVE  CacheInv'
<1>1. Die({r}) /\ UNCHANGED <<disk, powerLosses>>
  BY DEF Kill
<1>2. DiskInv'
  BY <1>1, Frame
<1>3. disk' \in [Paths -> Entries \cup {NoEntry, Torn}] /\ powerLosses' \in Nat
  BY <1>1 DEF CacheInv, TypeOK
<1> QED
  BY <1>1, <1>2, <1>3, DieStep

LEMMA PowerLossStep ==
  ASSUME CacheInv, PowerLoss
  PROVE  CacheInv'
<1>1. Die(Running) /\ Running \in SUBSET Runs
  BY DEF PowerLoss, Running
<1>2. powerLosses' \in Nat
  BY DEF PowerLoss, CacheInv, TypeOK
<1>3. disk' \in [Paths -> Entries \cup {NoEntry, Torn}]
  BY DEF PowerLoss, CacheInv, TypeOK
<1>4. \A f \in Paths : disk'[f] = Torn \/ disk'[f] = disk[f]
  BY DEF PowerLoss
<1>5. DiskInv'
  BY <1>4 DEF CacheInv, DiskInv, IsEntry
<1> QED
  BY <1>1, <1>2, <1>3, <1>5, DieStep

LEMMA EditStep ==
  ASSUME CacheInv, NEW c \in Checkouts, NEW p \in Packages,
         NEW content \in Contents, Edit(c, p, content)
  PROVE  CacheInv'
<1> USE DEF Edit, runVars
<1>1. source' \in [Checkouts -> Trees]
  BY DEF CacheInv, TypeOK, Trees
<1>2. TypeOK'
  BY <1>1 DEF CacheInv, TypeOK
<1>3. \A d \in Checkouts \ {c} : source'[d] = source[d]
  BY DEF CacheInv, TypeOK
<1>4. \A r \in Runs : Quiet /\ phase[r] = "running" => checkout[r] # c
  BY DEF Quiet, Running
<1>5. \A r \in Runs : checkout[r] \in Checkouts
  BY DEF CacheInv, TypeOK
<1>6. LoadInv'
  BY <1>3, <1>4, <1>5 DEF CacheInv, LoadInv
<1>7. /\ MemoInv' /\ DigestInv' /\ JobInv' /\ EntryInv' /\ DiskInv'
      /\ ReportInv'
  BY Frame
<1> QED
  BY <1>2, <1>6, <1>7 DEF CacheInv

LEMMA NextCache == CacheInv /\ [Next]_vars => CacheInv'
<1> SUFFICES ASSUME CacheInv, [Next]_vars PROVE CacheInv'
  OBVIOUS
<1>1. ASSUME NEW r \in Runs, StartRun(r) PROVE CacheInv'
  BY <1>1, StartRunStep
<1>2. ASSUME NEW r \in Runs, FinishRun(r) PROVE CacheInv'
  BY <1>2, FinishRunStep
<1>3. ASSUME NEW g \in Goroutines, GoroutineStep(g) PROVE CacheInv'
  <2>1. ASSUME NEW j \in Jobs, Take(g, j) PROVE CacheInv'
    BY <2>1, TakeStep
  <2> QED
    BY <1>3, <2>1, ReadEntryStep, HashSourcesStep, MemoHashStep, HitStep,
       StaleStep, StoreStep, StoreFailsStep DEF GoroutineStep
<1>4. ASSUME Environment PROVE CacheInv'
  <2>1. ASSUME NEW r \in Runs, Kill(r) PROVE CacheInv'
    BY <2>1, KillStep
  <2>2. ASSUME NEW c \in Checkouts, NEW p \in Packages,
               NEW content \in Contents, Edit(c, p, content)
        PROVE  CacheInv'
    BY <2>2, EditStep
  <2> QED
    BY <1>4, <2>1, <2>2, PowerLossStep DEF Environment
<1>5. ASSUME UNCHANGED vars PROVE CacheInv'
  <2>1. TypeOK'
    BY <1>5 DEF CacheInv, TypeOK, vars
  <2> QED
    BY <1>5, <2>1, Frame DEF CacheInv, vars
<1> QED
  BY <1>1, <1>2, <1>3, <1>4, <1>5 DEF Next, AllOver

(* Every hash and every entry the cache ever holds describes the findings  *)
(* next to it: the inductive invariant holds in every reachable state      *)
(* (cache.go:65-258).                                                      *)
THEOREM CacheInvariance == Spec => []CacheInv
  BY InitCache, NextCache, PTL DEF Spec

(* Every variable keeps its type.                                          *)
THEOREM CacheTyped == Spec => []TypeOK
<1>1. CacheInv => TypeOK
  BY DEF CacheInv
<1> QED
  BY <1>1, CacheInvariance, PTL

(* With no assumption on the sources, the file names, the checkouts or the *)
(* failures: a hit is for this job, policy and imported API                *)
(* (cache.go:145-151, 198-232).                                            *)
THEOREM OnlyOwnHits == Spec => []HitsAreForThisJob
<1>1. CacheInv => HitsAreForThisJob
  BY DEF CacheInv, ReportInv, IsReport, HitsAreForThisJob
<1> QED
  BY <1>1, CacheInvariance, PTL

(* On one checkout that stands still during runs, a warm report differs    *)
(* from a cold one only in what follows from packages that the analysed    *)
(* one does not import, and a program group's not at all, whatever is      *)
(* killed or torn and however runs interleave (cache.go:65-300).           *)
THEOREM WarmParity == ASSUME Stable PROVE Spec => []WarmDiffersOnlyBehind
<1>1. CacheInv => WarmDiffersOnlyBehind
  BY DEF CacheInv, ReportInv, IsReport, DiffersOnlyBehind, WarmDiffersOnlyBehind
<1> QED
  BY <1>1, CacheInvariance, PTL

(* Without errors, and with every package importing what it can come to,   *)
(* a warm report is the cold one.                                          *)
THEOREM WarmParityOfImports ==
  ASSUME Stable, NothingBehind PROVE Spec => []WarmEqualsCold
<1>1. ASSUME NothingBehind, NEW l \in AllLoads, NEW p \in Packages
      PROVE  Behind(l, p) = <<>> /\ TypeComplete(l, p) = TRUE
  <2>1. l.typed = TRUE
    BY <1>1 DEF AllLoads, Load, NothingBehind
  <2>2. (IF l.typed THEN Sees(l, p) \ Imports[p] ELSE {}) = {}
    BY <1>1 DEF NothingBehind
  <2>3. Behind(l, p) = [q \in {} |-> API[l.tree[q]]]
    BY <2>2 DEF Behind
  <2> QED
    BY <1>1, <2>1, <2>3 DEF TypeComplete, NothingBehind
<1>2. ASSUME Stable, NothingBehind, CacheInv, WarmDiffersOnlyBehind,
             NEW r \in Runs, NEW j \in Jobs, Reported(r, j)
      PROVE  reported[r][j].findings = Recomputed(r, j)
  <2> DEFINE warm == reported[r][j].findings
             cold == Recomputed(r, j)
  <2>1. /\ policy[r] \in Policies /\ checkout[r] \in Checkouts
        /\ loaded[r] \in AllLoads /\ Covers(j) \subseteq Packages
        /\ warm \in AllFindings
    BY <1>2, JobFacts DEF CacheInv, TypeOK, ReportInv, IsReport, Reports
  <2>2. PICK c \in Checkouts, pol \in Policies, l \in AllLoads, k \in Jobs :
          warm = Findings(c, pol, l, k)
    BY <2>1 DEF AllFindings
  <2>3. /\ warm.job = k /\ warm.policy = pol
        /\ \A p \in Covers(k) : warm.views[p] = View(c, l, p)
    <3>1. /\ Findings(c, pol, l, k).job = k /\ Findings(c, pol, l, k).policy = pol
          /\ \A p \in Covers(k) : Findings(c, pol, l, k).views[p] = View(c, l, p)
      BY FindingsFacts
    <3> HIDE DEF warm
    <3> QED
      BY <2>2, <3>1
  <2>4. /\ cold.job = j /\ cold.policy = policy[r]
        /\ \A p \in Covers(j) : cold.views[p] = View(checkout[r], loaded[r], p)
    BY <2>1, FindingsFacts DEF Recomputed
  <2>5. /\ warm.job = j /\ warm.policy = cold.policy
        /\ \A p \in Covers(j) : /\ warm.views[p].src = cold.views[p].src
                                /\ warm.views[p].apis = cold.views[p].apis
    BY <1>2 DEF WarmDiffersOnlyBehind
  <2> HIDE DEF warm, cold
  <2>6. k = j /\ pol = policy[r] /\ c = checkout[r]
    BY <1>2, <2>1, <2>3, <2>4, <2>5 DEF Stable
  <2>7. ASSUME NEW p \in Covers(j)
        PROVE  View(c, l, p) = View(checkout[r], loaded[r], p)
    <3>1. l.tree[p] = loaded[r].tree[p] /\ ImportedAPIs(l, p) = ImportedAPIs(loaded[r], p)
      BY <2>3, <2>4, <2>5, <2>6, ViewFacts
    <3>2. /\ Behind(l, p) = <<>> /\ Behind(loaded[r], p) = <<>>
          /\ TypeComplete(l, p) = TRUE /\ TypeComplete(loaded[r], p) = TRUE
      BY <1>1, <1>2, <2>1
    <3> QED
      BY <2>6, <3>1, <3>2 DEF View
  <2>8. Findings(c, pol, l, k) = Findings(checkout[r], policy[r], loaded[r], j)
    BY <2>6, <2>7 DEF Findings
  <2> QED
    BY <2>2, <2>8 DEF warm, cold, Recomputed
<1>3. CacheInv /\ WarmDiffersOnlyBehind => WarmEqualsCold
  BY <1>2 DEF WarmEqualsCold
<1> QED
  BY <1>3, CacheInvariance, WarmParity, PTL

(* Goroutines of a run may hash one package at the same time, while it is  *)
(* edited: the first result stays until the run is over                    *)
(* (cache.go:209-232).                                                     *)
THEOREM FirstHashStays == Spec => PackageHashedOnce
<1> DEFINE Keeps(r, p) ==
      hashes[r][p] # NoDigest =>
        hashes'[r][p] \in {hashes[r][p], NoDigest} /\
        (hashes'[r][p] = NoDigest => phase'[r] # "running")
<1>1. TypeOK /\ [Next]_vars => \A r \in Runs, p \in Packages : Keeps(r, p)
  <2> SUFFICES ASSUME TypeOK, [Next]_vars, NEW r \in Runs, NEW p \in Packages
               PROVE  Keeps(r, p)
    OBVIOUS
  <2>1. CASE UNCHANGED hashes
    BY <2>1
  <2>2. ASSUME NEW g \in Goroutines, MemoHash(g)
        PROVE  Keeps(r, p)
    <3>1. hashes[Run(g)] \in [Packages -> Digests \cup {NoDigest}]
      BY DEF TypeOK, Goroutines, Run
    <3>2. CASE r = Run(g) /\ p = digest[g].pkg
      BY <2>2, <3>1, <3>2 DEF TypeOK, MemoHash
    <3>3. CASE ~ (r = Run(g) /\ p = digest[g].pkg)
      BY <2>2, <3>1, <3>3 DEF TypeOK, MemoHash
    <3> QED
      BY <3>2, <3>3
  <2>3. ASSUME NEW q \in Runs, FinishRun(q)
        PROVE  Keeps(r, p)
    <3>1. CASE r = q
      BY <2>3, <3>1 DEF TypeOK, FinishRun, NoHashes
    <3>2. CASE r # q
      BY <2>3, <3>2 DEF TypeOK, FinishRun
    <3> QED
      BY <3>1, <3>2
  <2>4. ASSUME NEW dead, Die(dead)
        PROVE  Keeps(r, p)
    <3>1. CASE r \in dead
      BY <2>4, <3>1 DEF Die, NoHashes
    <3>2. CASE r \notin dead
      BY <2>4, <3>2 DEF Die
    <3> QED
      BY <3>1, <3>2
  <2>5. CASE \E g \in Goroutines : GoroutineStep(g)
    BY <2>1, <2>2, <2>5 DEF GoroutineStep, Take, ReadEntry, HashSources, Hit, Stale,
                           Store, StoreFails
  <2>6. CASE Environment
    BY <2>1, <2>4, <2>6 DEF Environment, Kill, PowerLoss, Edit
  <2> QED
    BY <2>1, <2>3, <2>5, <2>6 DEF Next, StartRun, AllOver, vars
<1>2. TypeOK /\ [Next]_vars => [\A r \in Runs, p \in Packages : Keeps(r, p)]_vars
  BY <1>1
<1> QED
  BY <1>2, CacheTyped, PTL DEF PackageHashedOnce, Spec
-----------------------------------------------------------------------------
(***************************************************************************)
(* A warm run hits.  What follows is about sources that stand still during *)
(* runs and packages whose paths give different file names: FileKey writes *)
(* "_" for "/" (cache.go:146), so that a/b and a_b would share an entry.   *)
(***************************************************************************)
OwnFiles == \A p, q \in Packages : FileKey[p] = FileKey[q] => p = q

(* The key of a job's entry, when a run hashes what it loaded.             *)
KeyOf(l, j) == {Digest(p, l.tree, l) : p \in Covers(j)}

(* Some run that has started stored e under f, as the entry of a job.      *)
StoredBySome(f, e) ==
  \E o \in Runs, j \in Jobs :
    /\ phase[o] # "idle"
    /\ f = EntryPath(policy[o], j)
    /\ e.key = KeyOf(loaded[o], j)

IsStored(f) == disk[f] \notin {NoEntry, Torn}

(* A job of a run that is under way waits, is worked on, or is reported.   *)
InHand(r, j) == \E g \in Goroutines : Run(g) = r /\ pc[g] # "idle" /\ job[g] = j

OriginInv ==
  /\ \A f \in Paths : IsStored(f) => StoredBySome(f, disk[f])
  /\ \A g \in Goroutines :
       pc[g] = "validate" => StoredBySome(Path(g), entry[g])
PresentInv ==
  powerLosses = 0 /\ ~StoresMayFail =>
    /\ \A r \in Runs, j \in Jobs :
         Reported(r, j) => IsStored(EntryPath(policy[r], j))
    /\ \A g \in Goroutines : pc[g] = "validate" => IsStored(Path(g))
AccountInv == \A r \in Runs :
  /\ phase[r] = "running" =>
       \A j \in Jobs : j \in pending[r] \/ InHand(r, j) \/ Reported(r, j)
  /\ phase[r] = "finished" => \A j \in Jobs : Reported(r, j)
BeforeInv == \A r \in Runs : \A q \in before[r] :
  phase[q] = "finished" /\ phase[r] # "idle"

(* Nothing that bears on the entries of r happened since q finished.       *)
Undisturbed(q, r) ==
  /\ powerLosses = 0 /\ ~StoresMayFail
  /\ policy[q] = policy[r] /\ loaded[q] = loaded[r]
  /\ \A o \in Runs \ {q, r} : phase[o] = "idle" \/ loaded[o] = loaded[r]

HitInv == \A r \in Runs : \A q \in before[r] :
  Undisturbed(q, r) =>
    /\ \A g \in Goroutines : Run(g) = r => pc[g] # "store"
    /\ \A j \in Jobs : Reported(r, j) => reported[r][j].hit = TRUE

WarmInv == OriginInv /\ PresentInv /\ AccountInv /\ BeforeInv /\ HitInv

LEMMA KeyOfLoaded ==
  ASSUME Quiet, CacheInv, NEW g \in Goroutines, job[g] \in Jobs, Hashed(g)
  PROVE  Key(g) = KeyOf(loaded[Run(g)], job[g])
<1> DEFINE r == Run(g)
<1>1. r \in Runs /\ loaded[r] \in AllLoads /\ loaded[r].tree \in Trees
  BY RunOf, LoadFacts DEF CacheInv, TypeOK
<1>2. ASSUME NEW p \in Covers(job[g])
      PROVE  hashes[r][p] = Digest(p, loaded[r].tree, loaded[r])
  <2>1. IsHash(hashes[r][p], r, p) /\ p \in Packages
    BY KeyFacts, JobFacts
  <2>2. /\ Digest(p, loaded[r].tree, loaded[r]) \in Digests
        /\ Digest(p, loaded[r].tree, loaded[r]).pkg = p
        /\ Digest(p, loaded[r].tree, loaded[r]).src = loaded[r].tree[p]
        /\ Digest(p, loaded[r].tree, loaded[r]).apis = ImportedAPIs(loaded[r], p)
    BY <1>1, <2>1, DigestFacts
  <2>3. \A d, e \in Digests :
          d.pkg = e.pkg /\ d.src = e.src /\ d.apis = e.apis => d = e
    BY DEF Digests
  <2> QED
    BY <2>1, <2>2, <2>3 DEF IsHash
<1> QED
  BY <1>2 DEF Key, KeyOf

LEMMA OnePathOneJob ==
  ASSUME OwnFiles, NEW pol \in Policies, NEW qol \in Policies,
         NEW j \in Jobs, NEW k \in Jobs, EntryPath(pol, j) = EntryPath(qol, k)
  PROVE  j = k
<1>1. (j.unit = Program <=> k.unit = Program) /\ j.group = k.group
  BY EqualPaths
<1>2. CASE j.unit = Program
  BY <1>1, <1>2, JobFacts
<1>3. CASE j.unit # Program
  <2>1. FileKey[j.unit] = FileKey[k.unit]
    BY <1>1, <1>3 DEF EntryPath
  <2> QED
    BY <1>1, <1>3, <2>1, JobFacts DEF OwnFiles
<1> QED
  BY <1>2, <1>3

(***************************************************************************)
(* What a step does to runs, entries, goroutines and reports.              *)
(***************************************************************************)
LEMMA RunsGoOn ==
  ASSUME CacheInv, [Next]_vars
  PROVE  /\ policy' = policy /\ checkout' = checkout
         /\ powerLosses' = 0 => powerLosses = 0
         /\ \A r \in Runs : before'[r] = before[r] \/ StartRun(r)
         /\ \A r \in Runs : phase[r] # "idle" =>
              /\ phase'[r] # "idle"
              /\ loaded'[r] = loaded[r] /\ before'[r] = before[r]
              /\ phase[r] = "finished" => phase'[r] = "finished"
<1> DEFINE Goal ==
               /\ policy' = policy /\ checkout' = checkout
               /\ powerLosses' = 0 => powerLosses = 0
               /\ \A r \in Runs : before'[r] = before[r] \/ StartRun(r)
               /\ \A r \in Runs : phase[r] # "idle" =>
                    /\ phase'[r] # "idle"
                    /\ loaded'[r] = loaded[r] /\ before'[r] = before[r]
                    /\ phase[r] = "finished" => phase'[r] = "finished"
<1> USE DEF CacheInv, TypeOK
<1>1. ASSUME NEW r \in Runs, StartRun(r) \/ FinishRun(r) PROVE Goal
  BY <1>1 DEF StartRun, FinishRun, envVars
<1>2. CASE \E g \in Goroutines : GoroutineStep(g)
  BY <1>2 DEF GoroutineStep, Take, ReadEntry, HashSources, MemoHash, Hit, Stale,
              Store, StoreFails, runVars, envVars
<1>3. CASE Environment
  BY <1>3 DEF Environment, Kill, PowerLoss, Edit, Die, Running, runVars
<1> QED
  BY <1>1, <1>2, <1>3 DEF Next, AllOver, vars

LEMMA EntriesStay ==
  ASSUME CacheInv, [Next]_vars, NEW f \in Paths
  PROVE  \/ disk'[f] = disk[f]
         \/ ~ IsStored(f)' /\ powerLosses' # 0
         \/ \E g \in Goroutines :
              Store(g) /\ f = Path(g)
                /\ disk'[f] = [key |-> Key(g), findings |-> Fresh(g)]
<1> DEFINE Goal ==
               \/ disk'[f] = disk[f]
               \/ ~ IsStored(f)' /\ powerLosses' # 0
               \/ \E g \in Goroutines :
                    Store(g) /\ f = Path(g)
                      /\ disk'[f] = [key |-> Key(g), findings |-> Fresh(g)]
<1> USE DEF CacheInv, TypeOK
<1>1. CASE UNCHANGED disk
  BY <1>1
<1>2. CASE PowerLoss
  BY <1>2 DEF PowerLoss, IsStored
<1>3. ASSUME NEW g \in Goroutines, Store(g) PROVE Goal
  BY <1>3 DEF Store
<1>4. CASE \E g \in Goroutines : GoroutineStep(g)
  BY <1>1, <1>3, <1>4 DEF GoroutineStep, Take, ReadEntry, HashSources, MemoHash,
                          Hit, Stale, StoreFails
<1>5. CASE Environment
  BY <1>1, <1>2, <1>5 DEF Environment, Kill, Edit
<1> QED
  BY <1>1, <1>4, <1>5 DEF Next, StartRun, FinishRun, AllOver, vars

LEMMA WorkGoesOn ==
  ASSUME CacheInv, [Next]_vars, NEW g \in Goroutines
  PROVE  /\ pc'[g] = "validate" =>
              /\ job'[g] = job[g]
              /\ \/ pc[g] = "validate" /\ entry'[g] = entry[g]
                 \/ pc[g] = "load" /\ entry'[g] = disk[Path(g)]
                      /\ IsStored(Path(g)) /\ disk' = disk
         /\ pc'[g] = "store" => \/ pc[g] = "store"
                                \/ Stale(g)
                                \/ pc[g] = "load" /\ ~ IsStored(Path(g))
<1> DEFINE Goal ==
               /\ pc'[g] = "validate" =>
                    /\ job'[g] = job[g]
                    /\ \/ pc[g] = "validate" /\ entry'[g] = entry[g]
                       \/ pc[g] = "load" /\ entry'[g] = disk[Path(g)]
                            /\ IsStored(Path(g)) /\ disk' = disk
               /\ pc'[g] = "store" => \/ pc[g] = "store"
                                      \/ Stale(g)
                                      \/ pc[g] = "load" /\ ~ IsStored(Path(g))
<1> USE DEF CacheInv, TypeOK
<1>1. CASE UNCHANGED <<pc, job, entry>>
  BY <1>1
<1>2. ASSUME NEW h \in Goroutines, NEW j \in Jobs, Take(h, j) PROVE Goal
  BY <1>2 DEF Take
<1>3. ASSUME NEW h \in Goroutines, ReadEntry(h) PROVE Goal
  BY <1>3 DEF ReadEntry, IsStored
<1>4. ASSUME NEW h \in Goroutines, NEW f, NEW hit, Report(h, f, hit)
      PROVE  Goal
  BY <1>4 DEF Report
<1>5. ASSUME NEW h \in Goroutines, Stale(h) PROVE Goal
  <2>1. CASE h = g
    BY <1>5, <2>1 DEF Stale
  <2>2. CASE h # g
    BY <1>5, <2>2 DEF Stale
  <2> QED
    BY <2>1, <2>2
<1>6. CASE \E h \in Goroutines : GoroutineStep(h)
  BY <1>1, <1>2, <1>3, <1>4, <1>5, <1>6
     DEF GoroutineStep, HashSources, MemoHash, Hit, Store, StoreFails
<1>7. ASSUME NEW dead, Die(dead) PROVE Goal
  BY <1>7 DEF Die
<1>8. CASE Environment
  BY <1>1, <1>7, <1>8 DEF Environment, Kill, PowerLoss, Edit
<1> QED
  BY <1>1, <1>6, <1>8 DEF Next, StartRun, FinishRun, AllOver, vars

LEMMA Answered ==
  ASSUME CacheInv, NEW g \in Goroutines, Hit(g) \/ Store(g) \/ StoreFails(g)
  PROVE  /\ Run(g) \in Runs /\ job[g] \in Jobs /\ phase[Run(g)] = "running"
         /\ reported'[Run(g)][job[g]] \in Reports
<1> USE DEF CacheInv, TypeOK
<1>1. Run(g) \in Runs /\ job[g] \in Jobs /\ phase[Run(g)] = "running"
  BY RunOf DEF Hit, Store, StoreFails, JobInv
<1>2. CASE Hit(g)
  <2>1. entry[g].findings \in AllFindings
    BY <1>2 DEF Hit, EntryInv, IsEntry, Entries
  <2>2. reported'[Run(g)][job[g]] = [findings |-> entry[g].findings, hit |-> TRUE]
    BY <1>1, <1>2 DEF Hit, Report
  <2> QED
    BY <1>1, <2>1, <2>2 DEF Reports
<1>3. CASE Store(g) \/ StoreFails(g)
  <2>1. Hashed(g)
    BY <1>3 DEF Store, StoreFails
  <2>2. Fresh(g) \in AllFindings
    BY <1>1, <2>1, FreshFacts DEF IsReport, Reports
  <2>3. reported' = [reported EXCEPT ![Run(g)][job[g]] =
                       [findings |-> Fresh(g), hit |-> FALSE]]
    BY <1>3 DEF Store, StoreFails, Report
  <2>4. reported'[Run(g)][job[g]] = [findings |-> Fresh(g), hit |-> FALSE]
    BY <1>1, <2>3
  <2> QED
    BY <1>1, <2>2, <2>4 DEF Reports
<1> QED
  BY <1>2, <1>3

LEMMA ReportsStay ==
  ASSUME CacheInv, [Next]_vars, NEW r \in Runs, NEW j \in Jobs
  PROVE  /\ Reported(r, j)' =>
              \/ reported'[r][j] = reported[r][j]
              \/ \E g \in Goroutines :
                   /\ Run(g) = r /\ job[g] = j
                   /\ \/ Hit(g) /\ reported'[r][j].hit = TRUE
                      \/ Store(g) \/ StoreFails(g)
         /\ Reported(r, j) /\ phase'[r] # "killed" => Reported(r, j)'
<1> DEFINE Goal ==
               /\ Reported(r, j)' =>
                    \/ reported'[r][j] = reported[r][j]
                    \/ \E g \in Goroutines :
                         /\ Run(g) = r /\ job[g] = j
                         /\ \/ Hit(g) /\ reported'[r][j].hit = TRUE
                            \/ Store(g) \/ StoreFails(g)
               /\ Reported(r, j) /\ phase'[r] # "killed" => Reported(r, j)'
<1> USE DEF CacheInv, TypeOK
<1>1. CASE UNCHANGED reported
  BY <1>1 DEF Reported
<1>2. ASSUME NEW g \in Goroutines, NEW f, NEW hit, Report(g, f, hit),
             f \in AllFindings, hit \in BOOLEAN,
             Hit(g) \/ Store(g) \/ StoreFails(g), Hit(g) => hit = TRUE
      PROVE  Goal
  <2>1. /\ Run(g) \in Runs /\ job[g] \in Jobs
        /\ reported' = [reported EXCEPT ![Run(g)][job[g]] =
                          [findings |-> f, hit |-> hit]]
    BY <1>2, RunOf DEF Report, JobInv, Hit, Store, StoreFails
  <2>2. CASE Run(g) = r /\ job[g] = j
    <3>1. reported'[r][j] = [findings |-> f, hit |-> hit]
      BY <2>1, <2>2
    <3>2. Reported(r, j)'
      BY <1>2, <3>1, SpecialsAssumption DEF Reported, Reports
    <3> QED
      BY <1>2, <2>2, <3>1, <3>2
  <2>3. CASE ~ (Run(g) = r /\ job[g] = j)
    <3>1. reported'[r][j] = reported[r][j]
      BY <2>1, <2>3
    <3> QED
      BY <3>1 DEF Reported
  <2> QED
    BY <2>2, <2>3
<1>3. CASE \E g \in Goroutines : GoroutineStep(g)
  <2>1. ASSUME NEW g \in Goroutines, Hit(g) PROVE Goal
    <3>1. entry[g].findings \in AllFindings
      BY <2>1 DEF Hit, EntryInv, IsEntry, Entries
    <3> QED
      BY <2>1, <3>1, <1>2 DEF Hit
  <2>2. ASSUME NEW g \in Goroutines, Store(g) \/ StoreFails(g) PROVE Goal
    <3>1. Report(g, Fresh(g), FALSE) /\ ~ Hit(g)
      BY <2>2 DEF Store, StoreFails, Hit
    <3>2. job[g] \in Jobs /\ Hashed(g)
      BY <2>2 DEF Store, StoreFails, JobInv
    <3>3. Fresh(g) \in AllFindings
      BY <3>2, FreshFacts DEF IsReport, Reports
    <3> QED
      BY <2>2, <3>1, <3>3, <1>2
  <2> QED
    BY <1>1, <1>3, <2>1, <2>2 DEF GoroutineStep, Take, ReadEntry, HashSources,
                                  MemoHash, Stale
<1>4. ASSUME NEW dead, Die(dead) PROVE Goal
  BY <1>4 DEF Die, Reported
<1>5. CASE Environment
  BY <1>1, <1>4, <1>5 DEF Environment, Kill, PowerLoss, Edit
<1> QED
  BY <1>1, <1>3, <1>5 DEF Next, StartRun, FinishRun, AllOver, vars

-----------------------------------------------------------------------------
(***************************************************************************)
(* The invariant of warm runs, part by part.                               *)
(***************************************************************************)
LEMMA OriginStep ==
  ASSUME Quiet, CacheInv, OriginInv, [Next]_vars
  PROVE  OriginInv'
<1> USE DEF StoredBySome
<1>1. \A f, e : StoredBySome(f, e) =>
        \E o \in Runs, j \in Jobs : /\ phase'[o] # "idle"
                                    /\ f = EntryPath(policy'[o], j)
                                    /\ e.key = KeyOf(loaded'[o], j)
  BY RunsGoOn
<1>2. ASSUME NEW f \in Paths, IsStored(f)' PROVE StoredBySome(f, disk[f])'
  <2>1. CASE disk'[f] = disk[f]
    <3>1. StoredBySome(f, disk[f])
      BY <1>2, <2>1 DEF OriginInv, IsStored
    <3> QED
      BY <1>1, <2>1, <3>1
  <2>2. ASSUME NEW g \in Goroutines, Store(g), f = Path(g),
               disk'[f] = [key |-> Key(g), findings |-> Fresh(g)]
        PROVE  StoredBySome(f, disk[f])'
    <3>1. /\ Hashed(g) /\ job[g] \in Jobs /\ Run(g) \in Runs
          /\ phase[Run(g)] = "running"
      BY <2>2, RunOf DEF Store, CacheInv, JobInv
    <3>2. disk'[f].key = KeyOf(loaded[Run(g)], job[g])
      BY <2>2, <3>1, KeyOfLoaded
    <3>3. StoredBySome(f, disk'[f])
      BY <2>2, <3>1, <3>2 DEF Path
    <3> QED
      BY <1>1, <3>3
  <2> QED
    BY <1>2, <2>1, <2>2, EntriesStay
<1>3. ASSUME NEW g \in Goroutines, pc'[g] = "validate"
      PROVE  StoredBySome(Path(g), entry[g])'
  <2>1. Path(g)' = Path(g) /\ job[g] \in Jobs
    BY <1>3, WorkGoesOn, RunsGoOn DEF Path, CacheInv, JobInv
  <2>2. StoredBySome(Path(g), entry'[g])
    <3>1. CASE pc[g] = "validate" /\ entry'[g] = entry[g]
      BY <3>1 DEF OriginInv
    <3>2. CASE entry'[g] = disk[Path(g)] /\ IsStored(Path(g))
      BY <2>1, <3>2, PathIsAPath DEF OriginInv, CacheInv
    <3> QED
      BY <1>3, <3>1, <3>2, WorkGoesOn
  <2> QED
    BY <1>1, <2>1, <2>2
<1> QED
  BY <1>2, <1>3 DEF OriginInv

LEMMA PresentStep ==
  ASSUME CacheInv, PresentInv, [Next]_vars
  PROVE  PresentInv'
<1> SUFFICES ASSUME powerLosses' = 0, ~ StoresMayFail
             PROVE  /\ \A r \in Runs, j \in Jobs :
                         Reported(r, j)' => IsStored(EntryPath(policy[r], j))'
                    /\ \A g \in Goroutines :
                         pc'[g] = "validate" => IsStored(Path(g))'
  BY DEF PresentInv
<1>1. powerLosses = 0 /\ policy' = policy
  BY RunsGoOn
<1>2. ASSUME NEW f \in Paths, IsStored(f) PROVE IsStored(f)'
  <2>1. ASSUME NEW g \in Goroutines, Store(g), f = Path(g),
               disk'[f] = [key |-> Key(g), findings |-> Fresh(g)]
        PROVE  IsStored(f)'
    <3>1. job[g] \in Jobs /\ Hashed(g)
      BY <2>1 DEF Store, CacheInv, JobInv
    <3>2. disk'[f] \in Entries
      BY <2>1, <3>1, FreshFacts DEF IsEntry
    <3> QED
      BY <3>2, SpecialsAssumption DEF IsStored
  <2> QED
    BY <1>2, <2>1, EntriesStay DEF IsStored
<1>3. ASSUME NEW r \in Runs, NEW j \in Jobs, Reported(r, j)'
      PROVE  IsStored(EntryPath(policy[r], j))'
  <2> DEFINE f == EntryPath(policy[r], j)
  <2>1. f \in Paths
    BY DEF Paths, CacheInv, TypeOK
  <2>2. CASE Reported(r, j)
    <3>1. IsStored(f)
      BY <1>1, <2>2 DEF PresentInv
    <3> QED
      BY <1>1, <1>2, <2>1, <3>1 DEF IsStored
  <2>3. ASSUME NEW g \in Goroutines, Run(g) = r, job[g] = j,
               Hit(g) \/ Store(g) \/ StoreFails(g)
        PROVE  IsStored(f)'
    <3>1. Path(g) = f
      BY <2>3 DEF Path
    <3>2. CASE Hit(g)
      <4>1. IsStored(f)
        BY <1>1, <3>1, <3>2 DEF PresentInv, Hit
      <4> QED
        BY <1>1, <1>2, <2>1, <4>1 DEF IsStored
    <3>3. CASE Store(g)
      <4>1. disk'[f] = [key |-> Key(g), findings |-> Fresh(g)]
        BY <2>1, <3>1, <3>3 DEF Store, CacheInv, TypeOK
      <4>2. Hashed(g)
        BY <3>3 DEF Store
      <4>3. disk'[f] \in Entries
        BY <2>3, <4>1, <4>2, FreshFacts DEF IsEntry
      <4> QED
        BY <1>1, <4>3, SpecialsAssumption DEF IsStored
    <3> QED
      BY <2>3, <3>2, <3>3 DEF StoreFails
  <2>4. CASE ~ Reported(r, j)
    <3>1. reported'[r][j] # reported[r][j]
      BY <1>3, <2>4 DEF Reported
    <3> QED
      BY <1>3, <2>3, <3>1, ReportsStay
  <2> QED
    BY <2>2, <2>4
<1>4. ASSUME NEW g \in Goroutines, pc'[g] = "validate" PROVE IsStored(Path(g))'
  <2>1. Path(g)' = Path(g) /\ job[g] \in Jobs
    BY <1>3, <1>4, WorkGoesOn, RunsGoOn DEF Path, CacheInv, JobInv
  <2>2. Path(g) \in Paths
    BY <2>1, PathIsAPath DEF CacheInv
  <2>3. IsStored(Path(g))
    BY <1>1, <1>4, WorkGoesOn DEF PresentInv
  <2> QED
    BY <1>2, <2>1, <2>2, <2>3 DEF IsStored
<1> QED
  BY <1>1, <1>3, <1>4 DEF IsStored

LEMMA BeforeStep ==
  ASSUME CacheInv, BeforeInv, [Next]_vars
  PROVE  BeforeInv'
<1>1. ASSUME NEW r \in Runs, NEW q \in before'[r]
      PROVE  phase'[q] = "finished" /\ phase'[r] # "idle"
  <2>1. CASE before'[r] = before[r]
    <3>1. q \in Runs /\ phase[q] = "finished" /\ phase[r] # "idle"
      BY <1>1, <2>1 DEF BeforeInv, CacheInv, TypeOK
    <3> QED
      BY <3>1, RunsGoOn
  <2>2. CASE StartRun(r)
    BY <1>1, <2>2 DEF StartRun, CacheInv, TypeOK
  <2> QED
    BY <2>1, <2>2, RunsGoOn
<1> QED
  BY <1>1 DEF BeforeInv

LEMMA AccountStep ==
  ASSUME CacheInv, AccountInv, [Next]_vars
  PROVE  AccountInv'
<1> DEFINE Good(r) ==
             /\ phase'[r] = "running" => \A j \in Jobs :
                  j \in pending'[r] \/ InHand(r, j)' \/ Reported(r, j)'
             /\ phase'[r] = "finished" => \A j \in Jobs : Reported(r, j)'
<1> USE DEF CacheInv, TypeOK
<1>1. \A r \in Runs, j \in Jobs :
        Reported(r, j) /\ phase'[r] # "killed" => Reported(r, j)'
  BY ReportsStay
<1>2. ASSUME UNCHANGED <<phase, pending, pc, job>> PROVE \A r \in Runs : Good(r)
  BY <1>1, <1>2 DEF AccountInv, InHand
<1>3. ASSUME NEW o \in Runs, StartRun(o) PROVE \A r \in Runs : Good(r)
  <2>1. UNCHANGED <<pc, job>> /\ pending'[o] = Jobs /\ phase'[o] = "running"
    BY <1>3 DEF StartRun
  <2>2. \A q \in Runs \ {o} : phase'[q] = phase[q] /\ pending'[q] = pending[q]
    BY <1>3 DEF StartRun
  <2>3. ASSUME NEW r \in Runs PROVE Good(r)
    <3>1. CASE r = o
      BY <2>1, <3>1
    <3>2. CASE r # o
      <4>1. \A j \in Jobs : InHand(r, j)' <=> InHand(r, j)
        BY <2>1 DEF InHand
      <4>2. phase'[r] = phase[r] /\ pending'[r] = pending[r]
        BY <2>2, <3>2
      <4>3. phase'[r] # "killed" =>
              \A j \in Jobs : Reported(r, j) => Reported(r, j)'
        BY <1>1
      <4> QED
        BY <4>1, <4>2, <4>3 DEF AccountInv
    <3> QED
      BY <3>1, <3>2
  <2> QED
    BY <2>3
<1>4. ASSUME NEW g \in Goroutines, NEW j \in Jobs, Take(g, j) PROVE \A r \in Runs : Good(r)
  <2>1. UNCHANGED <<phase, reported>> /\ pc[g] = "idle"
          /\ pc'[g] = "load" /\ job'[g] = j
    BY <1>4 DEF Take, runVars
  <2>2. \A h \in Goroutines \ {g} : pc'[h] = pc[h] /\ job'[h] = job[h]
    BY <1>4 DEF Take
  <2>3. \A r \in Runs : \A k \in pending[r] : 
          k \in pending'[r] \/ (r = Run(g) /\ k = j)
    BY <1>4 DEF Take
  <2>4. \A r \in Runs, k \in Jobs : InHand(r, k) => InHand(r, k)'
    BY <2>1, <2>2 DEF InHand
  <2>5. InHand(Run(g), j)'
    BY <2>1 DEF InHand
  <2> QED
    <3>1. ASSUME NEW r \in Runs PROVE Good(r)
      <4>1. phase'[r] = "finished" => \A k \in Jobs : Reported(r, k)'
        BY <1>1, <2>1 DEF AccountInv
      <4>2. ASSUME phase'[r] = "running", NEW k \in Jobs
            PROVE  k \in pending'[r] \/ InHand(r, k)' \/ Reported(r, k)'
        <5>1. k \in pending[r] \/ InHand(r, k) \/ Reported(r, k)
          BY <2>1, <4>2 DEF AccountInv
        <5>2. Reported(r, k) => Reported(r, k)'
          BY <1>1, <4>2
        <5>3. r = Run(g) /\ k = j => InHand(r, k)'
          BY <2>5
        <5> QED
          BY <2>3, <2>4, <5>1, <5>2, <5>3
      <4> QED
        BY <4>1, <4>2
    <3> QED
      BY <3>1
<1>5. ASSUME NEW g \in Goroutines, ReadEntry(g) \/ Stale(g) PROVE \A r \in Runs : Good(r)
  <2>1. UNCHANGED <<phase, reported, pending, job>> /\ pc'[g] # "idle"
          /\ \A h \in Goroutines \ {g} : pc'[h] = pc[h]
    BY <1>5 DEF ReadEntry, Stale, runVars
  <2>2. \A r \in Runs, k \in Jobs : InHand(r, k) => InHand(r, k)'
    BY <2>1 DEF InHand
  <2> QED
    BY <1>1, <2>1, <2>2 DEF AccountInv
<1>6. ASSUME NEW g \in Goroutines, Hit(g) \/ Store(g) \/ StoreFails(g)
      PROVE  \A r \in Runs : Good(r)
  <2>1. /\ UNCHANGED <<phase, pending>>
        /\ \A h \in Goroutines \ {g} : pc'[h] = pc[h] /\ job'[h] = job[h]
    BY <1>6 DEF Hit, Store, StoreFails, Report, runVars
  <2>2. \A r \in Runs, k \in Jobs :
          r = Run(g) /\ k = job[g] => Reported(r, k)'
    <3>1. reported'[Run(g)][job[g]] \in Reports
      BY <1>6, Answered
    <3> QED
      BY <3>1, SpecialsAssumption DEF Reported
  <2>3. \A r \in Runs, k \in Jobs :
          InHand(r, k) => InHand(r, k)' \/ (r = Run(g) /\ k = job[g])
    BY <2>1 DEF InHand
  <2>4. \A r \in Runs : phase'[r] = phase[r] /\ pending'[r] = pending[r]
    BY <2>1
  <2>5. ASSUME NEW r \in Runs PROVE Good(r)
    <3>1. ASSUME NEW k \in Jobs, Reported(r, k), phase'[r] # "killed"
          PROVE  Reported(r, k)'
      BY <1>1, <3>1
    <3>2. phase'[r] = "finished" => \A k \in Jobs : Reported(r, k)'
      BY <2>4, <3>1 DEF AccountInv
    <3>3. ASSUME phase'[r] = "running", NEW k \in Jobs
          PROVE  k \in pending'[r] \/ InHand(r, k)' \/ Reported(r, k)'
      <4>1. k \in pending[r] \/ InHand(r, k) \/ Reported(r, k)
        BY <2>4, <3>3 DEF AccountInv
      <4>1a. r = Run(g) /\ k = job[g] => Reported(r, k)'
        BY <2>2
      <4>2. CASE k \in pending[r]
        BY <2>4, <4>2
      <4>3. CASE InHand(r, k)
        BY <2>3, <4>1a, <4>3
      <4>4. CASE Reported(r, k)
        BY <3>1, <3>3, <4>4
      <4> QED
        BY <4>1, <4>2, <4>3, <4>4
    <3> QED
      BY <3>2, <3>3
  <2> QED
    BY <2>5
<1>7. ASSUME NEW o \in Runs, FinishRun(o) PROVE \A r \in Runs : Good(r)
  <2>1. UNCHANGED <<pending, pc, job>> /\ phase'[o] = "finished"
          /\ phase[o] = "running" /\ pending[o] = {}
    BY <1>7 DEF FinishRun
  <2>2. \A q \in Runs \ {o} : phase'[q] = phase[q]
    BY <1>7 DEF FinishRun
  <2>3. \A j \in Jobs : ~ InHand(o, j)
    BY <1>7 DEF FinishRun, InHand, Goroutines, Run
  <2>4. \A j \in Jobs : Reported(o, j)
    BY <2>1, <2>3 DEF AccountInv
  <2>5. ASSUME NEW r \in Runs PROVE Good(r)
    <3>1. CASE r = o
      BY <1>1, <2>1, <2>4, <3>1
    <3>2. CASE r # o
      BY <1>1, <2>1, <2>2, <3>2 DEF AccountInv, InHand
    <3> QED
      BY <3>1, <3>2
  <2> QED
    BY <2>5
<1>8. ASSUME NEW dead, Die(dead) PROVE \A r \in Runs : Good(r)
  <2>1. ASSUME NEW r \in Runs, phase'[r] # "killed"
        PROVE  /\ phase'[r] = phase[r] /\ pending'[r] = pending[r]
               /\ reported'[r] = reported[r]
               /\ \A j \in Jobs : InHand(r, j) => InHand(r, j)'
    <3>1. r \notin dead
      BY <1>8, <2>1 DEF Die
    <3>2. \A g \in Goroutines : Run(g) = r => pc'[g] = pc[g] /\ job'[g] = job[g]
      BY <1>8, <3>1 DEF Die
    <3> QED
      BY <1>8, <3>1, <3>2 DEF Die, InHand
  <2> QED
    BY <2>1 DEF AccountInv, Reported
<1>9. \A r \in Runs : Good(r)
  <2> HIDE DEF Good, CacheInv, TypeOK
  <2>1. CASE \E g \in Goroutines : GoroutineStep(g)
    <3>1. ASSUME NEW g \in Goroutines, HashSources(g) \/ MemoHash(g)
          PROVE  UNCHANGED <<phase, pending, pc, job>>
      BY <3>1 DEF HashSources, MemoHash, runVars
    <3> QED
      BY <1>2, <1>4, <1>5, <1>6, <2>1, <3>1 DEF GoroutineStep
  <2>2. CASE Environment
    <3>1. ASSUME NEW c, NEW p, NEW content, Edit(c, p, content)
          PROVE  UNCHANGED <<phase, pending, pc, job>>
      BY <3>1 DEF Edit, runVars
    <3>2. ASSUME (\E r \in Runs : Kill(r)) \/ PowerLoss
          PROVE  \E dead : Die(dead)
      BY <3>2 DEF Kill, PowerLoss
    <3> QED
      BY <1>2, <1>8, <2>2, <3>1, <3>2 DEF Environment
  <2>3. CASE UNCHANGED vars
    BY <1>2, <2>3 DEF vars
  <2> QED
    BY <1>3, <1>7, <2>1, <2>2, <2>3 DEF Next, AllOver
<1> QED
  BY <1>9 DEF AccountInv

LEMMA WarmStep ==
  ASSUME Quiet, OwnFiles, CacheInv, WarmInv, [Next]_vars
  PROVE  HitInv'
<1> SUFFICES ASSUME NEW r \in Runs, NEW q \in before'[r], Undisturbed(q, r)'
             PROVE  /\ \A g \in Goroutines : Run(g) = r => pc'[g] # "store"
                    /\ \A j \in Jobs :
                         Reported(r, j)' => reported'[r][j].hit = TRUE
  BY DEF HitInv
<1> USE DEF CacheInv, TypeOK
<1>1. CASE StartRun(r)
  <2>1. UNCHANGED <<pc, reported>> /\ phase[r] = "idle"
    BY <1>1 DEF StartRun
  <2> QED
    BY <2>1 DEF JobInv, ReportInv, Reported
<1>2. CASE before'[r] = before[r]
  <2>1. q \in before[r] /\ q \in Runs /\ phase[q] = "finished" /\ phase[r] # "idle"
    BY <1>2 DEF WarmInv, BeforeInv
  <2>2. Undisturbed(q, r)
    BY <2>1, RunsGoOn DEF Undisturbed
  <2>3. \A f, e : StoredBySome(f, e) => \A j \in Jobs :
          f = EntryPath(policy[r], j) => e.key = KeyOf(loaded[r], j)
    <3> SUFFICES ASSUME NEW f, NEW e, StoredBySome(f, e),
                        NEW j \in Jobs, f = EntryPath(policy[r], j)
                 PROVE  e.key = KeyOf(loaded[r], j)
      OBVIOUS
    <3>1. PICK o \in Runs, k \in Jobs :
            /\ phase[o] # "idle"
            /\ f = EntryPath(policy[o], k)
            /\ e.key = KeyOf(loaded[o], k)
      BY DEF StoredBySome
    <3>2. k = j
      BY <3>1, OnePathOneJob
    <3>3. loaded[o] = loaded[r]
      BY <2>2, <3>1 DEF Undisturbed
    <3> QED
      BY <3>1, <3>2, <3>3
  <2>4. ASSUME NEW g \in Goroutines, Run(g) = r PROVE pc'[g] # "store"
    <3>1. pc[g] # "store"
      BY <2>1, <2>2, <2>4 DEF WarmInv, HitInv
    <3>2. ~ Stale(g)
      <4> SUFFICES ASSUME Stale(g) PROVE FALSE
        OBVIOUS
      <4>1. pc[g] = "validate" /\ Hashed(g) /\ job[g] \in Jobs
        BY DEF Stale, JobInv
      <4>2. StoredBySome(Path(g), entry[g])
        BY <4>1 DEF WarmInv, OriginInv
      <4>3. entry[g].key = KeyOf(loaded[r], job[g])
        BY <2>3, <2>4, <4>1, <4>2 DEF Path
      <4>4. Key(g) = KeyOf(loaded[r], job[g])
        BY <2>4, <4>1, KeyOfLoaded
      <4> QED
        BY <4>3, <4>4 DEF Stale
    <3>3. pc[g] = "load" => IsStored(Path(g))
      <4> SUFFICES ASSUME pc[g] = "load" PROVE IsStored(Path(g))
        OBVIOUS
      <4>1. job[g] \in Jobs
        BY DEF JobInv
      <4>2. Reported(q, job[g])
        BY <2>1, <4>1 DEF WarmInv, AccountInv
      <4>3. IsStored(EntryPath(policy[q], job[g]))
        BY <2>1, <2>2, <4>1, <4>2 DEF WarmInv, PresentInv, Undisturbed
      <4> QED
        BY <2>2, <2>4, <4>3 DEF Path, Undisturbed
    <3> QED
      BY <3>1, <3>2, <3>3, WorkGoesOn
  <2>5. ASSUME NEW j \in Jobs, Reported(r, j)' PROVE reported'[r][j].hit = TRUE
    <3>1. CASE reported'[r][j] = reported[r][j]
      BY <2>1, <2>2, <2>5, <3>1 DEF WarmInv, HitInv, Reported
    <3>2. ASSUME NEW g \in Goroutines, Run(g) = r PROVE ~ Store(g) /\ ~ StoreFails(g)
      BY <2>1, <2>2, <3>2 DEF WarmInv, HitInv, Store, StoreFails
    <3> QED
      BY <2>5, <3>1, <3>2, ReportsStay
  <2> QED
    BY <2>4, <2>5
<1> QED
  BY <1>1, <1>2, RunsGoOn

(* The sources stand still during runs and packages have files of their    *)
(* own: every entry is of a run that stored it for what it had loaded, a   *)
(* finished run has reported, and left an entry for, every job.            *)
THEOREM WarmInvariance ==
  ASSUME Quiet, OwnFiles PROVE Spec => []WarmInv
<1>1. Init => WarmInv
  <2> SUFFICES ASSUME Init PROVE WarmInv
    OBVIOUS
  <2> QED
    BY DEF Init, WarmInv, OriginInv, PresentInv, AccountInv, BeforeInv, HitInv,
           IsStored, Reported
<1>2. CacheInv /\ WarmInv /\ [Next]_vars => WarmInv'
  BY OriginStep, PresentStep, AccountStep, BeforeStep, WarmStep DEF WarmInv
<1> QED
  BY <1>1, <1>2, CacheInvariance, PTL DEF Spec

(* When a run finished and nothing changed, was lost or written by others, *)
(* the next one of its policy finds every job in the cache: whatever order *)
(* the goroutines take, whoever is killed and however runs overlap, as     *)
(* long as no edit falls into a run (cache.go:65-139, 145-151).            *)
THEOREM WarmRunsHit ==
  ASSUME Quiet, OwnFiles PROVE Spec => []WarmRunHits
<1>1. CacheInv /\ WarmInv => WarmRunHits
  BY DEF CacheInv, TypeOK, WarmInv, HitInv, Undisturbed, WarmRunHits
<1> QED
  BY <1>1, CacheInvariance, WarmInvariance, PTL
=============================================================================
