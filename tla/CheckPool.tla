----------------------------- MODULE CheckPool ------------------------------
(***************************************************************************)
(* One run of RunPlan (src/internal/analyzer/run.go): the pool of          *)
(* goroutines that executes the package-scoped jobs, the collector that    *)
(* gathers their findings, and the sequential program-scoped groups that   *)
(* follow, with the statistics both phases write.                          *)
(*                                                                         *)
(* A job stands for the findings it produces: `all' says how often those   *)
(* of each job were appended, for sortIssues later erases the order.       *)
(* Whether the cache has an entry is an input here; PackageCache models    *)
(* what makes the answer right.  A message on resultCh names its sender,   *)
(* which the code's jobResult does not: no action reads it, invariants do. *)
(***************************************************************************)
EXTENDS Naturals, Sequences, FiniteSets

CONSTANTS
  PackageGroups,  \* package-scoped runner groups of the plan, in plan order
  ProgramGroups,  \* program-scoped runner groups of the plan, in plan order
  NumPackages,    \* packages left after the file policy
  MaxProcs        \* runtime.GOMAXPROCS(0)

Names == {PackageGroups[i] : i \in DOMAIN PackageGroups}
           \cup {ProgramGroups[i] : i \in DOMAIN ProgramGroups}

(* NewExecutionPlan keeps one group per runner-group name.                 *)
ASSUME GroupsAssumption ==
  /\ PackageGroups \in Seq(Names) /\ ProgramGroups \in Seq(Names)
  /\ \A i, k \in DOMAIN ProgramGroups :
       ProgramGroups[i] = ProgramGroups[k] => i = k
  /\ \A i \in DOMAIN PackageGroups, k \in DOMAIN ProgramGroups :
       PackageGroups[i] # ProgramGroups[k]
ASSUME SizesAssumption == NumPackages \in Nat /\ MaxProcs \in Nat \ {0}

(***************************************************************************)
(* The jobs, group by group and package by package in each group.          *)
(***************************************************************************)
NumJobs == Len(PackageGroups) * NumPackages
JobIds == 1..NumJobs
JobGroup(j) == PackageGroups[((j - 1) \div NumPackages) + 1]
NoJob == 0

NumWorkers == IF MaxProcs > NumJobs THEN NumJobs ELSE MaxProcs
Workers == 1..NumWorkers

VARIABLES
  cacheUsed,    \* cache # nil in this run
  next,         \* next job the feeder goroutine will send
  closed,       \* jobCh is closed
  pc,           \* program counter of each worker goroutine
  job,          \* the job in a worker's hands
  hit,          \* the worker's cache.load answered from the cache
  resultCh,     \* buffered channel of results, capacity NumWorkers
  all,          \* how often the collector appended each job's findings
  finished,     \* done messages the collector has counted
  stats,        \* runStats.groups
  stage,        \* which part of RunPlan the main goroutine is in
  nextProgram   \* next program group to run

vars == <<cacheUsed, next, closed, pc, job, hit, resultCh, all, finished,
          stats, stage, nextProgram>>
poolVars == <<next, closed, pc, job, hit, resultCh, all, finished>>

Result(w, j) == [from |-> w, job |-> j]
Done(w) == [from |-> w, job |-> NoJob]
ZeroStats == [executions |-> 0, hits |-> 0, misses |-> 0]

Init ==
  /\ cacheUsed \in BOOLEAN
  /\ next = 1
  /\ closed = FALSE
  /\ pc = [w \in Workers |-> "receive"]
  /\ job = [w \in Workers |-> NoJob]
  /\ hit = [w \in Workers |-> FALSE]
  /\ resultCh = <<>>
  /\ all = [j \in JobIds |-> 0]
  /\ finished = 0
  /\ stats = [g \in Names |-> ZeroStats]
  /\ stage = "package"
  /\ nextProgram = 1

-----------------------------------------------------------------------------
(***************************************************************************)
(* Faults.  No action uses them: each is a definition below with a bug     *)
(* that a change to run.go or stats.go could introduce, and shows that     *)
(* some property would notice.                                             *)
(***************************************************************************)
ExecutionCountedOnHits(s, isHit) ==      \* `if !cacheHit' dropped
  [executions |-> s.executions + 1,
   hits |-> IF cacheUsed /\ isHit THEN s.hits + 1 ELSE s.hits,
   misses |-> IF cacheUsed /\ ~isHit THEN s.misses + 1 ELSE s.misses]

FeedPastTheEnd(w) ==                     \* i <= len(jobs)
  /\ next <= NumJobs + 1
  /\ pc[w] = "receive"
  /\ job' = [job EXCEPT ![w] = next]
  /\ pc' = [pc EXCEPT ![w] = "load"]
  /\ next' = next + 1
  /\ UNCHANGED <<cacheUsed, closed, hit, resultCh, all, finished, stats,
                 stage, nextProgram>>

ReloadAfterStoring(w) ==                 \* takes its result from the cache
  /\ pc[w] = "analyse"
  /\ pc' = [pc EXCEPT ![w] = "load"]
  /\ UNCHANGED <<cacheUsed, next, closed, job, hit, resultCh, all, finished,
                 stats, stage, nextProgram>>

ReturnAtFirstDone ==                     \* the loop breaks on any done
  /\ stage = "package"
  /\ finished > 0
  /\ stage' = "program"
  /\ UNCHANGED <<cacheUsed, poolVars, stats, nextProgram>>

ReturnAtLastResult ==                    \* counts results, not done messages
  /\ stage = "package"
  /\ \A j \in JobIds : all[j] = 1
  /\ stage' = "program"
  /\ UNCHANGED <<cacheUsed, poolVars, stats, nextProgram>>

ReturnBeforeProgramGroups ==             \* program findings are not awaited
  /\ stage = "program"
  /\ stage' = "returned"
  /\ UNCHANGED <<cacheUsed, poolVars, stats, nextProgram>>

-----------------------------------------------------------------------------
(* runStats.execution: one atomic update under the mutex.                  *)
Counted(s, isHit) ==
  [executions |-> IF isHit THEN s.executions ELSE s.executions + 1,
   hits |-> IF cacheUsed /\ isHit THEN s.hits + 1 ELSE s.hits,
   misses |-> IF cacheUsed /\ ~isHit THEN s.misses + 1 ELSE s.misses]

(* The feeder hands the next job to a worker that waits on jobCh, which is *)
(* unbuffered: sending and receiving are one step.                         *)
Feed(w) ==
  /\ next \in JobIds
  /\ pc[w] = "receive"
  /\ job' = [job EXCEPT ![w] = next]
  /\ pc' = [pc EXCEPT ![w] = "load"]
  /\ next' = next + 1
  /\ UNCHANGED <<cacheUsed, closed, hit, resultCh, all, finished, stats,
                 stage, nextProgram>>

CloseJobs ==
  /\ NumJobs > 0      \* with no jobs no goroutine is ever started
  /\ next = NumJobs + 1
  /\ ~closed
  /\ closed' = TRUE
  /\ UNCHANGED <<cacheUsed, next, pc, job, hit, resultCh, all, finished,
                 stats, stage, nextProgram>>

(* cache.load: with a nil cache it always misses.                          *)
Load(w) ==
  /\ pc[w] = "load"
  /\ \E isHit \in {h \in BOOLEAN : h => cacheUsed} :
       /\ hit' = [hit EXCEPT ![w] = isHit]
       /\ pc' = [pc EXCEPT ![w] = IF isHit THEN "count" ELSE "analyse"]
  /\ UNCHANGED <<cacheUsed, next, closed, job, resultCh, all, finished,
                 stats, stage, nextProgram>>

(* RunPackage, filterGroupIssues and cache.store, all on the worker's own  *)
(* data as far as this module can see.                                     *)
RunPackage(w) ==
  /\ pc[w] = "analyse"
  /\ pc' = [pc EXCEPT ![w] = "count"]
  /\ UNCHANGED <<cacheUsed, next, closed, job, hit, resultCh, all, finished,
                 stats, stage, nextProgram>>

CountExecution(w) ==
  /\ pc[w] = "count"
  /\ stats' = [stats EXCEPT ![JobGroup(job[w])] = Counted(@, hit[w])]
  /\ pc' = [pc EXCEPT ![w] = "send"]
  /\ UNCHANGED <<cacheUsed, next, closed, job, hit, resultCh, all, finished,
                 stage, nextProgram>>

SendResult(w) ==
  /\ pc[w] = "send"
  /\ Len(resultCh) < NumWorkers
  /\ resultCh' = Append(resultCh, Result(w, job[w]))
  /\ pc' = [pc EXCEPT ![w] = "receive"]
  /\ job' = [job EXCEPT ![w] = NoJob]     \* out of scope from here on
  /\ hit' = [hit EXCEPT ![w] = FALSE]
  /\ UNCHANGED <<cacheUsed, next, closed, all, finished, stats, stage,
                 nextProgram>>

(* The range over jobCh ends when it is closed; the last thing a worker    *)
(* does is to report that it is done.                                      *)
SendDone(w) ==
  /\ pc[w] = "receive"
  /\ closed
  /\ Len(resultCh) < NumWorkers
  /\ resultCh' = Append(resultCh, Done(w))
  /\ pc' = [pc EXCEPT ![w] = "exited"]
  /\ UNCHANGED <<cacheUsed, next, closed, job, hit, all, finished, stats,
                 stage, nextProgram>>

(* The collector takes one message; it stops after NumWorkers done ones.   *)
Collect ==
  /\ stage = "package"
  /\ finished < NumWorkers
  /\ resultCh # <<>>
  /\ resultCh' = Tail(resultCh)
  /\ IF Head(resultCh).job = NoJob
       THEN finished' = finished + 1 /\ UNCHANGED all
       ELSE /\ all' = [all EXCEPT ![Head(resultCh).job] = @ + 1]
            /\ UNCHANGED finished
  /\ UNCHANGED <<cacheUsed, next, closed, pc, job, hit, stats, stage,
                 nextProgram>>

(* executePackageJobs returns.                                             *)
ReturnPackageIssues ==
  /\ stage = "package"
  /\ finished = NumWorkers
  /\ stage' = "program"
  /\ UNCHANGED <<cacheUsed, poolVars, stats, nextProgram>>

(* One turn of the loop of runProgramScopedChecks.                         *)
RunProgramGroup ==
  /\ stage = "program"
  /\ nextProgram \in DOMAIN ProgramGroups
  /\ \E isHit \in {h \in BOOLEAN : h => cacheUsed} :
       stats' = [stats EXCEPT ![ProgramGroups[nextProgram]] =
                   Counted(@, isHit)]
  /\ nextProgram' = nextProgram + 1
  /\ UNCHANGED <<cacheUsed, poolVars, stage>>

(* The rest of RunPlan is sequential: it snapshots the stats and returns.  *)
ReturnIssues ==
  /\ stage = "program"
  /\ nextProgram = Len(ProgramGroups) + 1
  /\ stage' = "returned"
  /\ UNCHANGED <<cacheUsed, poolVars, stats, nextProgram>>

(* A run that has returned does nothing more; without this step the end of *)
(* every run would look like a deadlock.                                   *)
Returned == stage = "returned" /\ UNCHANGED vars

WorkerStep(w) == \/ Load(w) \/ RunPackage(w) \/ CountExecution(w)
                 \/ SendResult(w) \/ SendDone(w)
Feeder == CloseJobs \/ \E w \in Workers : Feed(w)
Main == Collect \/ ReturnPackageIssues \/ RunProgramGroup \/ ReturnIssues

Next == Feeder \/ Main \/ Returned \/ \E w \in Workers : WorkerStep(w)

Spec == Init /\ [][Next]_vars

(* The Go scheduler runs every runnable goroutine again, and checks halt.  *)
Fairness == WF_vars(Feeder) /\ WF_vars(Main)
              /\ \A w \in Workers : WF_vars(WorkerStep(w))
FairSpec == Spec /\ Fairness

-----------------------------------------------------------------------------
PCs == {"receive", "load", "analyse", "count", "send", "exited"}
GroupStats == [executions : Nat, hits : Nat, misses : Nat]

(* The values every variable ranges over.                                  *)
TypeOK ==
  /\ cacheUsed \in BOOLEAN
  /\ next \in 1..(NumJobs + 1)
  /\ closed \in BOOLEAN
  /\ pc \in [Workers -> PCs]
  /\ job \in [Workers -> JobIds \cup {NoJob}]
  /\ hit \in [Workers -> BOOLEAN]
  /\ resultCh \in Seq([from : Workers, job : JobIds \cup {NoJob}])
  /\ all \in [JobIds -> Nat]
  /\ finished \in Nat
  /\ stats \in [Names -> GroupStats]
  /\ stage \in {"package", "program", "returned"}
  /\ nextProgram \in 1..(Len(ProgramGroups) + 1)

Busy(w) == pc[w] \in {"load", "analyse", "count", "send"}

(* Once the main goroutine has left executePackageJobs, the findings of    *)
(* every package job were gathered, each exactly once (run.go:327-335).    *)
EveryJobGatheredOnce ==
  stage # "package" => \A j \in JobIds : all[j] = 1

(* Counting done messages is enough to know the pool is quiet: when the    *)
(* collector stops, no goroutine it leaves behind can still write stats or *)
(* cache entries, send a result or wait for a job (run.go:326-334).        *)
PoolQuietAfterReturn ==
  stage # "package" =>
    /\ resultCh = <<>>
    /\ \A w \in Workers : pc[w] = "exited"

(* The statistics a run reports account for all of its work: a group has   *)
(* one hit or one execution per package (one for a program group), and     *)
(* hits and misses only in a run that has a cache (stats.go:71-91).        *)
WorkOf(g) == Cardinality({j \in JobIds : JobGroup(j) = g})
               + Cardinality({k \in DOMAIN ProgramGroups : ProgramGroups[k] = g})
StatsAccountForAllWork ==
  stage = "returned" =>
    \A g \in Names :
      /\ stats[g].executions + stats[g].hits = WorkOf(g)
      /\ stats[g].misses = IF cacheUsed THEN stats[g].executions ELSE 0

(* Every run returns.                                                      *)
RunReturns == <>(stage = "returned")

-----------------------------------------------------------------------------
(* CheckPool implements Worklist: a unit of work is in the report when the *)
(* collector appended its findings.                                        *)
Gathered == {j \in JobIds : all[j] > 0}
ProgramUnit(k) == NumJobs + k
Units == JobIds \cup {ProgramUnit(k) : k \in DOMAIN ProgramGroups}
Reported == Gathered \cup {ProgramUnit(k) : k \in 1..(nextProgram - 1)}

Promise == INSTANCE Worklist WITH
             left <- Units \ Reported,
             report <- Reported,
             handedOut <- stage = "returned"

(* The pool refines the abstract run: whatever the interleaving, each unit *)
(* enters the report in one step and the report leaves only when complete. *)
ImplementsWorklist == Promise!Spec
=============================================================================
