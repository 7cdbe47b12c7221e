-------------------------- MODULE CheckPool_proofs --------------------------
EXTENDS CheckPool, FiniteSetTheorems, TLAPS

LEMMA AppendFacts ==
  ASSUME NEW S, NEW s \in Seq(S), NEW e \in S
  PROVE  /\ Append(s, e) \in Seq(S)
         /\ Len(Append(s, e)) = Len(s) + 1
         /\ \A i \in 1..Len(s) : Append(s, e)[i] = s[i]
         /\ Append(s, e)[Len(s) + 1] = e
         /\ DOMAIN Append(s, e) = 1..(Len(s) + 1)
         /\ DOMAIN s = 1..Len(s)
  OBVIOUS

LEMMA TailFacts ==
  ASSUME NEW S, NEW s \in Seq(S), s # <<>>
  PROVE  /\ Tail(s) \in Seq(S)
         /\ Len(s) \in Nat \ {0}
         /\ Len(Tail(s)) = Len(s) - 1
         /\ \A i \in 1..(Len(s) - 1) : Tail(s)[i] = s[i + 1]
         /\ DOMAIN Tail(s) = 1..(Len(s) - 1)
         /\ DOMAIN s = 1..Len(s)
         /\ Head(s) = s[1]
         /\ Head(s) \in S
  OBVIOUS

LEMMA JobsAreWellFormed ==
  /\ NumJobs \in Nat
  /\ NumWorkers \in Nat
  /\ \A j \in JobIds : JobGroup(j) \in Names
  /\ NumWorkers = 0 => NumJobs = 0
<1>1. NumJobs \in Nat
  BY GroupsAssumption, SizesAssumption DEF NumJobs
<1>2. NumWorkers \in Nat /\ (NumWorkers = 0 => NumJobs = 0)
  BY <1>1, SizesAssumption DEF NumWorkers
<1>3. ASSUME NEW j \in JobIds PROVE JobGroup(j) \in Names
  <2> DEFINE L == Len(PackageGroups)
             q == (j - 1) \div NumPackages
  <2>1. L \in Nat /\ j \in Nat /\ 1 <= j /\ j - 1 < L * NumPackages
    BY <1>1, <1>3, GroupsAssumption DEF JobIds, NumJobs
  <2>2. NumPackages \in Nat /\ NumPackages > 0
    BY <2>1, SizesAssumption
  <2>3. q \in Nat /\ q < L
    BY <2>1, <2>2, Z3
  <2> QED
    BY <2>3, GroupsAssumption DEF JobGroup, Names
<1> QED
  BY <1>1, <1>2, <1>3

-----------------------------------------------------------------------------
(***************************************************************************)
(* The inductive invariant.  Every fed job is in exactly one place: in the *)
(* hands of one worker, in the channel, or gathered; and the done message  *)
(* of a worker is the last one it sends.                                   *)
(***************************************************************************)
DoneSeen == {w \in Workers : /\ pc[w] = "exited"
                             /\ \A i \in DOMAIN resultCh : resultCh[i] # Done(w)}

HandsInv ==
  /\ \A w \in Workers : Busy(w) => job[w] \in JobIds /\ job[w] < next
  /\ \A w \in Workers : ~Busy(w) => job[w] = NoJob
  /\ \A v, w \in Workers : job[v] = job[w] /\ job[v] # NoJob => v = w
  /\ \A w \in Workers : hit[w] => cacheUsed

ChannelInv ==
  /\ \A i \in DOMAIN resultCh : resultCh[i].job # NoJob =>
       /\ resultCh[i].job < next
       /\ all[resultCh[i].job] = 0
       /\ \A w \in Workers : job[w] # resultCh[i].job
  /\ \A i, k \in DOMAIN resultCh :
       resultCh[i].job = resultCh[k].job /\ resultCh[i].job # NoJob => i = k

GatheredInv ==
  \A j \in JobIds :
    /\ all[j] \in {0, 1}
    /\ all[j] = 1 => j < next /\ \A w \in Workers : job[w] # j
    /\ j < next => \/ all[j] = 1
                   \/ \E w \in Workers : job[w] = j
                   \/ \E i \in DOMAIN resultCh : resultCh[i].job = j

DoneInv ==
  /\ \A i \in DOMAIN resultCh :
       resultCh[i].job = NoJob => pc[resultCh[i].from] = "exited"
  /\ \A i, k \in DOMAIN resultCh :
       i < k /\ resultCh[i].job = NoJob => resultCh[k].from # resultCh[i].from
  /\ \A i \in DOMAIN resultCh :
       pc[resultCh[i].from] = "exited" /\ resultCh[i].job # NoJob =>
         \E k \in DOMAIN resultCh :
           i < k /\ resultCh[k] = Done(resultCh[i].from)
  /\ finished = Cardinality(DoneSeen)

StageInv ==
  /\ closed => next = NumJobs + 1
  /\ \A w \in Workers : pc[w] = "exited" => closed
  /\ stage # "package" => finished = NumWorkers
  /\ stage = "package" => nextProgram = 1
  /\ stage = "returned" => nextProgram = Len(ProgramGroups) + 1

CountedJobs(g) ==
  {j \in JobIds : /\ JobGroup(j) = g
                  /\ j < next
                  /\ \A w \in Workers : pc[w] \in {"load", "analyse", "count"}
                                          => job[w] # j}
RunGroups(g) == {k \in DOMAIN ProgramGroups :
                   k < nextProgram /\ ProgramGroups[k] = g}

StatsInv ==
  \A g \in Names :
    /\ stats[g].executions + stats[g].hits =
         Cardinality(CountedJobs(g)) + Cardinality(RunGroups(g))
    /\ stats[g].misses = IF cacheUsed THEN stats[g].executions ELSE 0
    /\ ~cacheUsed => stats[g].hits = 0

PoolInv == TypeOK /\ HandsInv /\ ChannelInv /\ GatheredInv /\ DoneInv
             /\ StageInv
IInv == PoolInv /\ StatsInv

Messages == [from : Workers, job : JobIds \cup {NoJob}]

LEMMA ChannelElements ==
  ASSUME TypeOK
  PROVE  /\ resultCh \in Seq(Messages)
         /\ Len(resultCh) \in Nat
         /\ DOMAIN resultCh = 1..Len(resultCh)
         /\ \A i \in DOMAIN resultCh :
              /\ resultCh[i] \in Messages
              /\ resultCh[i].from \in Workers
              /\ resultCh[i].job \in JobIds \cup {NoJob}
<1>1. resultCh \in Seq(Messages)
  BY DEF TypeOK, Messages
<1>2. \A i \in DOMAIN resultCh : resultCh[i] \in Messages
  BY <1>1
<1> QED
  BY <1>1, <1>2 DEF Messages

-----------------------------------------------------------------------------
(* The initial states satisfy the invariant.                               *)
LEMMA InitPool == Init => PoolInv
<1> SUFFICES ASSUME Init PROVE PoolInv
  OBVIOUS
<1> USE DEF Init
<1>1. TypeOK
  <2>1. /\ next \in 1..(NumJobs + 1)
        /\ nextProgram \in 1..(Len(ProgramGroups) + 1)
    BY JobsAreWellFormed, GroupsAssumption
  <2>2. stats \in [Names -> GroupStats]
    BY DEF GroupStats, ZeroStats
  <2>3. /\ pc \in [Workers -> PCs]
        /\ job \in [Workers -> JobIds \cup {NoJob}]
        /\ hit \in [Workers -> BOOLEAN]
        /\ all \in [JobIds -> Nat]
    BY DEF PCs
  <2>4. resultCh \in Seq(Messages)
    OBVIOUS
  <2> QED
    BY <2>1, <2>2, <2>3, <2>4 DEF TypeOK, Messages
<1>2. HandsInv /\ ChannelInv
  BY DEF HandsInv, ChannelInv, Busy
<1>3. GatheredInv
  BY DEF GatheredInv, JobIds
<1>4. DoneInv
  <2>1. DoneSeen = {}
    BY DEF DoneSeen
  <2> QED
    BY <2>1, FS_EmptySet DEF DoneInv
<1>5. StageInv
  BY DEF StageInv
<1> QED
  BY <1>1, <1>2, <1>3, <1>4, <1>5 DEF PoolInv

LEMMA FeedKeepsPool ==
  ASSUME PoolInv, NEW w \in Workers, Feed(w)
  PROVE  PoolInv'
<1> USE DEF PoolInv, Feed
<1>0. next \in Nat /\ next \in JobIds /\ next # NoJob /\ next \in 1..NumJobs
  BY JobsAreWellFormed DEF JobIds, NoJob
<1>1. TypeOK'
  BY <1>0, JobsAreWellFormed DEF TypeOK, PCs, JobIds
<1>2. HandsInv'
  <2>1. \A v \in Workers : Busy(v) => job[v] # next
    BY <1>0 DEF HandsInv
  <2>2. \A v \in Workers : job'[v] = IF v = w THEN next ELSE job[v]
    BY DEF TypeOK
  <2>3. \A v \in Workers : pc'[v] = IF v = w THEN "load" ELSE pc[v]
    BY DEF TypeOK
  <2>4. \A v \in Workers : job[v] # next
    BY <1>0, <2>1 DEF HandsInv
  <2>5. \A j \in JobIds : j < next => j < next + 1
    BY <1>0 DEF JobIds
  <2>6. next < next + 1
    BY <1>0
  <2>7. ASSUME NEW v \in Workers
        PROVE  /\ Busy(v)' => job'[v] \in JobIds /\ job'[v] < next'
               /\ ~Busy(v)' => job'[v] = NoJob
    <3>1. CASE v = w
      BY <1>0, <2>2, <2>3, <2>6, <3>1 DEF Busy
    <3>2. CASE v # w
      BY <1>0, <2>2, <2>3, <2>5, <3>2 DEF HandsInv, Busy
    <3> QED
      BY <3>1, <3>2
  <2>8. \A u, v \in Workers : job'[u] = job'[v] /\ job'[u] # NoJob => u = v
    BY <1>0, <2>2, <2>4 DEF HandsInv
  <2> QED
    BY <2>7, <2>8 DEF HandsInv, Busy
<1>3. ChannelInv'
  <2>1. \A i \in DOMAIN resultCh : resultCh[i].job # NoJob =>
          /\ resultCh[i].job < next
          /\ resultCh[i].job \in Nat
    BY ChannelElements DEF ChannelInv, JobIds
  <2>2. \A v \in Workers : job'[v] = IF v = w THEN next ELSE job[v]
    BY DEF TypeOK
  <2>3. \A n \in Nat : n < next => n < next + 1 /\ n # next
    BY <1>0
  <2> QED
    BY <2>1, <2>2, <2>3 DEF ChannelInv
<1>4. GatheredInv'
  <2> SUFFICES ASSUME NEW j \in JobIds
      PROVE  (/\ all[j] \in {0, 1}
              /\ all[j] = 1 => j < next /\ \A v \in Workers : job[v] # j
              /\ j < next => \/ all[j] = 1
                             \/ \E v \in Workers : job[v] = j
                             \/ \E i \in DOMAIN resultCh : resultCh[i].job = j)'
    BY DEF GatheredInv
  <2>1. j \in Nat /\ (j < next + 1 <=> j < next \/ j = next) /\ ~(next < next)
    BY <1>0 DEF JobIds
  <2>2. job[w] = NoJob /\ NoJob # j /\ job \in [Workers -> JobIds \cup {NoJob}]
    BY DEF HandsInv, Busy, JobIds, NoJob, TypeOK
  <2>3. all[j] = 1 => \A v \in Workers : job'[v] # j
    BY <2>1, <2>2 DEF GatheredInv
  <2>4. (\E v \in Workers : job[v] = j) => \E v \in Workers : job'[v] = j
    BY <2>2
  <2>5. j = next => job'[w] = j
    BY <2>2
  <2> QED
    BY <2>1, <2>3, <2>4, <2>5 DEF GatheredInv
<1>5. DoneInv'
  <2>1. DoneSeen' = DoneSeen
    BY DEF DoneSeen, TypeOK
  <2> QED
    BY <2>1 DEF DoneInv, TypeOK
<1>6. StageInv'
  BY <1>0, JobsAreWellFormed DEF StageInv, TypeOK
<1> QED
  BY <1>1, <1>2, <1>3, <1>4, <1>5, <1>6

(* The steps a worker takes on its own job leave the hand-over alone.      *)
LEMMA LocalStepKeepsPool ==
  ASSUME PoolInv, NEW w \in Workers,
         Load(w) \/ RunPackage(w) \/ CountExecution(w)
  PROVE  PoolInv'
<1> USE DEF PoolInv
<1>0. /\ UNCHANGED <<cacheUsed, next, closed, job, resultCh, all, finished,
                     stage, nextProgram>>
      /\ pc[w] \in {"load", "analyse", "count"}
      /\ \E p \in {"analyse", "count", "send"} : pc' = [pc EXCEPT ![w] = p]
      /\ \/ hit' = hit
         \/ \E h \in BOOLEAN : (h => cacheUsed) /\ hit' = [hit EXCEPT ![w] = h]
  BY DEF Load, RunPackage, CountExecution
<1>1. TypeOK'
  <2>1. stats' \in [Names -> GroupStats]
    <3>1. CASE CountExecution(w)
      <4>1. JobGroup(job[w]) \in Names
        BY <3>1, JobsAreWellFormed DEF CountExecution, HandsInv, Busy
      <4> QED
        BY <3>1, <4>1 DEF CountExecution, TypeOK, Counted, GroupStats
    <3>2. CASE Load(w) \/ RunPackage(w)
      BY <3>2 DEF Load, RunPackage, TypeOK
    <3> QED
      BY <3>1, <3>2
  <2> QED
    BY <1>0, <2>1 DEF TypeOK, PCs
<1>2. HandsInv'
  BY <1>0 DEF HandsInv, TypeOK, Busy
<1>3. ChannelInv' /\ GatheredInv'
  BY <1>0 DEF ChannelInv, GatheredInv
<1>4. \A v \in Workers : pc'[v] = "exited" <=> pc[v] = "exited"
  BY <1>0 DEF TypeOK
<1>5. DoneInv'
  <2>1. DoneSeen' = DoneSeen
    BY <1>0, <1>4 DEF DoneSeen
  <2>2. \A i \in DOMAIN resultCh : resultCh[i].from \in Workers
    BY ChannelElements
  <2> QED
    BY <1>0, <1>4, <2>1, <2>2 DEF DoneInv
<1>6. StageInv'
  BY <1>0, <1>4 DEF StageInv
<1> QED
  BY <1>1, <1>2, <1>3, <1>5, <1>6

(* Sending a result moves a job from a worker's hands into the channel.    *)
LEMMA SendResultKeepsPool ==
  ASSUME PoolInv, NEW w \in Workers, SendResult(w)
  PROVE  PoolInv'
<1> USE DEF PoolInv, SendResult
<1> DEFINE n == Len(resultCh)
           m == Result(w, job[w])
<1>1. /\ job[w] \in JobIds /\ job[w] < next /\ job[w] # NoJob
      /\ m \in Messages /\ m.from = w /\ m.job = job[w]
  BY DEF HandsInv, Busy, Result, Messages, JobIds, NoJob
<1>2. /\ n \in Nat
      /\ DOMAIN resultCh = 1..n
      /\ resultCh' \in Seq(Messages)
      /\ DOMAIN resultCh' = 1..(n + 1)
      /\ \A i \in 1..n : resultCh'[i] = resultCh[i] /\ i \in DOMAIN resultCh'
      /\ resultCh'[n + 1] = m
      /\ n + 1 \in DOMAIN resultCh'
      /\ \A i \in DOMAIN resultCh' : i \in 1..n \/ i = n + 1
      /\ \A i \in 1..n : i < n + 1 /\ i # n + 1
  BY <1>1, ChannelElements, AppendFacts
<1> HIDE DEF n, m
<1>3. /\ \A v \in Workers : job'[v] = IF v = w THEN NoJob ELSE job[v]
      /\ \A v \in Workers : pc'[v] = IF v = w THEN "receive" ELSE pc[v]
      /\ pc[w] # "exited"
  BY DEF TypeOK
<1>4. TypeOK'
  <2>1. pc' \in [Workers -> PCs] /\ job' \in [Workers -> JobIds \cup {NoJob}]
          /\ hit' \in [Workers -> BOOLEAN]
    BY DEF TypeOK, PCs
  <2> QED
    BY <1>2, <2>1 DEF TypeOK, Messages
<1>5. HandsInv'
  BY <1>3 DEF HandsInv, Busy, TypeOK
<1>6. \A i \in 1..n : resultCh[i].job # NoJob => resultCh[i].job # job[w]
  BY <1>2 DEF ChannelInv
<1>7. all[job[w]] = 0
  BY <1>1 DEF GatheredInv
<1>8. ChannelInv'
  <2>1. ASSUME NEW i \in DOMAIN resultCh', resultCh'[i].job # NoJob
        PROVE  /\ resultCh'[i].job < next
               /\ all[resultCh'[i].job] = 0
               /\ \A v \in Workers : job'[v] # resultCh'[i].job
    <3>1. CASE i \in 1..n
      BY <1>2, <1>3, <2>1, <3>1 DEF ChannelInv
    <3>2. CASE i = n + 1
      BY <1>1, <1>2, <1>3, <1>7, <3>2 DEF HandsInv
    <3> QED
      BY <1>2, <3>1, <3>2
  <2>2. ASSUME NEW i \in DOMAIN resultCh', NEW k \in DOMAIN resultCh',
               resultCh'[i].job = resultCh'[k].job, resultCh'[i].job # NoJob
        PROVE  i = k
    BY <1>1, <1>2, <1>6, <2>2 DEF ChannelInv
  <2> QED
    BY <2>1, <2>2 DEF ChannelInv
<1>9. GatheredInv'
  <2> SUFFICES ASSUME NEW j \in JobIds
      PROVE  (/\ all[j] \in {0, 1}
              /\ all[j] = 1 => j < next /\ \A v \in Workers : job[v] # j
              /\ j < next => \/ all[j] = 1
                             \/ \E v \in Workers : job[v] = j
                             \/ \E i \in DOMAIN resultCh : resultCh[i].job = j)'
    BY DEF GatheredInv
  <2>0. j # NoJob
    BY DEF JobIds, NoJob
  <2>1. (\E i \in DOMAIN resultCh : resultCh[i].job = j)
          => \E i \in DOMAIN resultCh' : resultCh'[i].job = j
    BY <1>2
  <2>2. job[w] = j => \E i \in DOMAIN resultCh' : resultCh'[i].job = j
    BY <1>1, <1>2
  <2> QED
    BY <1>3, <2>0, <2>1, <2>2 DEF GatheredInv
<1>10. DoneInv'
  <2>1. DoneSeen' = DoneSeen
    <3>1. \A v \in Workers : m # Done(v)
      BY <1>1 DEF Done
    <3> QED
      BY <1>2, <1>3, <3>1 DEF DoneSeen
  <2>2. \A i \in DOMAIN resultCh' :
          resultCh'[i].job = NoJob => i \in 1..n
    BY <1>1, <1>2
  <2>3. \A i \in 1..n : resultCh[i].from \in Workers
    BY <1>2, ChannelElements
  <2>4. \A i \in DOMAIN resultCh' :
          resultCh'[i].job = NoJob => pc'[resultCh'[i].from] = "exited"
    BY <1>2, <1>3, <2>2, <2>3 DEF DoneInv
  <2>5. \A i, k \in DOMAIN resultCh' :
          i < k /\ resultCh'[i].job = NoJob
            => resultCh'[k].from # resultCh'[i].from
    BY <1>1, <1>2, <1>3, <2>2, <2>3 DEF DoneInv
  <2>6. ASSUME NEW i \in DOMAIN resultCh',
               pc'[resultCh'[i].from] = "exited", resultCh'[i].job # NoJob
        PROVE  \E k \in DOMAIN resultCh' :
                 i < k /\ resultCh'[k] = Done(resultCh'[i].from)
    <3>1. i \in 1..n
      BY <1>1, <1>2, <1>3, <2>6
    <3>2. pc[resultCh[i].from] = "exited" /\ resultCh[i].job # NoJob
      BY <1>2, <1>3, <2>3, <2>6, <3>1
    <3> QED
      BY <1>2, <3>1, <3>2 DEF DoneInv
  <2> QED
    BY <2>1, <2>4, <2>5, <2>6 DEF DoneInv
<1>11. StageInv'
  BY <1>3 DEF StageInv
<1> QED
  BY <1>4, <1>5, <1>8, <1>9, <1>10, <1>11

(* The done message is sent last, by a worker with empty hands.            *)
LEMMA SendDoneKeepsPool ==
  ASSUME PoolInv, NEW w \in Workers, SendDone(w)
  PROVE  PoolInv'
<1> USE DEF PoolInv, SendDone
<1> DEFINE n == Len(resultCh)
           m == Done(w)
<1>1. m \in Messages /\ m.from = w /\ m.job = NoJob
  BY DEF Done, Messages
<1>2. /\ n \in Nat
      /\ DOMAIN resultCh = 1..n
      /\ resultCh' \in Seq(Messages)
      /\ DOMAIN resultCh' = 1..(n + 1)
      /\ \A i \in 1..n : resultCh'[i] = resultCh[i] /\ i \in DOMAIN resultCh'
      /\ resultCh'[n + 1] = m
      /\ n + 1 \in DOMAIN resultCh'
      /\ \A i \in DOMAIN resultCh' : i \in 1..n \/ i = n + 1
      /\ \A i \in 1..n : i < n + 1 /\ i # n + 1 /\ ~(n + 1 < i)
      /\ ~(n + 1 < n + 1)
  BY <1>1, ChannelElements, AppendFacts
<1> HIDE DEF n, m
<1>3. /\ \A v \in Workers : pc'[v] = IF v = w THEN "exited" ELSE pc[v]
      /\ pc[w] = "receive"
  BY DEF TypeOK
<1>4. TypeOK'
  <2>1. pc' \in [Workers -> PCs]
    BY DEF TypeOK, PCs
  <2> QED
    BY <1>2, <2>1 DEF TypeOK, Messages
<1>5. HandsInv'
  BY <1>3 DEF HandsInv, Busy
<1>6. ChannelInv'
  BY <1>1, <1>2 DEF ChannelInv
<1>7. GatheredInv'
  <2>1. \A j \in JobIds : (\E i \in DOMAIN resultCh : resultCh[i].job = j)
          => \E i \in DOMAIN resultCh' : resultCh'[i].job = j
    BY <1>2
  <2> QED
    BY <2>1 DEF GatheredInv
<1>8. DoneInv'
  <2>1. \A i \in 1..n : resultCh[i].from \in Workers
    BY <1>2, ChannelElements
  <2>2. \A i \in 1..n : resultCh[i].job = NoJob => resultCh[i].from # w
    BY <1>2, <1>3, <2>1 DEF DoneInv
  <2>3. DoneSeen' = DoneSeen
    <3>1. \A v \in Workers : v # w => m # Done(v)
      BY <1>1 DEF Done
    <3> QED
      BY <1>2, <1>3, <3>1 DEF DoneSeen, m
  <2>4. \A i \in DOMAIN resultCh' :
          resultCh'[i].job = NoJob => pc'[resultCh'[i].from] = "exited"
    BY <1>1, <1>2, <1>3, <2>1 DEF DoneInv
  <2>5. \A i, k \in DOMAIN resultCh' :
          i < k /\ resultCh'[i].job = NoJob
            => resultCh'[k].from # resultCh'[i].from
    BY <1>1, <1>2, <2>1, <2>2 DEF DoneInv
  <2>6. ASSUME NEW i \in DOMAIN resultCh',
               pc'[resultCh'[i].from] = "exited", resultCh'[i].job # NoJob
        PROVE  \E k \in DOMAIN resultCh' :
                 i < k /\ resultCh'[k] = Done(resultCh'[i].from)
    <3>1. i \in 1..n
      BY <1>1, <1>2, <2>6
    <3>2. CASE resultCh[i].from = w
      BY <1>2, <3>1, <3>2 DEF m
    <3>3. CASE resultCh[i].from # w
      BY <1>2, <1>3, <2>1, <2>6, <3>1, <3>3 DEF DoneInv
    <3> QED
      BY <3>2, <3>3
  <2> QED
    BY <2>3, <2>4, <2>5, <2>6 DEF DoneInv
<1>9. StageInv'
  BY <1>3 DEF StageInv
<1> QED
  BY <1>4, <1>5, <1>6, <1>7, <1>8, <1>9

(* The collector takes the head: a result is gathered, a done message      *)
(* tells that its sender has left nothing behind.                          *)
LEMMA CollectKeepsPool ==
  ASSUME PoolInv, Collect
  PROVE  PoolInv'
<1> USE DEF PoolInv, Collect
<1> DEFINE n == Len(resultCh)
           h == resultCh[1]
<1>1. /\ n \in Nat \ {0}
      /\ DOMAIN resultCh = 1..n
      /\ 1 \in DOMAIN resultCh
      /\ Head(resultCh) = h
      /\ resultCh[1] = h
      /\ h \in Messages /\ h.from \in Workers /\ h.job \in JobIds \cup {NoJob}
      /\ resultCh' \in Seq(Messages)
      /\ DOMAIN resultCh' = 1..(n - 1)
      /\ \A i \in DOMAIN resultCh' :
           resultCh'[i] = resultCh[i + 1] /\ i + 1 \in DOMAIN resultCh
             /\ i + 1 # 1 /\ 1 < i + 1
      /\ \A i \in DOMAIN resultCh :
           i = 1 \/ (i - 1 \in DOMAIN resultCh' /\ resultCh'[i - 1] = resultCh[i])
      /\ \A i, k \in DOMAIN resultCh' : i < k <=> i + 1 < k + 1
      /\ \A i, k \in DOMAIN resultCh' : i + 1 = k + 1 => i = k
      /\ \A i \in DOMAIN resultCh', k \in DOMAIN resultCh :
           i + 1 < k => k # 1 /\ i < k - 1
  BY ChannelElements, TailFacts
<1> HIDE DEF n, h
<1>2. \A i \in DOMAIN resultCh' :
        resultCh'[i].from \in Workers /\ resultCh'[i].job \in JobIds \cup {NoJob}
  BY <1>1, ChannelElements
<1>3. HandsInv' /\ finished \in Nat
  BY DEF HandsInv, Busy, TypeOK
<1>4. CASE h.job = NoJob
  <2>1. all' = all /\ finished' = finished + 1
    BY <1>1, <1>4
  <2>2. TypeOK'
    BY <1>1, <1>3, <2>1 DEF TypeOK, Messages
  <2>3. ChannelInv'
    BY <1>1, <2>1 DEF ChannelInv
  <2>4. GatheredInv'
    <3>1. \A j \in JobIds : (\E i \in DOMAIN resultCh : resultCh[i].job = j)
            => \E i \in DOMAIN resultCh' : resultCh'[i].job = j
      <4> SUFFICES ASSUME NEW j \in JobIds,
                          NEW i \in DOMAIN resultCh, resultCh[i].job = j
                   PROVE  \E k \in DOMAIN resultCh' : resultCh'[k].job = j
        OBVIOUS
      <4>1. j # NoJob /\ i # 1
        BY <1>1, <1>4 DEF JobIds, NoJob
      <4> QED
        BY <1>1, <4>1
    <3> QED
      BY <2>1, <3>1 DEF GatheredInv
  <2>5. h = Done(h.from) /\ pc[h.from] = "exited"
    BY <1>1, <1>4 DEF Messages, Done, DoneInv
  <2>6. h.from \notin DoneSeen
    BY <1>1, <2>5 DEF DoneSeen
  <2>7. DoneSeen' = DoneSeen \cup {h.from}
    <3>1. \A i \in DOMAIN resultCh' : resultCh'[i] # Done(h.from)
      BY <1>1, <1>4 DEF DoneInv, Done
    <3>2. \A v \in Workers : v # h.from => h # Done(v)
      BY <2>5 DEF Done
    <3> QED
      BY <1>1, <2>5, <3>1, <3>2 DEF DoneSeen
  <2>8. DoneInv'
    <3>1. Cardinality(DoneSeen') = Cardinality(DoneSeen) + 1
      <4>1. IsFiniteSet(Workers)
        <5>1. 1 \in Int /\ NumWorkers \in Int
          BY JobsAreWellFormed
        <5> QED
          BY <5>1, FS_Interval DEF Workers
      <4>2. DoneSeen \in SUBSET Workers
        BY DEF DoneSeen
      <4>3. IsFiniteSet(DoneSeen)
        BY <4>1, <4>2, FS_Subset
      <4> QED
        BY <2>6, <2>7, <4>3, FS_AddElement
    <3>2. \A i \in DOMAIN resultCh' :
            resultCh'[i].job = NoJob => pc'[resultCh'[i].from] = "exited"
      BY <1>1 DEF DoneInv
    <3>3. \A i, k \in DOMAIN resultCh' :
            i < k /\ resultCh'[i].job = NoJob
              => resultCh'[k].from # resultCh'[i].from
      BY <1>1 DEF DoneInv
    <3>4. ASSUME NEW i \in DOMAIN resultCh',
                 pc'[resultCh'[i].from] = "exited", resultCh'[i].job # NoJob
          PROVE  \E k \in DOMAIN resultCh' :
                   i < k /\ resultCh'[k] = Done(resultCh'[i].from)
      <4>1. PICK k \in DOMAIN resultCh :
              i + 1 < k /\ resultCh[k] = Done(resultCh[i + 1].from)
        BY <1>1, <3>4 DEF DoneInv
      <4>2. k - 1 \in DOMAIN resultCh' /\ i < k - 1
              /\ resultCh'[k - 1] = resultCh[k]
        BY <1>1, <4>1
      <4> QED
        BY <1>1, <4>1, <4>2
    <3> QED
      BY <2>1, <3>1, <3>2, <3>3, <3>4 DEF DoneInv
  <2>9. StageInv'
    BY DEF StageInv
  <2> QED
    BY <1>3, <2>2, <2>3, <2>4, <2>8, <2>9
<1>5. CASE h.job # NoJob
  <2>1. /\ all' = [all EXCEPT ![h.job] = @ + 1]
        /\ finished' = finished
        /\ h.job \in JobIds
    BY <1>1, <1>5
  <2>2. /\ all[h.job] = 0
        /\ \A w \in Workers : job[w] # h.job
        /\ h.job < next
    BY <1>1, <1>5 DEF ChannelInv
  <2>3. \A j \in JobIds : all'[j] = IF j = h.job THEN 1 ELSE all[j]
    BY <2>1, <2>2 DEF TypeOK
  <2>4. TypeOK'
    BY <1>1, <2>1 DEF TypeOK, Messages
  <2>5. ChannelInv'
    <3>1. \A i \in DOMAIN resultCh' : resultCh'[i].job # h.job
      BY <1>1, <1>5 DEF ChannelInv
    <3> QED
      BY <1>1, <1>2, <2>3, <3>1 DEF ChannelInv
  <2>6. GatheredInv'
    <3> SUFFICES ASSUME NEW j \in JobIds
        PROVE  (/\ all[j] \in {0, 1}
                /\ all[j] = 1 => j < next /\ \A v \in Workers : job[v] # j
                /\ j < next => \/ all[j] = 1
                               \/ \E v \in Workers : job[v] = j
                               \/ \E i \in DOMAIN resultCh : resultCh[i].job = j)'
      BY DEF GatheredInv
    <3>1. CASE j = h.job
      BY <2>2, <2>3, <3>1
    <3>2. CASE j # h.job
      <4>1. (\E i \in DOMAIN resultCh : resultCh[i].job = j)
              => \E i \in DOMAIN resultCh' : resultCh'[i].job = j
        BY <1>1, <3>2
      <4> QED
        BY <2>3, <3>2, <4>1 DEF GatheredInv
    <3> QED
      BY <3>1, <3>2
  <2>7. DoneInv'
    <3>1. DoneSeen' = DoneSeen
      <4>1. \A v \in Workers : h # Done(v)
        BY <1>5 DEF Done
      <4> QED
        BY <1>1, <4>1 DEF DoneSeen
    <3>2. \A i \in DOMAIN resultCh' :
            resultCh'[i].job = NoJob => pc'[resultCh'[i].from] = "exited"
      BY <1>1 DEF DoneInv
    <3>3. \A i, k \in DOMAIN resultCh' :
            i < k /\ resultCh'[i].job = NoJob
              => resultCh'[k].from # resultCh'[i].from
      BY <1>1 DEF DoneInv
    <3>4. ASSUME NEW i \in DOMAIN resultCh',
                 pc'[resultCh'[i].from] = "exited", resultCh'[i].job # NoJob
          PROVE  \E k \in DOMAIN resultCh' :
                   i < k /\ resultCh'[k] = Done(resultCh'[i].from)
      <4>1. PICK k \in DOMAIN resultCh :
              i + 1 < k /\ resultCh[k] = Done(resultCh[i + 1].from)
        BY <1>1, <3>4 DEF DoneInv
      <4>2. k - 1 \in DOMAIN resultCh' /\ i < k - 1
              /\ resultCh'[k - 1] = resultCh[k]
        BY <1>1, <4>1
      <4> QED
        BY <1>1, <4>1, <4>2
    <3> QED
      BY <2>1, <3>1, <3>2, <3>3, <3>4 DEF DoneInv
  <2>8. StageInv'
    BY DEF StageInv
  <2> QED
    BY <1>3, <2>4, <2>5, <2>6, <2>7, <2>8
<1> QED
  BY <1>4, <1>5

(* The main goroutine's own steps and the closing of jobCh.                *)
LEMMA MainKeepsPool ==
  ASSUME PoolInv, \/ CloseJobs \/ ReturnPackageIssues
                  \/ RunProgramGroup \/ ReturnIssues \/ UNCHANGED vars
  PROVE  PoolInv'
<1> USE DEF PoolInv
<1>1. /\ UNCHANGED <<cacheUsed, next, pc, job, hit, resultCh, all, finished>>
      /\ closed' \in BOOLEAN
  BY DEF CloseJobs, ReturnPackageIssues, RunProgramGroup, ReturnIssues, vars,
         poolVars, TypeOK
<1>2. HandsInv' /\ ChannelInv' /\ GatheredInv'
  BY <1>1 DEF HandsInv, ChannelInv, GatheredInv, Busy
<1>3. DoneSeen' = DoneSeen
  BY <1>1 DEF DoneSeen
<1>4. DoneInv'
  BY <1>1, <1>3 DEF DoneInv
<1>5. TypeOK'
  <2>1. CASE RunProgramGroup
    <3>1. ProgramGroups[nextProgram] \in Names
      BY <2>1 DEF RunProgramGroup, Names
    <3>2. stats' \in [Names -> GroupStats]
      BY <2>1, <3>1 DEF RunProgramGroup, TypeOK, Counted, GroupStats
    <3>3. nextProgram' \in 1..(Len(ProgramGroups) + 1)
      BY <2>1, GroupsAssumption DEF RunProgramGroup, TypeOK
    <3> QED
      BY <1>1, <2>1, <3>2, <3>3 DEF RunProgramGroup, TypeOK
  <2>2. CASE ~RunProgramGroup
    BY <1>1, <2>2 DEF CloseJobs, ReturnPackageIssues, ReturnIssues, vars, TypeOK
  <2> QED
    BY <2>1, <2>2
<1>6. StageInv'
  BY <1>1 DEF CloseJobs, ReturnPackageIssues, RunProgramGroup, ReturnIssues,
              vars, poolVars, StageInv
<1> QED
  BY <1>2, <1>4, <1>5, <1>6

(***************************************************************************)
(* The statistics.  Only two actions write them; the others must leave the *)
(* set of counted jobs as it is.                                           *)
(***************************************************************************)
LEMMA CountedIsFinite ==
  ASSUME NEW g
  PROVE  IsFiniteSet(CountedJobs(g)) /\ IsFiniteSet(RunGroups(g))
<1>1. IsFiniteSet(JobIds) /\ IsFiniteSet(DOMAIN ProgramGroups)
  <2>1. DOMAIN ProgramGroups = 1..Len(ProgramGroups) /\ Len(ProgramGroups) \in Nat
    BY GroupsAssumption
  <2> QED
    BY <2>1, FS_Interval, JobsAreWellFormed DEF JobIds
<1>2. CountedJobs(g) \in SUBSET JobIds /\ RunGroups(g) \in SUBSET DOMAIN ProgramGroups
  BY DEF CountedJobs, RunGroups
<1> QED
  BY <1>1, <1>2, FS_Subset

LEMMA CountingKeepsStats ==
  ASSUME IInv, NEW w \in Workers, CountExecution(w)
  PROVE  StatsInv'
<1> USE DEF IInv, PoolInv, CountExecution
<1> DEFINE j == job[w]
<1>1. j \in JobIds /\ j < next /\ j # NoJob /\ JobGroup(j) \in Names
  BY JobsAreWellFormed DEF HandsInv, Busy, JobIds, NoJob
<1>2. \A v \in Workers : job[v] = j => v = w
  BY <1>1 DEF HandsInv
<1>3. \A v \in Workers : pc'[v] = IF v = w THEN "send" ELSE pc[v]
  BY DEF TypeOK
<1>4. \A g \in Names : RunGroups(g)' = RunGroups(g)
  BY DEF RunGroups
<1>5. \A g \in Names : CountedJobs(g)' =
        IF g = JobGroup(j) THEN CountedJobs(g) \cup {j} ELSE CountedJobs(g)
  BY <1>1, <1>2, <1>3 DEF CountedJobs
<1>6. \A g \in Names : j \notin CountedJobs(g)
  BY DEF CountedJobs
<1>7. \A g \in Names : stats'[g] =
        IF g = JobGroup(j) THEN Counted(stats[g], hit[w]) ELSE stats[g]
  BY <1>1 DEF TypeOK
<1>8. hit[w] \in BOOLEAN /\ cacheUsed \in BOOLEAN /\ (hit[w] => cacheUsed)
  BY DEF HandsInv, TypeOK
<1> SUFFICES ASSUME NEW g \in Names
    PROVE  (/\ stats[g].executions + stats[g].hits =
                 Cardinality(CountedJobs(g)) + Cardinality(RunGroups(g))
            /\ stats[g].misses = IF cacheUsed THEN stats[g].executions ELSE 0
            /\ ~cacheUsed => stats[g].hits = 0)'
  BY DEF StatsInv
<1>9. /\ stats[g].executions \in Nat /\ stats[g].hits \in Nat
      /\ stats[g].misses \in Nat
      /\ Cardinality(CountedJobs(g)) \in Nat
      /\ Cardinality(RunGroups(g)) \in Nat
  BY CountedIsFinite, FS_CardinalityType DEF TypeOK, GroupStats
<1>10. CASE g = JobGroup(j)
  <2>1. Cardinality(CountedJobs(g))' = Cardinality(CountedJobs(g)) + 1
    BY <1>5, <1>6, <1>10, CountedIsFinite, FS_AddElement
  <2> QED
    BY <1>4, <1>7, <1>8, <1>9, <1>10, <2>1 DEF StatsInv, Counted
<1>11. CASE g # JobGroup(j)
  BY <1>4, <1>5, <1>7, <1>11 DEF StatsInv
<1> QED
  BY <1>10, <1>11

LEMMA ProgramGroupKeepsStats ==
  ASSUME IInv, RunProgramGroup
  PROVE  StatsInv'
<1> USE DEF IInv, PoolInv, RunProgramGroup
<1> DEFINE p == nextProgram
           q == ProgramGroups[p]
<1>1. p \in DOMAIN ProgramGroups /\ q \in Names /\ p \in Nat
  BY DEF Names, TypeOK
<1>2. PICK isHit \in {h \in BOOLEAN : h => cacheUsed} :
        stats' = [stats EXCEPT ![q] = Counted(@, isHit)]
  OBVIOUS
<1>3. \A g \in Names : CountedJobs(g)' = CountedJobs(g)
  BY DEF CountedJobs, poolVars
<1>4. \A g \in Names : RunGroups(g)' =
        IF g = q THEN RunGroups(g) \cup {p} ELSE RunGroups(g)
  <2>1. \A k \in DOMAIN ProgramGroups : k < p + 1 <=> k < p \/ k = p
    BY <1>1, GroupsAssumption
  <2> QED
    BY <1>1, <2>1 DEF RunGroups
<1>5. \A g \in Names : p \notin RunGroups(g)
  BY <1>1 DEF RunGroups
<1>6. \A g \in Names : stats'[g] =
        IF g = q THEN Counted(stats[g], isHit) ELSE stats[g]
  BY <1>1, <1>2 DEF TypeOK
<1> SUFFICES ASSUME NEW g \in Names
    PROVE  (/\ stats[g].executions + stats[g].hits =
                 Cardinality(CountedJobs(g)) + Cardinality(RunGroups(g))
            /\ stats[g].misses = IF cacheUsed THEN stats[g].executions ELSE 0
            /\ ~cacheUsed => stats[g].hits = 0)'
  BY DEF StatsInv
<1>7. /\ stats[g].executions \in Nat /\ stats[g].hits \in Nat
      /\ stats[g].misses \in Nat
      /\ Cardinality(CountedJobs(g)) \in Nat
      /\ Cardinality(RunGroups(g)) \in Nat
      /\ isHit \in BOOLEAN /\ cacheUsed \in BOOLEAN /\ (isHit => cacheUsed)
  BY CountedIsFinite, FS_CardinalityType DEF TypeOK, GroupStats
<1>8. CASE g = q
  <2>1. Cardinality(RunGroups(g))' = Cardinality(RunGroups(g)) + 1
    BY <1>4, <1>5, <1>8, CountedIsFinite, FS_AddElement
  <2>2. /\ stats'[g] = Counted(stats[g], isHit) /\ cacheUsed' = cacheUsed
        /\ CountedJobs(g)' = CountedJobs(g)
    BY <1>3, <1>6, <1>8
  <2> HIDE DEF p, q
  <2>3. stats'[g].executions + stats'[g].hits =
          stats[g].executions + stats[g].hits + 1
    BY <1>7, <2>2 DEF Counted
  <2>4. /\ stats'[g].misses = IF cacheUsed THEN stats'[g].executions ELSE 0
        /\ ~cacheUsed => stats'[g].hits = 0
    BY <1>7, <2>2 DEF Counted, StatsInv
  <2> QED
    BY <1>7, <2>1, <2>2, <2>3, <2>4 DEF StatsInv
<1>9. CASE g # q
  <2>1. /\ stats'[g] = stats[g] /\ cacheUsed' = cacheUsed
        /\ RunGroups(g)' = RunGroups(g) /\ CountedJobs(g)' = CountedJobs(g)
    BY <1>3, <1>4, <1>6, <1>9
  <2> QED
    BY <2>1 DEF StatsInv
<1> QED
  BY <1>8, <1>9

(* Every other step leaves stats, and what has been counted, unchanged.    *)
LEMMA OtherStepsKeepStats ==
  ASSUME IInv, UNCHANGED <<cacheUsed, stats, nextProgram>>,
         \A g \in Names : CountedJobs(g)' = CountedJobs(g)
  PROVE  StatsInv'
<1>1. \A g \in Names : RunGroups(g)' = RunGroups(g)
  BY DEF RunGroups
<1> QED
  BY <1>1 DEF IInv, StatsInv

LEMMA HandOverKeepsStats ==
  ASSUME IInv, NEW w \in Workers,
         Feed(w) \/ Load(w) \/ RunPackage(w) \/ SendResult(w) \/ SendDone(w)
  PROVE  StatsInv'
<1> USE DEF IInv, PoolInv
<1>1. /\ UNCHANGED <<cacheUsed, stats, nextProgram>>
      /\ job \in [Workers -> JobIds \cup {NoJob}]
      /\ pc \in [Workers -> PCs]
  BY DEF Feed, Load, RunPackage, SendResult, SendDone, TypeOK
<1>2. CASE Feed(w)
  <2>1. /\ next' = next + 1
        /\ \A v \in Workers : pc'[v] = IF v = w THEN "load" ELSE pc[v]
        /\ \A v \in Workers : job'[v] = IF v = w THEN next ELSE job[v]
        /\ next \in JobIds
        /\ job[w] = NoJob
    BY <1>1, <1>2 DEF Feed, HandsInv, Busy
  <2>2. \A j \in JobIds :
          /\ j < next + 1 <=> j < next \/ j = next
          /\ ~(j < next /\ j = next)
          /\ j # NoJob
    BY <2>1, JobsAreWellFormed DEF JobIds, NoJob
  <2>3. ASSUME NEW g \in Names PROVE CountedJobs(g)' = CountedJobs(g)
    BY <2>1, <2>2 DEF CountedJobs
  <2> QED
    BY <1>1, <2>3, OtherStepsKeepStats
<1>3. CASE ~Feed(w)
  <2>1. next' = next
    BY <1>3 DEF Load, RunPackage, SendResult, SendDone
  <2>2. \A v \in Workers :
          /\ pc'[v] \in {"load", "analyse", "count"} =>
               pc[v] \in {"load", "analyse", "count"} /\ job'[v] = job[v]
          /\ pc[v] \in {"load", "analyse", "count"} =>
               pc'[v] \in {"load", "analyse", "count"} /\ job'[v] = job[v]
    BY <1>1, <1>3 DEF Load, RunPackage, SendResult, SendDone
  <2>3. ASSUME NEW g \in Names PROVE CountedJobs(g)' = CountedJobs(g)
    BY <2>1, <2>2 DEF CountedJobs
  <2> QED
    BY <1>1, <2>3, OtherStepsKeepStats
<1> QED
  BY <1>2, <1>3

LEMMA MainKeepsStats ==
  ASSUME IInv, \/ CloseJobs \/ Collect \/ ReturnPackageIssues
               \/ ReturnIssues \/ UNCHANGED vars
  PROVE  StatsInv'
<1>1. UNCHANGED <<cacheUsed, stats, nextProgram, next, pc, job>>
  BY DEF CloseJobs, Collect, ReturnPackageIssues, ReturnIssues, vars, poolVars
<1>2. \A g \in Names : CountedJobs(g)' = CountedJobs(g)
  BY <1>1 DEF CountedJobs
<1> QED
  BY <1>1, <1>2, OtherStepsKeepStats

LEMMA InitStats == Init => StatsInv
<1> SUFFICES ASSUME Init, NEW g \in Names
    PROVE  /\ stats[g].executions + stats[g].hits =
                Cardinality(CountedJobs(g)) + Cardinality(RunGroups(g))
           /\ stats[g].misses = IF cacheUsed THEN stats[g].executions ELSE 0
           /\ ~cacheUsed => stats[g].hits = 0
  BY DEF StatsInv
<1>1. stats[g] = ZeroStats
  BY DEF Init
<1>2. CountedJobs(g) = {} /\ RunGroups(g) = {}
  <2>1. next = 1 /\ nextProgram = 1
    BY DEF Init
  <2>2. (\A j \in JobIds : ~(j < 1)) /\ \A k \in DOMAIN ProgramGroups : ~(k < 1)
    BY JobsAreWellFormed, GroupsAssumption DEF JobIds
  <2> QED
    BY <2>1, <2>2 DEF CountedJobs, RunGroups
<1> QED
  BY <1>1, <1>2, FS_EmptySet DEF ZeroStats

-----------------------------------------------------------------------------
(* In every reachable state each fed job is in one place only, done        *)
(* messages come last and the statistics match what was counted: the       *)
(* invariant from which the properties of executePackageJobs follow.       *)
THEOREM PoolInvariance == Spec => []IInv
<1>1. Init => IInv
  BY InitPool, InitStats DEF IInv
<1>2. IInv /\ [Next]_vars => IInv'
  <2> SUFFICES ASSUME IInv, [Next]_vars PROVE IInv'
    OBVIOUS
  <2>0. PoolInv
    BY DEF IInv
  <2>1. ASSUME NEW w \in Workers, Feed(w) PROVE IInv'
    BY <2>0, <2>1, FeedKeepsPool, HandOverKeepsStats DEF IInv
  <2>2. ASSUME NEW w \in Workers, Load(w) \/ RunPackage(w) PROVE IInv'
    BY <2>0, <2>2, LocalStepKeepsPool, HandOverKeepsStats DEF IInv
  <2>3. ASSUME NEW w \in Workers, CountExecution(w) PROVE IInv'
    BY <2>0, <2>3, LocalStepKeepsPool, CountingKeepsStats DEF IInv
  <2>4. ASSUME NEW w \in Workers, SendResult(w) PROVE IInv'
    BY <2>0, <2>4, SendResultKeepsPool, HandOverKeepsStats DEF IInv
  <2>5. ASSUME NEW w \in Workers, SendDone(w) PROVE IInv'
    BY <2>0, <2>5, SendDoneKeepsPool, HandOverKeepsStats DEF IInv
  <2>6. CASE Collect
    BY <2>0, <2>6, CollectKeepsPool, MainKeepsStats DEF IInv
  <2>7. CASE RunProgramGroup
    BY <2>0, <2>7, MainKeepsPool, ProgramGroupKeepsStats DEF IInv
  <2>8. CASE CloseJobs \/ ReturnPackageIssues \/ ReturnIssues \/ UNCHANGED vars
    BY <2>0, <2>8, MainKeepsPool, MainKeepsStats DEF IInv
  <2> QED
    BY <2>1, <2>2, <2>3, <2>4, <2>5, <2>6, <2>7, <2>8
       DEF Next, Feeder, Main, WorkerStep, Returned
<1> QED
  BY <1>1, <1>2, PTL DEF Spec

(* When the collector has counted NumWorkers done messages there is no     *)
(* worker left whose done message is still to come.                        *)
LEMMA AllDoneMeansQuiet ==
  ASSUME PoolInv, finished = NumWorkers
  PROVE  resultCh = <<>> /\ \A w \in Workers : pc[w] = "exited"
<1> USE DEF PoolInv
<1>1. DoneSeen = Workers
  <2>1. IsFiniteSet(Workers) /\ Cardinality(Workers) = NumWorkers
    BY FS_Interval, JobsAreWellFormed DEF Workers
  <2>2. DoneSeen \in SUBSET Workers /\ Cardinality(DoneSeen) = NumWorkers
    BY DEF DoneSeen, DoneInv
  <2> QED
    BY <2>1, <2>2, FS_Subset
<1>2. \A w \in Workers : pc[w] = "exited"
  BY <1>1 DEF DoneSeen
<1>3. ASSUME NEW i \in DOMAIN resultCh PROVE FALSE
  <2>1. resultCh[i] \in Messages /\ resultCh[i].from \in Workers
    BY <1>3, ChannelElements
  <2>2. CASE resultCh[i].job = NoJob
    <3>1. resultCh[i] = Done(resultCh[i].from)
      BY <2>1, <2>2 DEF Messages, Done
    <3> QED
      BY <1>1, <2>1, <3>1 DEF DoneSeen
  <2>3. CASE resultCh[i].job # NoJob
    BY <1>1, <1>2, <2>1, <2>3 DEF DoneInv, DoneSeen
  <2> QED
    BY <2>2, <2>3
<1>4. resultCh = <<>>
  <2>1. Len(resultCh) = 0
    <3>1. Len(resultCh) # 0 => 1 \in DOMAIN resultCh
      BY ChannelElements
    <3> QED
      BY <1>3, <3>1
  <2> QED
    BY <2>1, ChannelElements
<1> QED
  BY <1>2, <1>4

LEMMA QuietMeansGathered ==
  ASSUME PoolInv, finished = NumWorkers
  PROVE  next = NumJobs + 1 /\ \A j \in JobIds : all[j] = 1
<1> USE DEF PoolInv
<1>1. resultCh = <<>> /\ \A w \in Workers : pc[w] = "exited"
  BY AllDoneMeansQuiet
<1>2. next = NumJobs + 1
  <2>1. CASE NumWorkers = 0
    BY <2>1, JobsAreWellFormed DEF TypeOK
  <2>2. CASE NumWorkers # 0
    <3>1. 1 \in Workers
      BY <2>2, JobsAreWellFormed DEF Workers
    <3> QED
      BY <1>1, <3>1 DEF StageInv
  <2> QED
    BY <2>1, <2>2
<1>3. \A j \in JobIds : j < next /\ j # NoJob
  BY <1>2, JobsAreWellFormed DEF JobIds, NoJob
<1>4. \A w \in Workers : job[w] = NoJob
  BY <1>1 DEF HandsInv, Busy
<1>5. DOMAIN resultCh = {}
  BY <1>1
<1> QED
  BY <1>2, <1>3, <1>4, <1>5 DEF GatheredInv

(* Every variable keeps its type, for any plan, number of packages and     *)
(* number of processors.                                                   *)
THEOREM PoolTyped == Spec => []TypeOK
<1>1. IInv => TypeOK
  BY DEF IInv, PoolInv
<1> QED
  BY <1>1, PoolInvariance, PTL

(* No finding is lost or reported twice by the pool.                       *)
THEOREM GatheredOnce == Spec => []EveryJobGatheredOnce
<1>1. IInv => EveryJobGatheredOnce
  BY QuietMeansGathered DEF IInv, PoolInv, StageInv, EveryJobGatheredOnce
<1> QED
  BY <1>1, PoolInvariance, PTL

(* executePackageJobs leaves no goroutine of the pool behind.              *)
THEOREM QuietAfterReturn == Spec => []PoolQuietAfterReturn
<1>1. IInv => PoolQuietAfterReturn
  BY AllDoneMeansQuiet DEF IInv, PoolInv, StageInv, PoolQuietAfterReturn
<1> QED
  BY <1>1, PoolInvariance, PTL

(* Hits and executions of a run add up to the work its plan asked for.     *)
THEOREM StatsConservation == Spec => []StatsAccountForAllWork
<1>1. IInv => StatsAccountForAllWork
  <2> SUFFICES ASSUME IInv, stage = "returned", NEW g \in Names
      PROVE  /\ stats[g].executions + stats[g].hits = WorkOf(g)
             /\ stats[g].misses = IF cacheUsed THEN stats[g].executions ELSE 0
    BY DEF StatsAccountForAllWork
  <2>1. PoolInv /\ finished = NumWorkers /\ nextProgram = Len(ProgramGroups) + 1
    BY DEF IInv, PoolInv, StageInv
  <2>2. next = NumJobs + 1 /\ \A w \in Workers : pc[w] = "exited"
    BY <2>1, QuietMeansGathered, AllDoneMeansQuiet
  <2>3. CountedJobs(g) = {j \in JobIds : JobGroup(j) = g}
    <3>1. \A j \in JobIds : j < next
      BY <2>2, JobsAreWellFormed DEF JobIds
    <3> QED
      BY <2>2, <3>1 DEF CountedJobs
  <2>4. RunGroups(g) = {k \in DOMAIN ProgramGroups : ProgramGroups[k] = g}
    <3>1. \A k \in DOMAIN ProgramGroups : k < nextProgram
      BY <2>1, GroupsAssumption
    <3> QED
      BY <3>1 DEF RunGroups
  <2> QED
    BY <2>3, <2>4 DEF IInv, StatsInv, WorkOf
<1> QED
  BY <1>1, PoolInvariance, PTL

-----------------------------------------------------------------------------
(***************************************************************************)
(* Why every run returns.  Liveness is not proved here, but what it rests  *)
(* on is: a step of any goroutine takes something off what is left to do,  *)
(* of which there is a finite amount, and as long as the run has not       *)
(* returned one of the goroutines is not waiting.                          *)
(***************************************************************************)
InHands(stations) == {job[w] : w \in {v \in Workers : pc[v] \in stations}}
ToFeed == {j \in JobIds : next <= j}
ToLoad == ToFeed \cup InHands({"load"})
ToAnalyse == ToFeed \cup InHands({"load", "analyse"})
ToCount == ToFeed \cup InHands({"load", "analyse", "count"})
ToSend == ToFeed \cup InHands({"load", "analyse", "count", "send"})
ToCollect == {j \in JobIds : all[j] = 0}
ToExit == {w \in Workers : pc[w] # "exited"}
ToHear == {n \in Workers : finished < n}
ToRun == {k \in DOMAIN ProgramGroups : nextProgram <= k}
Due(something) == {n \in {0} : something}

(* What the goroutines have yet to do, as pairs of a step and what it is   *)
(* taken for.                                                              *)
StillToDo ==
  [feed |-> ToFeed, load |-> ToLoad, analyse |-> ToAnalyse, count |-> ToCount,
   send |-> ToSend, collect |-> ToCollect, exit |-> ToExit, hear |-> ToHear,
   run |-> ToRun, close |-> Due(~closed), join |-> Due(stage = "package"),
   return |-> Due(stage # "returned")]
StepsLeft == UNION {{kind} \X StillToDo[kind] : kind \in DOMAIN StillToDo}

(* The guard of each goroutine's next step.                                *)
FeederCanGoOn == \/ next \in JobIds /\ \E w \in Workers : pc[w] = "receive"
                 \/ NumJobs > 0 /\ next = NumJobs + 1 /\ ~closed
WorkerCanGoOn(w) == \/ pc[w] \in {"load", "analyse", "count"}
                    \/ pc[w] = "send" /\ Len(resultCh) < NumWorkers
                    \/ pc[w] = "receive" /\ closed /\ Len(resultCh) < NumWorkers
MainCanGoOn == \/ stage = "package" /\ finished < NumWorkers /\ resultCh # <<>>
               \/ stage = "package" /\ finished = NumWorkers
               \/ stage = "program" /\ nextProgram \in DOMAIN ProgramGroups
               \/ stage = "program" /\ nextProgram = Len(ProgramGroups) + 1
SomebodyCanGoOn ==
  stage # "returned" =>
    FeederCanGoOn \/ MainCanGoOn \/ \E w \in Workers : WorkerCanGoOn(w)

(* When the collector waits, a worker that is left works or is fed: nobody *)
(* waits for someone who waits for him (run.go:299-334).                   *)
THEOREM NeverAllWaiting == Spec => []SomebodyCanGoOn
<1>1. IInv => SomebodyCanGoOn
  <2> SUFFICES ASSUME PoolInv, stage # "returned",
                      ~ MainCanGoOn
               PROVE  FeederCanGoOn \/ \E w \in Workers : WorkerCanGoOn(w)
    BY DEF IInv, SomebodyCanGoOn
  <2> USE DEF PoolInv
  <2>1. stage = "package"
    <3>1. nextProgram \in 1..(Len(ProgramGroups) + 1) /\ Len(ProgramGroups) \in Nat
          /\ DOMAIN ProgramGroups = 1..Len(ProgramGroups)
      BY GroupsAssumption DEF TypeOK
    <3>2. stage # "program"
      BY <3>1 DEF MainCanGoOn
    <3> QED
      BY <3>2 DEF TypeOK
  <2>2. /\ IsFiniteSet(Workers) /\ Cardinality(Workers) = NumWorkers
        /\ DoneSeen \in SUBSET Workers /\ finished = Cardinality(DoneSeen)
    BY FS_Interval, JobsAreWellFormed DEF Workers, DoneSeen, DoneInv
  <2>3. finished < NumWorkers /\ DoneSeen # Workers
    <3>1. Cardinality(DoneSeen) <= NumWorkers /\ Cardinality(DoneSeen) \in Nat
      BY <2>2, FS_Subset, FS_CardinalityType
    <3>2. finished # NumWorkers
      BY <2>1 DEF MainCanGoOn
    <3> QED
      BY <2>2, <3>1, <3>2, JobsAreWellFormed
  <2>4. resultCh = <<>> /\ Len(resultCh) = 0 /\ Len(resultCh) < NumWorkers
    <3>1. resultCh = <<>>
      BY <2>1, <2>3 DEF MainCanGoOn
    <3>2. Len(resultCh) = 0
      BY <3>1
    <3>3. 0 < NumWorkers
      <4>1. finished \in Nat /\ NumWorkers \in Nat
        BY JobsAreWellFormed DEF TypeOK
      <4> QED
        BY <2>3, <4>1
    <3> QED
      BY <3>1, <3>2, <3>3
  <2>5. PICK w \in Workers : pc[w] # "exited"
    BY <2>2, <2>3, <2>4 DEF DoneSeen
  <2>6. pc[w] \in {"receive", "load", "analyse", "count", "send"}
    BY <2>5 DEF TypeOK, PCs
  <2>7. CASE pc[w] = "receive"
    <3>1. closed => WorkerCanGoOn(w)
      BY <2>4, <2>7 DEF WorkerCanGoOn
    <3>2. NumJobs > 0
      BY <2>5, JobsAreWellFormed, SizesAssumption DEF Workers, NumWorkers
    <3>3. next \in JobIds \/ next = NumJobs + 1
      BY JobsAreWellFormed DEF TypeOK, JobIds
    <3> QED
      BY <2>7, <3>1, <3>2, <3>3 DEF FeederCanGoOn
  <2>8. CASE pc[w] # "receive"
    BY <2>4, <2>6, <2>8 DEF WorkerCanGoOn
  <2> QED
    BY <2>7, <2>8
<1> QED
  BY <1>1, PoolInvariance, PTL

(* No kind of step becomes due again, and one is due once less.            *)
NothingMore ==
  /\ ToFeed' \subseteq ToFeed /\ ToLoad' \subseteq ToLoad
  /\ ToAnalyse' \subseteq ToAnalyse /\ ToCount' \subseteq ToCount
  /\ ToSend' \subseteq ToSend /\ ToCollect' \subseteq ToCollect
  /\ ToExit' \subseteq ToExit /\ ToHear' \subseteq ToHear /\ ToRun' \subseteq ToRun
  /\ closed => closed'
  /\ stage # "package" => stage' # "package"
  /\ stage = "returned" => stage' = "returned"
OneLess ==
  \/ ToFeed' # ToFeed \/ ToLoad' # ToLoad \/ ToAnalyse' # ToAnalyse
  \/ ToCount' # ToCount \/ ToSend' # ToSend \/ ToCollect' # ToCollect
  \/ ToExit' # ToExit \/ ToHear' # ToHear \/ ToRun' # ToRun
  \/ ~closed /\ closed'
  \/ stage = "package" /\ stage' # "package"
  \/ stage # "returned" /\ stage' = "returned"

(* Pairs of a kind and a thing of the kind: fewer things, fewer pairs.     *)
LEMMA FewerThings ==
  ASSUME NEW K, NEW F, NEW G, DOMAIN F = K, DOMAIN G = K,
         \A k \in K : G[k] \subseteq F[k],
         \E k \in K : G[k] # F[k]
  PROVE  /\ UNION {{k} \X G[k] : k \in K} \subseteq UNION {{k} \X F[k] : k \in K}
         /\ UNION {{k} \X G[k] : k \in K} # UNION {{k} \X F[k] : k \in K}
<1>1. ASSUME NEW e \in UNION {{k} \X G[k] : k \in K}
      PROVE  e \in UNION {{k} \X F[k] : k \in K}
  <2>1. PICK k \in K : e \in {k} \X G[k]
    OBVIOUS
  <2>2. e \in {k} \X F[k]
    BY <2>1
  <2> QED
    BY <2>2
<1>2. PICK k \in K : \E x \in F[k] : x \notin G[k]
  OBVIOUS
<1>3. PICK x \in F[k] : x \notin G[k]
  BY <1>2
<1>4. <<k, x>> \in UNION {{m} \X F[m] : m \in K}
  OBVIOUS
<1>5. <<k, x>> \notin UNION {{m} \X G[m] : m \in K}
  <2> SUFFICES ASSUME NEW m \in K, <<k, x>> \in {m} \X G[m] PROVE FALSE
    OBVIOUS
  <2> QED
    BY <1>3
<1> QED
  BY <1>1, <1>4, <1>5

Kinds == {"feed", "load", "analyse", "count"} \cup {"send", "collect", "exit", "hear"}
           \cup {"run", "close", "join", "return"}

LEMMA FourThings ==
  ASSUME NEW a, NEW b, NEW c, NEW d, a # b, a # c, a # d, b # c, b # d, c # d
  PROVE  IsFiniteSet({a, b, c, d}) /\ Cardinality({a, b, c, d}) = 4
<1>1. IsFiniteSet({a}) /\ Cardinality({a}) = 1
  BY FS_Singleton
<1>2. IsFiniteSet({a} \cup {b}) /\ Cardinality({a} \cup {b}) = 2
  BY <1>1, FS_AddElement
<1>3. IsFiniteSet({a, b} \cup {c}) /\ Cardinality({a, b} \cup {c}) = 3
  <2>1. {a, b} = {a} \cup {b} /\ c \notin {a, b}
    OBVIOUS
  <2> QED
    BY <1>2, <2>1, FS_AddElement
<1>4. IsFiniteSet({a, b, c} \cup {d}) /\ Cardinality({a, b, c} \cup {d}) = 4
  <2>1. {a, b, c} = {a, b} \cup {c} /\ d \notin {a, b, c}
    OBVIOUS
  <2> QED
    BY <1>3, <2>1, FS_AddElement
<1>5. {a, b, c, d} = {a, b, c} \cup {d}
  OBVIOUS
<1> QED
  BY <1>4, <1>5

LEMMA TwelveKinds ==
  DOMAIN StillToDo = Kinds /\ IsFiniteSet(Kinds) /\ Cardinality(Kinds) <= 12
<1> DEFINE A == {"feed", "load", "analyse", "count"}
           B == {"send", "collect", "exit", "hear"}
           C == {"run", "close", "join", "return"}
<1>1. DOMAIN StillToDo = Kinds
  BY DEF StillToDo, Kinds
<1>2. /\ IsFiniteSet(A) /\ Cardinality(A) = 4 /\ IsFiniteSet(B) /\ Cardinality(B) = 4
      /\ IsFiniteSet(C) /\ Cardinality(C) = 4
  BY FourThings
<1> HIDE DEF A, B, C
<1>3. IsFiniteSet(A \cup B) /\ Cardinality(A \cup B) <= 8 /\ Cardinality(A \cup B) \in Nat
  <2>1. Cardinality(A \cap B) \in Nat
    BY <1>2, FS_Intersection, FS_CardinalityType
  <2>2. /\ IsFiniteSet(A \cup B)
        /\ Cardinality(A \cup B) = Cardinality(A) + Cardinality(B) - Cardinality(A \cap B)
    BY <1>2, FS_Union
  <2> QED
    BY <1>2, <2>1, <2>2, FS_CardinalityType
<1>4. IsFiniteSet((A \cup B) \cup C) /\ Cardinality((A \cup B) \cup C) <= 12
  <2>1. Cardinality((A \cup B) \cap C) \in Nat
    BY <1>3, FS_Intersection, FS_CardinalityType
  <2>2. /\ IsFiniteSet((A \cup B) \cup C)
        /\ Cardinality((A \cup B) \cup C)
             = Cardinality(A \cup B) + Cardinality(C) - Cardinality((A \cup B) \cap C)
    BY <1>2, <1>3, FS_Union
  <2> QED
    BY <1>2, <1>3, <2>1, <2>2
<1> QED
  BY <1>1, <1>4 DEF Kinds, A, B, C

(* There is something to do for jobs, workers and program groups, and the  *)
(* pool has three things to do once.                                       *)
MostSteps == 12 * (NumJobs + Len(ProgramGroups) + 1)

LEMMA StepsAreFew ==
  ASSUME PoolInv
  PROVE  /\ IsFiniteSet(StepsLeft)
         /\ Cardinality(StepsLeft) \in 0..MostSteps
<1> USE DEF PoolInv
<1> DEFINE L == Len(ProgramGroups)
           Things == 0..(NumJobs + L)
<1>1. /\ NumJobs \in Nat /\ NumWorkers \in Nat /\ NumWorkers <= NumJobs
      /\ L \in Nat /\ DOMAIN ProgramGroups = 1..L
  BY JobsAreWellFormed, GroupsAssumption, SizesAssumption DEF NumWorkers
<1>2. IsFiniteSet(Things) /\ Cardinality(Things) = NumJobs + L + 1
  BY <1>1, FS_Interval
<1>3. JobIds \subseteq Things /\ Workers \subseteq Things /\ DOMAIN ProgramGroups \subseteq Things
  BY <1>1 DEF JobIds, Workers
<1>4. 0 \in Things
  BY <1>1
<1> HIDE DEF Things, L
<1>5. \A stations \in SUBSET {"load", "analyse", "count", "send"} : InHands(stations) \subseteq JobIds
  BY DEF InHands, HandsInv, Busy
<1>6. \A kind \in Kinds : StillToDo[kind] \subseteq Things
  <2>1. ToFeed \subseteq JobIds /\ ToCollect \subseteq JobIds /\ ToExit \subseteq Workers
        /\ ToHear \subseteq Workers /\ ToRun \subseteq DOMAIN ProgramGroups
    BY DEF ToFeed, ToCollect, ToExit, ToHear, ToRun
  <2>2. ToLoad \subseteq JobIds /\ ToAnalyse \subseteq JobIds /\ ToCount \subseteq JobIds
        /\ ToSend \subseteq JobIds
    BY <1>5, <2>1 DEF ToLoad, ToAnalyse, ToCount, ToSend
  <2>3. /\ Due(~closed) \subseteq Things /\ Due(stage = "package") \subseteq Things
        /\ Due(stage # "returned") \subseteq Things
    BY <1>4 DEF Due
  <2> HIDE DEF PoolInv
  <2> QED
    BY <1>3, <2>1, <2>2, <2>3 DEF StillToDo, Kinds
<1>7. StepsLeft \in SUBSET (Kinds \X Things)
  <2> SUFFICES ASSUME NEW e \in StepsLeft PROVE e \in Kinds \X Things
    OBVIOUS
  <2>1. PICK kind \in Kinds : e \in {kind} \X StillToDo[kind]
    BY TwelveKinds DEF StepsLeft
  <2> QED
    BY <1>6, <2>1
<1>8. /\ IsFiniteSet(Kinds \X Things)
      /\ Cardinality(Kinds \X Things) = Cardinality(Kinds) * (NumJobs + L + 1)
  BY <1>2, TwelveKinds, FS_Product
<1>9. IsFiniteSet(StepsLeft) /\ Cardinality(StepsLeft) <= Cardinality(Kinds) * (NumJobs + L + 1)
  BY <1>7, <1>8, FS_Subset
<1>10. Cardinality(Kinds) * (NumJobs + L + 1) <= 12 * (NumJobs + L + 1)
  <2>1. \A k, n \in Nat : k <= 12 => k * n <= 12 * n
    OBVIOUS
  <2> QED
    BY <1>1, <2>1, TwelveKinds, FS_CardinalityType
<1>11. Cardinality(StepsLeft) \in Nat /\ Cardinality(Kinds) \in Nat
  BY <1>9, TwelveKinds, FS_CardinalityType
<1> QED
  BY <1>1, <1>9, <1>10, <1>11 DEF MostSteps, L

LEMMA OneStepLess ==
  ASSUME PoolInv, NothingMore, OneLess
  PROVE  Cardinality(StepsLeft)' < Cardinality(StepsLeft)
<1>1. \A kind \in Kinds : StillToDo'[kind] \subseteq StillToDo[kind]
  <2>1. /\ Due(~closed') \subseteq Due(~closed)
        /\ Due(stage' = "package") \subseteq Due(stage = "package")
        /\ Due(stage' # "returned") \subseteq Due(stage # "returned")
    BY DEF NothingMore, Due
  <2> QED
    BY <2>1 DEF StillToDo, Kinds, NothingMore
<1>2. \E kind \in Kinds : StillToDo'[kind] # StillToDo[kind]
  <2>1. /\ ~closed /\ closed' => Due(~closed') # Due(~closed)
        /\ stage = "package" /\ stage' # "package"
             => Due(stage' = "package") # Due(stage = "package")
        /\ stage # "returned" /\ stage' = "returned"
             => Due(stage' # "returned") # Due(stage # "returned")
    BY DEF Due
  <2> QED
    BY <2>1 DEF StillToDo, Kinds, OneLess
<1>3. StepsLeft' \subseteq StepsLeft /\ StepsLeft' # StepsLeft
  <2>1. DOMAIN StillToDo = Kinds /\ DOMAIN StillToDo' = Kinds
    BY TwelveKinds DEF StillToDo, Kinds
  <2> QED
    BY <1>1, <1>2, <2>1, FewerThings DEF StepsLeft
<1>4. IsFiniteSet(StepsLeft)
  BY StepsAreFew
<1>5. /\ Cardinality(StepsLeft') <= Cardinality(StepsLeft)
      /\ Cardinality(StepsLeft) # Cardinality(StepsLeft')
      /\ Cardinality(StepsLeft') \in Nat /\ Cardinality(StepsLeft) \in Nat
  BY <1>3, <1>4, FS_Subset, FS_CardinalityType
<1> QED
  BY <1>5

LEMMA FeedTakesOff ==
  ASSUME PoolInv, NEW w \in Workers, Feed(w)
  PROVE  NothingMore /\ OneLess
<1> USE DEF PoolInv
<1>1. /\ next \in JobIds /\ next \in Nat /\ next' = next + 1 /\ pc[w] = "receive"
      /\ \A v \in Workers : pc'[v] = IF v = w THEN "load" ELSE pc[v]
      /\ \A v \in Workers : job'[v] = IF v = w THEN next ELSE job[v]
      /\ UNCHANGED <<closed, all, finished, stage, nextProgram>>
  BY DEF Feed, TypeOK, JobIds
<1>2. ToFeed' \subseteq ToFeed /\ next \in ToFeed /\ next \notin ToFeed'
  <2>1. \A j \in JobIds : j \in Nat /\ (next + 1 <= j => next <= j)
    BY <1>1 DEF JobIds
  <2>2. next <= next /\ ~ (next + 1 <= next)
    BY <1>1
  <2> QED
    BY <1>1, <2>1, <2>2 DEF ToFeed
<1>3. \A stations : InHands(stations)' \subseteq InHands(stations) \cup {next}
  BY <1>1 DEF InHands
<1>4. /\ ToLoad' \subseteq ToLoad /\ ToAnalyse' \subseteq ToAnalyse
      /\ ToCount' \subseteq ToCount /\ ToSend' \subseteq ToSend
  BY <1>2, <1>3 DEF ToLoad, ToAnalyse, ToCount, ToSend
<1>5. /\ ToCollect' = ToCollect /\ ToHear' = ToHear /\ ToRun' = ToRun /\ ToExit' \subseteq ToExit
  BY <1>1 DEF ToCollect, ToHear, ToRun, ToExit
<1> QED
  BY <1>1, <1>2, <1>4, <1>5 DEF NothingMore, OneLess

(* A worker that goes from one station to a later one with the same job.   *)
LEMMA LocalStepTakesOff ==
  ASSUME PoolInv, NEW w \in Workers, Load(w) \/ RunPackage(w) \/ CountExecution(w)
  PROVE  NothingMore /\ OneLess
<1> USE DEF PoolInv
<1>1. /\ UNCHANGED <<next, closed, job, all, finished, stage, nextProgram>>
      /\ \E q \in {"analyse", "count", "send"} :
           /\ pc' = [pc EXCEPT ![w] = q]
           /\ \/ pc[w] = "load" /\ q \in {"analyse", "count"}
              \/ pc[w] = "analyse" /\ q = "count"
              \/ pc[w] = "count" /\ q = "send"
  BY DEF Load, RunPackage, CountExecution
<1>2. PICK q \in {"analyse", "count", "send"} :
        /\ \A v \in Workers : pc'[v] = IF v = w THEN q ELSE pc[v]
        /\ \/ pc[w] = "load" /\ q \in {"analyse", "count"}
           \/ pc[w] = "analyse" /\ q = "count"
           \/ pc[w] = "count" /\ q = "send"
  BY <1>1 DEF TypeOK
<1>3. ToFeed' = ToFeed /\ job[w] \notin ToFeed /\ job[w] \in JobIds
  BY <1>1, <1>2, JobsAreWellFormed DEF ToFeed, HandsInv, Busy, TypeOK, JobIds
<1>4. ASSUME NEW stations, q \in stations => pc[w] \in stations
      PROVE  InHands(stations)' \subseteq InHands(stations)
  BY <1>1, <1>2, <1>4 DEF InHands
<1>5. ASSUME NEW stations, pc[w] \in stations, q \notin stations
      PROVE  job[w] \in InHands(stations) /\ job[w] \notin InHands(stations)'
  <2>1. \A v \in Workers : job[v] = job[w] => v = w
    BY <1>3 DEF HandsInv, JobIds, NoJob
  <2> QED
    BY <1>1, <1>2, <1>5, <2>1 DEF InHands
<1>6. /\ ToLoad' \subseteq ToLoad /\ ToAnalyse' \subseteq ToAnalyse
      /\ ToCount' \subseteq ToCount /\ ToSend' \subseteq ToSend
  BY <1>2, <1>3, <1>4 DEF ToLoad, ToAnalyse, ToCount, ToSend
<1>7. ToLoad' # ToLoad \/ ToAnalyse' # ToAnalyse \/ ToCount' # ToCount
  BY <1>2, <1>3, <1>5 DEF ToLoad, ToAnalyse, ToCount
<1>8. ToCollect' = ToCollect /\ ToHear' = ToHear /\ ToRun' = ToRun /\ ToExit' \subseteq ToExit
  BY <1>1, <1>2 DEF ToCollect, ToHear, ToRun, ToExit
<1> QED
  BY <1>1, <1>3, <1>6, <1>7, <1>8 DEF NothingMore, OneLess

LEMMA SendTakesOff ==
  ASSUME PoolInv, NEW w \in Workers, SendResult(w) \/ SendDone(w)
  PROVE  NothingMore /\ OneLess
<1> USE DEF PoolInv
<1>1. /\ UNCHANGED <<next, closed, all, finished, stage, nextProgram>>
      /\ pc'[w] \in {"receive", "exited"}
      /\ \A v \in Workers : v # w => pc'[v] = pc[v] /\ job'[v] = job[v]
      /\ \/ pc[w] = "send"
         \/ pc[w] = "receive" /\ pc'[w] = "exited"
  BY DEF SendResult, SendDone, TypeOK
<1>2. ToFeed' = ToFeed
  BY <1>1 DEF ToFeed
<1>3. ASSUME NEW stations \in SUBSET {"load", "analyse", "count", "send"}
      PROVE  InHands(stations)' \subseteq InHands(stations)
  BY <1>1 DEF InHands
<1>4. /\ ToLoad' \subseteq ToLoad /\ ToAnalyse' \subseteq ToAnalyse
      /\ ToCount' \subseteq ToCount /\ ToSend' \subseteq ToSend
  BY <1>2, <1>3 DEF ToLoad, ToAnalyse, ToCount, ToSend
<1>5. /\ ToCollect' = ToCollect /\ ToHear' = ToHear /\ ToRun' = ToRun /\ ToExit' \subseteq ToExit
  <2>1. \A v \in Workers : pc'[v] # "exited" => pc[v] # "exited"
    BY <1>1 DEF StageInv
  <2> QED
    BY <1>1, <2>1 DEF ToCollect, ToHear, ToRun, ToExit
<1>6. ToSend' # ToSend \/ ToExit' # ToExit
  <2>1. CASE pc[w] = "send"
    <3>1. job[w] \in JobIds /\ job[w] < next
      BY <2>1 DEF HandsInv, Busy
    <3>2. job[w] \in ToSend
      BY <2>1 DEF ToSend, InHands
    <3>3. job[w] \notin ToFeed'
      BY <1>1, <3>1, JobsAreWellFormed DEF ToFeed, TypeOK, JobIds
    <3>4. job[w] \notin InHands({"load", "analyse", "count", "send"})'
      <4>1. \A v \in Workers : job[v] = job[w] => v = w
        BY <3>1 DEF HandsInv, JobIds, NoJob
      <4> QED
        BY <1>1, <4>1 DEF InHands
    <3> QED
      BY <3>2, <3>3, <3>4 DEF ToSend
  <2>2. CASE pc[w] = "receive" /\ pc'[w] = "exited"
    BY <2>2 DEF ToExit
  <2> QED
    BY <1>1, <2>1, <2>2
<1> QED
  BY <1>1, <1>2, <1>4, <1>5, <1>6 DEF NothingMore, OneLess

LEMMA CollectTakesOff ==
  ASSUME PoolInv, Collect
  PROVE  NothingMore /\ OneLess
<1> USE DEF PoolInv
<1>1. UNCHANGED <<next, closed, pc, job, stage, nextProgram>>
  BY DEF Collect
<1>2. /\ ToFeed' = ToFeed /\ ToLoad' = ToLoad /\ ToAnalyse' = ToAnalyse /\ ToCount' = ToCount
      /\ ToSend' = ToSend /\ ToExit' = ToExit /\ ToRun' = ToRun
  BY <1>1 DEF ToFeed, ToLoad, ToAnalyse, ToCount, ToSend, ToExit, ToRun, InHands
<1>3. CASE Head(resultCh).job = NoJob
  <2>1. finished < NumWorkers /\ finished' = finished + 1 /\ all' = all /\ finished \in Nat
    BY <1>3 DEF Collect, TypeOK
  <2>2. finished + 1 \in Workers /\ finished < finished + 1 /\ ~ (finished + 1 < finished + 1)
    BY <2>1, JobsAreWellFormed DEF Workers
  <2>3. \A n \in Workers : finished + 1 < n => finished < n
    BY <2>1, JobsAreWellFormed DEF Workers
  <2>4. ToHear' \subseteq ToHear /\ ToHear' # ToHear /\ ToCollect' = ToCollect
    BY <2>1, <2>2, <2>3 DEF ToHear, ToCollect
  <2> QED
    BY <1>1, <1>2, <2>4 DEF NothingMore, OneLess
<1>4. CASE Head(resultCh).job # NoJob
  <2> DEFINE j == Head(resultCh).job
  <2>1. j \in JobIds /\ all[j] = 0
    <3>1. resultCh # <<>>
      BY DEF Collect
    <3>2. 1 \in DOMAIN resultCh /\ Head(resultCh) = resultCh[1]
      BY <3>1, ChannelElements, TailFacts
    <3> QED
      BY <1>4, <3>2, ChannelElements DEF ChannelInv
  <2>2. /\ \A i \in JobIds : all'[i] = IF i = j THEN 1 ELSE all[i]
        /\ finished' = finished
    BY <1>4, <2>1 DEF Collect, TypeOK
  <2>3. ToCollect' \subseteq ToCollect /\ ToCollect' # ToCollect /\ ToHear' = ToHear
    BY <2>1, <2>2 DEF ToCollect, ToHear
  <2> QED
    BY <1>1, <1>2, <2>3 DEF NothingMore, OneLess
<1> QED
  BY <1>3, <1>4

LEMMA MainTakesOff ==
  ASSUME PoolInv, CloseJobs \/ ReturnPackageIssues \/ RunProgramGroup \/ ReturnIssues
  PROVE  NothingMore /\ OneLess
<1> USE DEF PoolInv
<1>1. UNCHANGED <<next, pc, job, all, finished>>
  BY DEF CloseJobs, ReturnPackageIssues, RunProgramGroup, ReturnIssues, poolVars
<1>2. /\ ToFeed' = ToFeed /\ ToLoad' = ToLoad /\ ToAnalyse' = ToAnalyse /\ ToCount' = ToCount
      /\ ToSend' = ToSend /\ ToCollect' = ToCollect /\ ToExit' = ToExit /\ ToHear' = ToHear
  BY <1>1 DEF ToFeed, ToLoad, ToAnalyse, ToCount, ToSend, ToCollect, ToExit, ToHear, InHands
<1>3. CASE RunProgramGroup
  <2>1. /\ nextProgram \in DOMAIN ProgramGroups /\ nextProgram' = nextProgram + 1
        /\ UNCHANGED <<closed, stage>>
    BY <1>3 DEF RunProgramGroup, poolVars
  <2>2. DOMAIN ProgramGroups \subseteq Nat
    BY GroupsAssumption
  <2>3. ToRun' \subseteq ToRun /\ nextProgram \in ToRun /\ nextProgram \notin ToRun'
    BY <2>1, <2>2 DEF ToRun
  <2> QED
    BY <1>2, <2>1, <2>3 DEF NothingMore, OneLess
<1>4. CASE CloseJobs \/ ReturnPackageIssues \/ ReturnIssues
  <2>1. /\ nextProgram' = nextProgram
        /\ \/ ~closed /\ closed' /\ stage' = stage
           \/ closed' = closed /\ stage = "package" /\ stage' = "program"
           \/ closed' = closed /\ stage = "program" /\ stage' = "returned"
    BY <1>4 DEF CloseJobs, ReturnPackageIssues, ReturnIssues, poolVars
  <2>2. ToRun' = ToRun
    BY <2>1 DEF ToRun
  <2> QED
    BY <1>2, <2>1, <2>2 DEF NothingMore, OneLess
<1> QED
  BY <1>3, <1>4

(* However the goroutines are scheduled, each step leaves less to do, and  *)
(* there was a bounded number of steps to begin with: no run goes on for   *)
(* ever (run.go:280-337).                                                  *)
THEOREM WorkRunsOut ==
  Spec => /\ [](Cardinality(StepsLeft) \in 0..MostSteps)
          /\ [][Cardinality(StepsLeft)' < Cardinality(StepsLeft)]_vars
<1>1. IInv => Cardinality(StepsLeft) \in 0..MostSteps
  BY StepsAreFew DEF IInv
<1>2. IInv /\ [Next]_vars => [Cardinality(StepsLeft)' < Cardinality(StepsLeft)]_vars
  <2> SUFFICES ASSUME PoolInv, Next, vars' # vars
               PROVE  Cardinality(StepsLeft)' < Cardinality(StepsLeft)
    BY DEF IInv
  <2>1. NothingMore /\ OneLess
    BY FeedTakesOff, LocalStepTakesOff, SendTakesOff, CollectTakesOff, MainTakesOff
       DEF Next, Feeder, Main, WorkerStep, Returned
  <2> QED
    BY <2>1, OneStepLess
<1> QED
  BY <1>1, <1>2, PoolInvariance, PTL DEF Spec

-----------------------------------------------------------------------------
LEMMA UnitsAreDistinct ==
  /\ \A k \in DOMAIN ProgramGroups : ProgramUnit(k) \notin JobIds
  /\ \A i, k \in Nat : ProgramUnit(i) = ProgramUnit(k) => i = k
  /\ DOMAIN ProgramGroups = 1..Len(ProgramGroups)
  /\ Len(ProgramGroups) \in Nat
<1>1. DOMAIN ProgramGroups = 1..Len(ProgramGroups) /\ Len(ProgramGroups) \in Nat
  BY GroupsAssumption
<1> QED
  BY <1>1, JobsAreWellFormed DEF ProgramUnit, JobIds

(* Steps that change neither all nor the program loop change no report.    *)
LEMMA SilentStepsStutter ==
  ASSUME UNCHANGED <<all, nextProgram>>, (stage = "returned")' = (stage = "returned")
  PROVE  UNCHANGED Promise!vars
<1>1. Reported' = Reported
  BY DEF Reported, Gathered
<1> QED
  BY <1>1 DEF Promise!vars

(* The pool implements the abstract run.                                   *)
THEOREM PoolImplementsWorklist == Spec => ImplementsWorklist
<1>1. Init => Promise!Init
  <2> SUFFICES ASSUME Init PROVE Promise!Init
    OBVIOUS
  <2>1. Gathered = {} /\ 1..(nextProgram - 1) = {} /\ stage # "returned"
    BY DEF Init, Gathered
  <2>2. Reported = {}
    BY <2>1 DEF Reported
  <2> QED
    BY <2>1, <2>2 DEF Promise!Init
<1>2. IInv /\ [Next]_vars => [Promise!Next]_(Promise!vars)
  <2> SUFFICES ASSUME IInv, [Next]_vars
               PROVE  Promise!Next \/ UNCHANGED Promise!vars
    OBVIOUS
  <2> USE DEF IInv, PoolInv
  <2>1. CASE Collect
    <3> DEFINE h == Head(resultCh)
    <3>1. CASE h.job = NoJob
      BY <2>1, <3>1, SilentStepsStutter DEF Collect
    <3>2. CASE h.job # NoJob
      <4>1. h.job \in JobIds /\ all[h.job] = 0
        <5>1. 1 \in DOMAIN resultCh /\ h = resultCh[1]
          BY <2>1, ChannelElements, TailFacts DEF Collect
        <5> QED
          BY <3>2, <5>1, ChannelElements DEF ChannelInv
      <4>2. /\ \A j \in JobIds : all'[j] = IF j = h.job THEN 1 ELSE all[j]
            /\ nextProgram' = nextProgram
            /\ stage' = stage
            /\ stage = "package" /\ nextProgram = 1
        BY <2>1, <3>2, <4>1 DEF Collect, TypeOK, StageInv
      <4>3. Gathered' = Gathered \cup {h.job} /\ h.job \notin Gathered
        BY <4>1, <4>2 DEF Gathered
      <4>4. Reported' = Reported \cup {h.job} /\ h.job \notin Reported
        BY <4>2, <4>3 DEF Reported
      <4>5. h.job \in Units
        BY <4>1 DEF Units
      <4>6. Promise!Analyse(h.job)
        BY <4>2, <4>4, <4>5 DEF Promise!Analyse
      <4> QED
        BY <4>5, <4>6 DEF Promise!Next
    <3> QED
      BY <3>1, <3>2
  <2>2. CASE RunProgramGroup
    <3> DEFINE u == ProgramUnit(nextProgram)
    <3>1. /\ nextProgram \in 1..Len(ProgramGroups)
          /\ nextProgram' = nextProgram + 1
          /\ UNCHANGED <<all, stage>>
          /\ stage = "program"
      BY <2>2, UnitsAreDistinct DEF RunProgramGroup, poolVars
    <3>2. u \in Units /\ u \notin Gathered
      BY <3>1, UnitsAreDistinct DEF Units, Gathered
    <3>3. /\ 1..(nextProgram' - 1) = (1..(nextProgram - 1)) \cup {nextProgram}
          /\ nextProgram \notin 1..(nextProgram - 1)
          /\ nextProgram \in Nat
          /\ \A k \in 1..(nextProgram - 1) : k \in Nat
      BY <3>1
    <3>4. u \notin {ProgramUnit(k) : k \in 1..(nextProgram - 1)}
      BY <3>3, UnitsAreDistinct
    <3>5. Gathered' = Gathered
      BY <3>1 DEF Gathered
    <3>6. Reported' = Reported \cup {u} /\ u \notin Reported
      BY <3>2, <3>3, <3>4, <3>5 DEF Reported
    <3>7. Promise!Analyse(u)
      BY <3>1, <3>2, <3>6 DEF Promise!Analyse
    <3> QED
      BY <3>2, <3>7 DEF Promise!Next
  <2>3. CASE ReturnIssues
    <3>1. /\ stage = "program" /\ stage' = "returned"
          /\ nextProgram = Len(ProgramGroups) + 1
          /\ UNCHANGED <<all, nextProgram>>
      BY <2>3 DEF ReturnIssues, poolVars
    <3>2. \A j \in JobIds : all[j] = 1
      BY <3>1, QuietMeansGathered DEF StageInv
    <3>3. Gathered = JobIds
      BY <3>2 DEF Gathered
    <3>4. 1..(nextProgram - 1) = DOMAIN ProgramGroups
      BY <3>1, UnitsAreDistinct
    <3>5. Units \ Reported = {}
      BY <3>3, <3>4 DEF Units, Reported
    <3>6. Reported' = Reported
      BY <3>1 DEF Reported, Gathered
    <3>7. Promise!HandOut
      BY <3>1, <3>5, <3>6 DEF Promise!HandOut
    <3> QED
      BY <3>7 DEF Promise!Next
  <2>4. CASE ~Collect /\ ~RunProgramGroup /\ ~ReturnIssues
    <3>1. /\ UNCHANGED <<all, nextProgram>>
          /\ stage' = stage \/ (stage = "package" /\ stage' = "program")
      BY <2>4 DEF Next, Feeder, Main, WorkerStep, Returned, Feed, CloseJobs,
           Load, RunPackage, CountExecution, SendResult, SendDone,
           ReturnPackageIssues, vars, poolVars
    <3> QED
      BY <3>1, SilentStepsStutter
  <2> QED
    BY <2>1, <2>2, <2>3, <2>4
<1> QED
  BY <1>1, <1>2, PoolInvariance, PTL DEF Spec, ImplementsWorklist, Promise!Spec
=============================================================================
