------------------------ MODULE PollingQueue_proofs ------------------------
(***************************************************************************)
(* Proofs about PollingQueue, for every number of jobs, queues and runs,   *)
(* every Concurrency and every choice of reporting, throwing and           *)
(* cancellable jobs.                                                       *)
(***************************************************************************)
EXTENDS PollingQueue, SequenceTheorems, FiniteSetTheorems,
        WellFoundedInduction, TLAPS

-----------------------------------------------------------------------------
(* The operators of Job.                                                   *)

\* The count of attempts of one job, as AttemptsBounded asks for it.
AttemptsOK(job) ==
    /\ job.attempts <= job.retries + 1
    /\ job.state = "RETRYING" => job.attempts <= job.retries
    /\ job.state = "PENDING" => job.attempts = 0

\* What one step may do to one job: start, complete, fail, cancel, defer.
JobStep(old, new) ==
    \/ new = old
    \/ new = StartJob(old)
    \/ new = CompleteJob(old)
    \/ new = FailJob(old)
    \/ new = CancelJob(old)
    \/ new = DeferJob(old)

\* Every method of Job leaves a well-formed job whose attempts are in bounds.
LEMMA JobStepOK ==
    ASSUME NEW old \in JobRecord, NEW new, JobStep(old, new)
    PROVE  /\ new \in JobRecord
           /\ AttemptsOK(old) => AttemptsOK(new)
<1>1. CASE new = old
    BY <1>1
<1>2. CASE new = StartJob(old)
    <2>1. CASE old.state \in Waiting
        <3>1. new = [state |-> "RUNNING", retries |-> old.retries,
                     attempts |-> old.attempts + 1, settledAt |-> old.settledAt]
            BY <1>2, <2>1 DEF StartJob, JobRecord
        <3>2. QED
            BY <2>1, <3>1 DEF JobRecord, JobState, Waiting, AttemptsOK
    <2>2. CASE old.state \notin Waiting
        BY <1>2, <2>2 DEF StartJob
    <2>3. QED
        BY <2>1, <2>2
<1>3. CASE new = CompleteJob(old)
    BY <1>3 DEF CompleteJob, JobRecord, JobState, AttemptsOK
<1>4. CASE new = FailJob(old)
    BY <1>4 DEF FailJob, JobRecord, JobState, AttemptsOK
<1>5. CASE new = CancelJob(old)
    BY <1>5 DEF CancelJob, JobRecord, JobState, AttemptsOK
<1>6. CASE new = DeferJob(old)
    <2>1. CASE old.state = "RUNNING"
        <3>1. new = [state |-> "PENDING", retries |-> old.retries,
                     attempts |-> 0, settledAt |-> old.settledAt]
            BY <1>6, <2>1 DEF DeferJob, JobRecord
        <3>2. QED
            BY <3>1 DEF JobRecord, JobState, AttemptsOK
    <2>2. CASE old.state # "RUNNING"
        BY <1>6, <2>2 DEF DeferJob
    <2>3. QED
        BY <2>1, <2>2
<1>7. QED
    BY <1>1, <1>2, <1>3, <1>4, <1>5, <1>6 DEF JobStep

\* The constructor does so too.
LEMMA NewJobOK ==
    ASSUME NEW n \in Nat
    PROVE  NewJob(n) \in JobRecord /\ AttemptsOK(NewJob(n))
BY DEF NewJob, JobRecord, JobState, AttemptsOK

-----------------------------------------------------------------------------
(* The helpers of the adapter and of the loop.                             *)

\* A set of naturals has a least element: what Min of the library returns.
LEMMA LeastElement ==
    ASSUME NEW S, S \subseteq Nat, S # {}
    PROVE  Min(S) \in S
<1> DEFINE Less == {ss \in Nat \X Nat : ss[1] < ss[2]}
<1>1. Less = OpToRel(<, Nat)
    BY DEF OpToRel
<1>2. PICK x \in S : \A y \in S : ~ (<<y, x>> \in Less)
    <2>1. IsWellFoundedOn(Less, Nat)
        BY <1>1, NatLessThanWellFounded
    <2> HIDE DEF Less
    <2>2. QED
        BY <2>1, WFMin
<1>3. ASSUME NEW y \in S PROVE x <= y
    <2>1. ~ (y < x)
        BY <1>2
    <2>2. QED
        BY <2>1
<1>4. QED
    BY <1>3 DEF Min

\* Splicing one element out of activeJobs leaves a list that is no longer.
LEMMA RemoveJobFromActiveProperties ==
    ASSUME NEW list \in Seq(Jobs), NEW j
    PROVE  /\ RemoveJobFromActive(list, j) \in Seq(Jobs)
           /\ Len(RemoveJobFromActive(list, j)) <= Len(list)
<1> DEFINE n == Len(list)
<1>0. /\ n \in Nat
      /\ list \in [1..n -> Jobs]
    BY LenProperties
<1>1. ASSUME NEW a \in Int, NEW b \in Int, 1 <= a, b <= n
      PROVE  /\ SubSeq(list, a, b) \in Seq(Jobs)
             /\ Len(SubSeq(list, a, b)) = IF a <= b THEN b - a + 1 ELSE 0
    BY <1>0, <1>1, SubSeqProperties
<1>2. CASE Contains(list, j)
    <2> DEFINE P == {i \in 1..n : list[i] = j}
               m == Min(P)
    <2>1. P # {} /\ P \subseteq Nat
        BY <1>0, <1>2 DEF Contains
    <2>2. m \in 1..n
        BY <2>1, LeastElement
    <2>3. RemoveJobFromActive(list, j) = SubSeq(list, 1, m - 1) \o SubSeq(list, m + 1, n)
        BY <1>2, <2>1 DEF RemoveJobFromActive, RemoveFirst, RemoveAt, SelectInSeq,
                          Contains
    <2> HIDE DEF m
    <2>4. /\ SubSeq(list, 1, m - 1) \in Seq(Jobs)
          /\ SubSeq(list, m + 1, n) \in Seq(Jobs)
          /\ Len(SubSeq(list, 1, m - 1)) = m - 1
          /\ Len(SubSeq(list, m + 1, n)) = n - m
        <3>1. m \in Int /\ 1 <= m /\ m <= n
            BY <1>0, <2>2
        <3>2. /\ SubSeq(list, 1, m - 1) \in Seq(Jobs)
              /\ Len(SubSeq(list, 1, m - 1)) = IF 1 <= m - 1 THEN m - 1 - 1 + 1 ELSE 0
            BY <1>0, <1>1, <3>1
        <3>3. /\ SubSeq(list, m + 1, n) \in Seq(Jobs)
              /\ Len(SubSeq(list, m + 1, n)) = IF m + 1 <= n THEN n - (m + 1) + 1 ELSE 0
            BY <1>0, <1>1, <3>1
        <3>4. /\ (IF 1 <= m - 1 THEN m - 1 - 1 + 1 ELSE 0) = m - 1
              /\ (IF m + 1 <= n THEN n - (m + 1) + 1 ELSE 0) = n - m
            <4> HIDE DEF n
            <4>1. n \in Nat
                BY <1>0
            <4>2. QED
                BY <3>1, <4>1
        <3>5. QED
            BY <3>2, <3>3, <3>4
    <2>5. /\ RemoveJobFromActive(list, j) \in Seq(Jobs)
          /\ Len(RemoveJobFromActive(list, j)) = (m - 1) + (n - m)
        BY <2>3, <2>4, ConcatProperties
    <2>6. QED
        BY <1>0, <2>2, <2>5
<1>3. CASE ~ Contains(list, j) /\ list = <<>>
    BY <1>0, <1>3 DEF RemoveJobFromActive
<1>4. CASE ~ Contains(list, j) /\ list # <<>>
    <2>1. n >= 1
        BY <1>0, <1>4, EmptySeq
    <2>2. RemoveJobFromActive(list, j) = SubSeq(list, 1, n - 1)
        BY <1>4 DEF RemoveJobFromActive, Front
    <2>3. QED
        BY <1>0, <1>1, <2>1, <2>2
<1>5. QED
    BY <1>2, <1>3, <1>4

-----------------------------------------------------------------------------
(* What the loop's helpers do to the variables they touch.                 *)

\* The loop of q has gone to next() with i = n, and no other loop moved.
AtNext(q, n) ==
    /\ loop' = [loop EXCEPT ![q] = "next"]
    /\ index' = [index EXCEPT ![q] = n]
    /\ \A k \in Queues \ {q} : held'[k] = held[k]

\* The pass of q is over.
PassEnded(q) ==
    /\ loop' \in {[loop EXCEPT ![q] = "timer"], [loop EXCEPT ![q] = "ended"]}
    /\ index' = [index EXCEPT ![q] = 0]
    /\ \A k \in Queues \ {q} : held'[k] = held[k]

\* The types of what CallNext and EndPass assign, and a step of each job.
AdapterStep ==
    /\ jobs' \in [Jobs -> JobRecord]
    /\ \A j \in Jobs : JobStep(jobs[j], jobs'[j])
    /\ unsettled' \in Seq(Jobs)
    /\ held' \in [Queues -> Jobs \cup {NoJob}]

\* next() keeps the types: it starts the head of the list, or nothing.
LEMMA CallNextStep ==
    ASSUME TypeOK, NEW q \in Queues, NEW n, CallNext(q, n)
    PROVE  AdapterStep /\ AtNext(q, n)
<1>1. AtNext(q, n)
    BY DEF CallNext, AtNext, TypeOK
<1>2. CASE /\ unsettled' = unsettled /\ jobs' = jobs
           /\ held' = [held EXCEPT ![q] = NoJob]
    BY <1>1, <1>2 DEF TypeOK, AdapterStep, JobStep
<1>3. ASSUME unsettled # <<>>
      PROVE  /\ Head(unsettled) \in Jobs
             /\ Tail(unsettled) \in Seq(Jobs)
             /\ Append(Tail(unsettled), Head(unsettled)) \in Seq(Jobs)
    BY <1>3, HeadTailProperties, AppendProperties DEF TypeOK
<1>4. CASE /\ unsettled # <<>>
           /\ unsettled' = Append(Tail(unsettled), Head(unsettled))
           /\ jobs' = jobs
           /\ held' = [held EXCEPT ![q] = NoJob]
    BY <1>1, <1>3, <1>4 DEF TypeOK, AdapterStep, JobStep
<1>5. CASE /\ unsettled # <<>>
           /\ unsettled' = Tail(unsettled)
           /\ held' = [held EXCEPT ![q] = Head(unsettled)]
           /\ jobs' = [jobs EXCEPT ![Head(unsettled)] = StartJob(@)]
    <2>1. StartJob(jobs[Head(unsettled)]) \in JobRecord
        BY <1>3, <1>5, JobStepOK DEF TypeOK, JobStep
    <2>2. jobs' \in [Jobs -> JobRecord]
        BY <1>5, <2>1 DEF TypeOK
    <2>3. \A j \in Jobs : JobStep(jobs[j], jobs'[j])
        BY <1>3, <1>5 DEF TypeOK, JobStep
    <2>4. unsettled' \in Seq(Jobs) /\ held' \in [Queues -> Jobs \cup {NoJob}]
        BY <1>3, <1>5 DEF TypeOK
    <2>5. QED
        BY <1>1, <2>2, <2>3, <2>4 DEF AdapterStep
<1>6. QED
    BY <1>1, <1>2, <1>4, <1>5 DEF CallNext

\* So does the end of a pass, which leaves the adapter alone.
LEMMA EndPassStep ==
    ASSUME TypeOK, NEW q \in Queues, EndPass(q)
    PROVE  AdapterStep /\ PassEnded(q)
BY DEF EndPass, TypeOK, AdapterStep, JobStep, PassEnded

\* The loop goes on at i + 1 if that is below Concurrency, or the pass ends.
LEMMA ContinueStep ==
    ASSUME TypeOK, NEW q \in Queues, Continue(q)
    PROVE  /\ AdapterStep
           /\ \/ index[q] + 1 < Concurrency /\ AtNext(q, index[q] + 1)
              \/ PassEnded(q)
BY CallNextStep, EndPassStep DEF Continue

\* update() keeps the types.
LEMMA UpdateStep ==
    ASSUME TypeOK, NEW j \in Jobs, Update(j)
    PROVE  store' \in SUBSET Jobs /\ unsettled' \in Seq(Jobs)
<1>1. <<j>> \o unsettled \in Seq(Jobs)
    BY ConcatProperties DEF TypeOK
<1>2. QED
    BY <1>1 DEF Update, TypeOK

-----------------------------------------------------------------------------
(* The inductive invariant: types, the bound on the active list at every   *)
(* point of a loop, and the count of attempts.                             *)

\* Between its two awaits a loop has room for the jobs it is about to push:
\* i is at least the length of activeJobs, which others only make shorter.
LoopOK ==
    \A q \in Queues :
        /\ Len(active[q]) <= Concurrency
        /\ loop[q] = "unused" => active[q] = <<>>
        /\ loop[q] = "next" => Len(active[q]) <= index[q]
        /\ loop[q] = "update" => /\ Len(active[q]) <= index[q] + 1
                                 /\ held[q] \in Jobs

\* A slot in use names a job and a queue.
RunsOK ==
    \A r \in Runs : runs[r].phase # "idle" =>
        runs[r].job \in Jobs /\ runs[r].queue \in Queues

IInv == TypeOK /\ LoopOK /\ RunsOK /\ AttemptsBounded

\* AttemptsBounded follows wherever every job takes a step of its own.
LEMMA AttemptsStep ==
    ASSUME TypeOK, AttemptsBounded,
           \A j \in Jobs : JobStep(jobs[j], jobs'[j])
    PROVE  AttemptsBounded'
<1>1. \A j \in Jobs : AttemptsOK(jobs[j])
    BY DEF AttemptsBounded, AttemptsOK
<1>2. \A j \in Jobs : AttemptsOK(jobs'[j])
    BY <1>1, JobStepOK DEF TypeOK
<1>3. QED
    BY <1>2 DEF AttemptsBounded, AttemptsOK

\* Going to next() with i no smaller than the active list keeps LoopOK.
LEMMA AtNextLoopOK ==
    ASSUME TypeOK, LoopOK, NEW q \in Queues, NEW n \in 0..(Concurrency - 1),
           AtNext(q, n), UNCHANGED active, Len(active[q]) <= n
    PROVE  /\ LoopOK'
           /\ loop' \in [Queues -> {"unused", "timer", "next", "update", "ended"}]
           /\ index' \in [Queues -> 0..(Concurrency - 1)]
<1>1. ASSUME NEW k \in Queues, k # q
      PROVE  loop'[k] = loop[k] /\ index'[k] = index[k] /\ held'[k] = held[k]
    BY <1>1 DEF AtNext, TypeOK
<1>2. loop'[q] = "next" /\ index'[q] = n
    BY DEF AtNext, TypeOK
<1>3. LoopOK'
    BY <1>1, <1>2 DEF LoopOK
<1>4. QED
    BY <1>3 DEF AtNext, TypeOK

\* So does the end of a pass.
LEMMA PassEndedLoopOK ==
    ASSUME TypeOK, LoopOK, NEW q \in Queues, PassEnded(q), UNCHANGED active
    PROVE  /\ LoopOK'
           /\ loop' \in [Queues -> {"unused", "timer", "next", "update", "ended"}]
           /\ index' \in [Queues -> 0..(Concurrency - 1)]
<1>1. ASSUME NEW k \in Queues, k # q
      PROVE  loop'[k] = loop[k] /\ index'[k] = index[k] /\ held'[k] = held[k]
    BY <1>1 DEF PassEnded, TypeOK
<1>2. loop'[q] \in {"timer", "ended"}
    BY DEF PassEnded, TypeOK
<1>3. LoopOK'
    BY <1>1, <1>2 DEF LoopOK
<1>4. 0 \in 0..(Concurrency - 1)
    BY ConcurrencyAssumption
<1>5. index' \in [Queues -> 0..(Concurrency - 1)]
    BY <1>4 DEF PassEnded, TypeOK
<1>6. loop' \in [Queues -> {"unused", "timer", "next", "update", "ended"}]
    BY DEF PassEnded, TypeOK
<1>7. QED
    BY <1>3, <1>5, <1>6

\* The loop that goes on after update() keeps LoopOK, whichever way it goes.
LEMMA ContinueLoopOK ==
    ASSUME TypeOK, LoopOK, NEW q \in Queues, loop[q] \in {"next", "update"},
           Continue(q), UNCHANGED active
    PROVE  /\ LoopOK'
           /\ loop' \in [Queues -> {"unused", "timer", "next", "update", "ended"}]
           /\ index' \in [Queues -> 0..(Concurrency - 1)]
<1>1. CASE PassEnded(q)
    BY <1>1, PassEndedLoopOK
<1>2. CASE index[q] + 1 < Concurrency /\ AtNext(q, index[q] + 1)
    <2>1. index[q] + 1 \in 0..(Concurrency - 1)
        BY <1>2, ConcurrencyAssumption DEF TypeOK
    <2>2. Len(active[q]) <= index[q] + 1
        <3>1. Len(active[q]) \in Nat
            BY LenProperties DEF TypeOK
        <3>2. QED
            BY <2>1, <3>1 DEF LoopOK, TypeOK
    <2>3. QED
        BY <1>2, <2>1, <2>2, AtNextLoopOK
<1>3. QED
    BY <1>1, <1>2, ContinueStep

-----------------------------------------------------------------------------
(* The invariant is inductive: one step per action.                        *)

\* No job, no ActiveQueue and no run satisfy the invariant.
LEMMA InitIInv == Init => IInv
<1> SUFFICES ASSUME Init PROVE IInv
    OBVIOUS
<1>1. NewJob(0) \in JobRecord /\ AttemptsOK(NewJob(0))
    BY NewJobOK
<1>2. 0 \in 0..(Concurrency - 1) /\ 0 \in 0..JobCount
    BY ConcurrencyAssumption, JobCountAssumption
<1>3. <<>> \in Seq(Jobs) /\ Len(<<>>) = 0
    BY EmptySeq
<1>4. IdleRun \in RunRecord
    BY DEF IdleRun, RunRecord, Phase, Outcome
<1>5. TypeOK
    BY <1>1, <1>2, <1>3, <1>4 DEF Init, InitAdapter, InitStrategy, InitActiveQueues, TypeOK
<1>6. LoopOK
    BY <1>3, ConcurrencyAssumption DEF Init, InitAdapter, InitStrategy, InitActiveQueues, LoopOK
<1>7. RunsOK
    BY DEF Init, InitAdapter, InitStrategy, InitActiveQueues, RunsOK, IdleRun
<1>8. AttemptsBounded
    BY <1>1 DEF Init, InitAdapter, InitStrategy, InitActiveQueues, AttemptsBounded, AttemptsOK
<1>9. QED
    BY <1>5, <1>6, <1>7, <1>8 DEF IInv

\* What clients call keeps the invariant: add, cancelJob, start and stop.
LEMMA ClientIInv ==
    ASSUME IInv, Client
    PROVE  IInv'
<1> USE DEF clientVars, adapterVars, loopVars
<1>1. ASSUME NEW n \in RetryCounts, Add(n)
      PROVE  IInv'
    <2>1. NewJob(n) \in JobRecord /\ AttemptsOK(NewJob(n))
        BY NewJobOK, RetryAssumption
    <2>2. created + 1 \in Jobs
        BY <1>1 DEF Add
    <2>3. Append(unsettled, created + 1) \in Seq(Jobs)
        BY <2>2, AppendProperties DEF IInv, TypeOK
    <2>4. TypeOK'
        BY <1>1, <2>1, <2>2, <2>3, JobCountAssumption DEF Add, IInv, TypeOK, Jobs
    <2>5. LoopOK' /\ RunsOK'
        BY <1>1 DEF Add, IInv, LoopOK, RunsOK
    <2>6. AttemptsBounded'
        BY <1>1, <2>1, <2>2 DEF Add, IInv, TypeOK, AttemptsBounded, AttemptsOK
    <2>7. QED
        BY <2>4, <2>5, <2>6 DEF IInv
<1>2. ASSUME NEW j \in Jobs, CancelJobBegin(j)
      PROVE  IInv'
    BY <1>2 DEF CancelJobBegin, IInv, TypeOK, LoopOK, RunsOK, AttemptsBounded
<1>3. ASSUME RemoveSettledJobs
      PROVE  IInv'
    BY <1>3 DEF RemoveSettledJobs, IInv, TypeOK, LoopOK, RunsOK, AttemptsBounded
<1>4. ASSUME NEW p \in Processes, StartQueue(p)
      PROVE  IInv'
    <2>1. PICK q \in Queues :
              /\ loop[q] = "unused"
              /\ registered' = [registered EXCEPT ![p] = q]
              /\ running' = [running EXCEPT ![q] = TRUE]
              /\ CallNext(q, 0)
        BY <1>4 DEF StartQueue, StartActiveQueue, Has, Set
    <2>2. AdapterStep /\ AtNext(q, 0)
        BY <2>1, CallNextStep DEF IInv
    <2>3. 0 \in 0..(Concurrency - 1) /\ Len(active[q]) <= 0
        BY <2>1, ConcurrencyAssumption, EmptySeq DEF IInv, LoopOK
    <2>4. /\ LoopOK'
          /\ loop' \in [Queues -> {"unused", "timer", "next", "update", "ended"}]
          /\ index' \in [Queues -> 0..(Concurrency - 1)]
        BY <1>4, <2>2, <2>3, AtNextLoopOK DEF StartQueue, StartActiveQueue, Has, Set, IInv
    <2>5. TypeOK'
        BY <1>4, <2>1, <2>2, <2>4 DEF StartQueue, StartActiveQueue, Has, Set, IInv, TypeOK, AdapterStep
    <2>6. RunsOK'
        BY <1>4 DEF StartQueue, StartActiveQueue, Has, Set, IInv, RunsOK
    <2>7. AttemptsBounded'
        BY <2>2, AttemptsStep DEF IInv, AdapterStep
    <2>8. QED
        BY <2>4, <2>5, <2>6, <2>7 DEF IInv
<1>5. ASSUME NEW p \in Processes, StopQueue(p)
      PROVE  IInv'
    <2> DEFINE q == registered[p]
    <2>1. q \in Queues
        BY <1>5 DEF StopQueue, StopActiveQueue, Has, Delete, IInv, TypeOK
    <2>2. \A r \in Runs : /\ runs'[r] \in RunRecord
                          /\ runs'[r].job = runs[r].job
                          /\ runs'[r].queue = runs[r].queue
                          /\ runs'[r].phase # "idle" => runs[r].phase # "idle"
        BY <1>5 DEF StopQueue, StopActiveQueue, Has, Delete, IInv, TypeOK, RunRecord, Phase, Outcome
    <2>3. runs' \in [Runs -> RunRecord]
        BY <1>5, <2>2 DEF StopQueue, StopActiveQueue, Has, Delete
    <2>4. TypeOK'
        BY <1>5, <2>1, <2>3 DEF StopQueue, StopActiveQueue, Has, Delete, IInv, TypeOK
    <2>5. LoopOK'
        BY <1>5, <2>1 DEF StopQueue, StopActiveQueue, Has, Delete, IInv, TypeOK, LoopOK
    <2>6. RunsOK'
        BY <2>2 DEF IInv, RunsOK
    <2>7. AttemptsBounded'
        BY <1>5 DEF StopQueue, StopActiveQueue, Has, Delete, IInv, AttemptsBounded
    <2>8. QED
        BY <2>4, <2>5, <2>6, <2>7 DEF IInv
<1>6. QED
    BY <1>1, <1>2, <1>3, <1>4, <1>5 DEF Client

\* Recycling a slot gives a run that satisfies RunsOK again.
LEMMA RecycledOK ==
    ASSUME NEW run \in RunRecord
    PROVE  /\ Recycled(run) \in RunRecord
           /\ Recycled(run).phase # "idle" =>
                 /\ Recycled(run).phase = run.phase
                 /\ Recycled(run).job = run.job
                 /\ Recycled(run).queue = run.queue
BY DEF Recycled, IdleRun, RunRecord, Phase, Outcome

\* A step that gives one run a new value and touches no loop and no list of
\* active jobs.
LEMMA OneRunStep ==
    ASSUME TypeOK, LoopOK, RunsOK, NEW r \in Runs, NEW run \in RunRecord,
           run.phase # "idle" => run.job \in Jobs /\ run.queue \in Queues,
           runs' = [runs EXCEPT ![r] = run],
           UNCHANGED <<active, loop, index, held>>
    PROVE  runs' \in [Runs -> RunRecord] /\ RunsOK' /\ LoopOK'
BY DEF TypeOK, RunsOK, LoopOK

\* So does the loop: its counter i bounds the active list across both awaits.
LEMMA LoopIInv ==
    ASSUME IInv, NEW q \in Queues,
           Accept(q) \/ NothingToDo(q) \/ Launch(q) \/ LaunchThrows(q)
    PROVE  IInv'
<1> USE DEF clientVars, adapterVars, loopVars
<1>1. CASE Accept(q)
    <2>1. held[q] \in Jobs
        BY <1>1 DEF Accept, IInv, TypeOK
    <2>2. /\ store' \in SUBSET Jobs
          /\ unsettled' \in Seq(Jobs)
        BY <1>1, <2>1, UpdateStep DEF Accept, IInv
    <2>3. /\ Append(active[q], held[q]) \in Seq(Jobs)
          /\ Len(Append(active[q], held[q])) = Len(active[q]) + 1
          /\ Len(active[q]) \in Nat
        BY <2>1, AppendProperties, LenProperties DEF IInv, TypeOK
    <2>4. active' = [active EXCEPT ![q] = Append(active[q], held[q])]
        BY <1>1 DEF Accept
    <2>5. TypeOK'
        BY <1>1, <2>1, <2>2, <2>3, <2>4 DEF Accept, IInv, TypeOK
    <2>6. Len(active'[q]) <= index[q] + 1 /\ Len(active'[q]) <= Concurrency
        BY <1>1, <2>3, <2>4, ConcurrencyAssumption DEF Accept, IInv, TypeOK, LoopOK
    <2>7. loop' = [loop EXCEPT ![q] = "update"] /\ UNCHANGED <<index, held>>
        BY <1>1 DEF Accept
    <2>8. LoopOK'
        BY <2>1, <2>4, <2>6, <2>7 DEF IInv, TypeOK, LoopOK
    <2>9. RunsOK' /\ AttemptsBounded'
        BY <1>1 DEF Accept, IInv, RunsOK, AttemptsBounded
    <2>10. QED
        BY <2>5, <2>8, <2>9 DEF IInv
<1>2. CASE NothingToDo(q)
    <2>1. /\ AdapterStep
          /\ LoopOK'
          /\ loop' \in [Queues -> {"unused", "timer", "next", "update", "ended"}]
          /\ index' \in [Queues -> 0..(Concurrency - 1)]
        BY <1>2, ContinueStep, ContinueLoopOK DEF NothingToDo, IInv
    <2>2. TypeOK' /\ RunsOK'
        BY <1>2, <2>1 DEF NothingToDo, IInv, TypeOK, RunsOK, AdapterStep
    <2>3. AttemptsBounded'
        BY <2>1, AttemptsStep DEF IInv, AdapterStep
    <2>4. QED
        BY <2>1, <2>2, <2>3 DEF IInv
<1>3. CASE Launch(q)
    <2>1. PICK r \in Runs :
              runs' = [runs EXCEPT ![r] =
                         [job |-> held[q], queue |-> q, phase |-> "racing",
                          outcome |-> "none", working |-> TRUE]]
        BY <1>3 DEF Launch
    <2>2. held[q] \in Jobs
        BY <1>3 DEF Launch, IInv, LoopOK
    <2>3. runs' \in [Runs -> RunRecord] /\ RunsOK'
        BY <2>1, <2>2 DEF IInv, TypeOK, RunsOK, RunRecord, Phase, Outcome
    <2>4. /\ AdapterStep
          /\ LoopOK'
          /\ loop' \in [Queues -> {"unused", "timer", "next", "update", "ended"}]
          /\ index' \in [Queues -> 0..(Concurrency - 1)]
        BY <1>3, ContinueStep, ContinueLoopOK DEF Launch, IInv
    <2>5. TypeOK'
        BY <1>3, <2>3, <2>4 DEF Launch, IInv, TypeOK, AdapterStep
    <2>6. AttemptsBounded'
        BY <2>4, AttemptsStep DEF IInv, AdapterStep
    <2>7. QED
        BY <2>3, <2>4, <2>5, <2>6 DEF IInv
<1>4. CASE LaunchThrows(q)
    <2>1. PICK r \in Runs :
              runs' = [runs EXCEPT ![r] =
                         [job |-> held[q], queue |-> q, phase |-> "leaked",
                          outcome |-> "error", working |-> FALSE]]
        BY <1>4 DEF LaunchThrows
    <2>2. held[q] \in Jobs
        BY <1>4 DEF LaunchThrows, IInv, LoopOK
    <2>3. runs' \in [Runs -> RunRecord] /\ RunsOK'
        BY <2>1, <2>2 DEF IInv, TypeOK, RunsOK, RunRecord, Phase, Outcome
    <2>4. /\ AdapterStep
          /\ LoopOK'
          /\ loop' \in [Queues -> {"unused", "timer", "next", "update", "ended"}]
          /\ index' \in [Queues -> 0..(Concurrency - 1)]
        BY <1>4, EndPassStep, PassEndedLoopOK DEF LaunchThrows, IInv
    <2>5. TypeOK'
        BY <1>4, <2>3, <2>4 DEF LaunchThrows, IInv, TypeOK, AdapterStep
    <2>6. AttemptsBounded'
        BY <2>4, AttemptsStep DEF IInv, AdapterStep
    <2>7. QED
        BY <2>3, <2>4, <2>5, <2>6 DEF IInv
<1>5. QED
    BY <1>1, <1>2, <1>3, <1>4

\* So do the callbacks of a run, which only shorten the active list.
LEMMA RunIInv ==
    ASSUME IInv, NEW r \in Runs,
           \/ Settle(r) \/ FinallyReturns(r) \/ FinallyUpdates(r)
           \/ RemoveFromActive(r) \/ ProcessEnds(r) \/ CancellationTick(r)
    PROVE  IInv'
<1> USE DEF clientVars, adapterVars, loopVars
<1>0. runs[r] \in RunRecord
    BY DEF IInv, TypeOK
<1>1. CASE Settle(r)
    <2> DEFINE j == runs[r].job
               new == Outcome2Job(jobs[j], runs[r].outcome)
    <2>1. j \in Jobs
        BY <1>1 DEF Settle, IInv, RunsOK
    <2>2. JobStep(jobs[j], new)
        BY DEF Outcome2Job, JobStep
    <2>3. new \in JobRecord
        BY <2>1, <2>2, JobStepOK DEF IInv, TypeOK
    <2>4. jobs' = [jobs EXCEPT ![j] = new]
        BY <1>1 DEF Settle
    <2> HIDE DEF new
    <2>5. jobs' \in [Jobs -> JobRecord] /\ \A k \in Jobs : JobStep(jobs[k], jobs'[k])
        BY <2>1, <2>2, <2>3, <2>4 DEF IInv, TypeOK, JobStep
    <2>6. runs' \in [Runs -> RunRecord] /\ RunsOK' /\ LoopOK'
        BY <1>0, <1>1, OneRunStep DEF Settle, IInv, RunsOK, RunRecord, Phase
    <2>7. TypeOK'
        BY <1>1, <2>5, <2>6 DEF Settle, IInv, TypeOK
    <2>8. AttemptsBounded'
        BY <2>5, AttemptsStep DEF IInv
    <2>9. QED
        BY <2>6, <2>7, <2>8 DEF IInv
<1>2. CASE FinallyReturns(r)
    <2>1. runs' \in [Runs -> RunRecord] /\ RunsOK' /\ LoopOK'
        BY <1>0, <1>2, OneRunStep DEF FinallyReturns, IInv, RunsOK, RunRecord, Phase
    <2>2. QED
        BY <1>2, <2>1 DEF FinallyReturns, IInv, TypeOK, AttemptsBounded
<1>3. CASE FinallyUpdates(r)
    <2>1. runs' \in [Runs -> RunRecord] /\ RunsOK' /\ LoopOK'
        BY <1>0, <1>3, OneRunStep DEF FinallyUpdates, IInv, RunsOK, RunRecord, Phase
    <2>2. store' \in SUBSET Jobs /\ unsettled' \in Seq(Jobs)
        BY <1>3, UpdateStep DEF FinallyUpdates, IInv, RunsOK
    <2>3. QED
        BY <1>3, <2>1, <2>2 DEF FinallyUpdates, IInv, TypeOK, AttemptsBounded
<1>4. CASE RemoveFromActive(r)
    <2> DEFINE q == runs[r].queue
               list == RemoveJobFromActive(active[q], runs[r].job)
               run == Recycled([runs[r] EXCEPT !.phase = "closed"])
    <2>1. q \in Queues /\ runs[r].job \in Jobs
        BY <1>4 DEF RemoveFromActive, IInv, RunsOK
    <2>2. list \in Seq(Jobs) /\ Len(list) <= Len(active[q])
        BY <2>1, RemoveJobFromActiveProperties DEF IInv, TypeOK
    <2>3. Len(list) \in Nat /\ Len(active[q]) \in Nat
        BY <2>1, <2>2, LenProperties DEF IInv, TypeOK
    <2>4. active' = [active EXCEPT ![q] = list]
        BY <1>4 DEF RemoveFromActive
    <2>5. loop[q] # "unused"  \/ list = <<>>
        <3>1. CASE loop[q] = "unused"
            <4>1. Len(active[q]) = 0
                BY <2>1, <3>1, EmptySeq DEF IInv, LoopOK
            <4>2. Len(list) = 0
                BY <2>2, <2>3, <4>1
            <4>3. QED
                BY <2>2, <4>2, EmptySeq
        <3>2. QED
            BY <3>1
    <2>6. [runs[r] EXCEPT !.phase = "closed"] \in RunRecord
        BY <1>0 DEF RunRecord, Phase
    <2>7. /\ run \in RunRecord
          /\ run.phase # "idle" => run.job \in Jobs /\ run.queue \in Queues
        BY <1>0, <2>1, <2>6, RecycledOK DEF RunRecord
    <2>8. runs' = [runs EXCEPT ![r] = run]
        BY <1>4 DEF RemoveFromActive
    <2> HIDE DEF run, list
    <2>9. TypeOK' /\ RunsOK'
        <3>1. active' \in [Queues -> Seq(Jobs)]
            BY <2>1, <2>2, <2>4 DEF IInv, TypeOK
        <3>2. runs' \in [Runs -> RunRecord] /\ RunsOK'
            BY <2>7, <2>8 DEF IInv, TypeOK, RunsOK
        <3>3. QED
            BY <1>4, <3>1, <3>2 DEF RemoveFromActive, IInv, TypeOK
    <2>10. UNCHANGED <<loop, index, held, jobs>>
        BY <1>4 DEF RemoveFromActive
    <2>11. ASSUME NEW k \in Queues
           PROVE  /\ Len(active'[k]) <= Len(active[k])
                  /\ Len(active'[k]) \in Nat /\ Len(active[k]) \in Nat
                  /\ loop[k] = "unused" => active'[k] = <<>>
        <3>1. active[k] \in Seq(Jobs) /\ Len(active[k]) \in Nat
            BY LenProperties DEF IInv, TypeOK
        <3>2. QED
            BY <2>1, <2>2, <2>3, <2>4, <2>5, <3>1 DEF IInv, TypeOK, LoopOK
    <2>12. LoopOK'
        BY <2>10, <2>11, ConcurrencyAssumption DEF IInv, TypeOK, LoopOK
    <2>13. AttemptsBounded'
        BY <2>10 DEF IInv, AttemptsBounded
    <2>14. QED
        BY <2>9, <2>12, <2>13 DEF IInv
<1>5. CASE ProcessEnds(r)
    <2>1. CASE runs[r].phase = "racing"
        <3>1. PICK o \in {"value", "error"} :
                  runs' = [runs EXCEPT ![r] = [runs[r] EXCEPT !.phase = "resolved",
                                                              !.outcome = o,
                                                              !.working = FALSE]]
            BY <1>0, <1>5, <2>1 DEF ProcessEnds, IInv, TypeOK
        <3>2. runs' \in [Runs -> RunRecord] /\ RunsOK' /\ LoopOK'
            <4> DEFINE run == [runs[r] EXCEPT !.phase = "resolved",
                                              !.outcome = o, !.working = FALSE]
            <4>1. run \in RunRecord
                BY <1>0 DEF RunRecord, Phase, Outcome
            <4>2. run.job \in Jobs /\ run.queue \in Queues
                BY <1>0, <2>1 DEF IInv, RunsOK, RunRecord
            <4>3. UNCHANGED <<active, loop, index, held>>
                BY <1>5 DEF ProcessEnds
            <4> HIDE DEF run
            <4>4. QED
                BY <3>1, <4>1, <4>2, <4>3, OneRunStep DEF IInv, run
        <3>3. QED
            BY <1>5, <3>2 DEF ProcessEnds, IInv, TypeOK, AttemptsBounded
    <2>2. CASE runs[r].phase # "racing"
        <3> DEFINE run == Recycled([runs[r] EXCEPT !.working = FALSE])
        <3>1. [runs[r] EXCEPT !.working = FALSE] \in RunRecord
            BY <1>0 DEF RunRecord
        <3>2. /\ run \in RunRecord
              /\ run.phase # "idle" => run.job \in Jobs /\ run.queue \in Queues
            BY <1>0, <3>1, RecycledOK DEF RunRecord, IInv, RunsOK
        <3>3. runs' = [runs EXCEPT ![r] = run]
            BY <1>5, <2>2 DEF ProcessEnds
        <3> HIDE DEF run
        <3>4. runs' \in [Runs -> RunRecord] /\ RunsOK' /\ LoopOK'
            BY <1>5, <3>2, <3>3, OneRunStep DEF ProcessEnds, IInv
        <3>5. QED
            BY <1>5, <3>4 DEF ProcessEnds, IInv, TypeOK, AttemptsBounded
    <2>3. QED
        BY <2>1, <2>2
<1>6. CASE CancellationTick(r)
    <2> DEFINE run == [runs[r] EXCEPT !.phase = "resolved", !.outcome = "cancelled"]
    <2>1. /\ run \in RunRecord
          /\ run.job \in Jobs /\ run.queue \in Queues
        BY <1>0, <1>6 DEF CancellationTick, IInv, RunsOK, RunRecord, Phase, Outcome
    <2>2. runs' = [runs EXCEPT ![r] = run]
        BY <1>0, <1>6 DEF CancellationTick, IInv, TypeOK
    <2> HIDE DEF run
    <2>3. runs' \in [Runs -> RunRecord] /\ RunsOK' /\ LoopOK'
        BY <1>6, <2>1, <2>2, OneRunStep DEF CancellationTick, IInv
    <2>4. QED
        BY <1>6, <2>3 DEF CancellationTick, IInv, TypeOK, AttemptsBounded
<1>7. QED
    BY <1>1, <1>2, <1>3, <1>4, <1>5, <1>6

\* So do the timers: a poll starts its loop at the length of the active list.
LEMMA TimerIInv ==
    ASSUME IInv, Timer
    PROVE  IInv'
<1> USE DEF clientVars, adapterVars, loopVars
<1>1. ASSUME EvictSettledJobs
      PROVE  IInv'
    BY <1>1 DEF EvictSettledJobs, IInv, TypeOK, LoopOK, RunsOK, AttemptsBounded
<1>2. ASSUME NEW q \in Queues, PollTimer(q)
      PROVE  IInv'
    <2> DEFINE n == Len(active[q])
    <2>1. n \in 0..(Concurrency - 1)
        <3>1. n \in Nat
            BY LenProperties DEF IInv, TypeOK
        <3>2. QED
            BY <1>2, <3>1, ConcurrencyAssumption DEF PollTimer
    <2>2. CallNext(q, n) /\ UNCHANGED active
        BY <1>2 DEF PollTimer
    <2>3. AdapterStep /\ AtNext(q, n)
        BY <2>2, CallNextStep DEF IInv
    <2>4. n <= n
        BY <2>1
    <2>5. /\ LoopOK'
          /\ loop' \in [Queues -> {"unused", "timer", "next", "update", "ended"}]
          /\ index' \in [Queues -> 0..(Concurrency - 1)]
        BY <2>1, <2>2, <2>3, <2>4, AtNextLoopOK DEF IInv
    <2>6. TypeOK' /\ RunsOK'
        BY <1>2, <2>3, <2>5 DEF PollTimer, IInv, TypeOK, RunsOK, AdapterStep
    <2>7. AttemptsBounded'
        BY <2>3, AttemptsStep DEF IInv, AdapterStep
    <2>8. QED
        BY <2>5, <2>6, <2>7 DEF IInv
<1>3. ASSUME NEW q \in Queues, StopDrained(q) \/ StopTimedOut(q)
      PROVE  IInv'
    BY <1>3 DEF StopDrained, StopTimedOut, IInv, TypeOK, LoopOK, RunsOK,
                AttemptsBounded
<1>4. ASSUME NEW r \in Runs, CancellationTick(r)
      PROVE  IInv'
    BY <1>4, RunIInv
<1>5. QED
    BY <1>1, <1>2, <1>3, <1>4 DEF Timer

\* So does setProgress, which touches the list of waiting jobs only.
LEMMA ReportIInv ==
    ASSUME IInv, NEW r \in Runs, ReportProgress(r)
    PROVE  IInv'
<1> USE DEF clientVars, adapterVars, loopVars
<1> DEFINE j == runs[r].job
           copies == [i \in 1..Cardinality(Listeners(j)) |-> j]
<1>1. j \in Jobs
    BY DEF ReportProgress, Listeners, IInv, RunsOK
<1>2. Cardinality(Listeners(j)) \in Nat
    <2>1. IsFiniteSet(Runs)
        BY FS_Interval, BoundAssumption DEF Runs
    <2>2. IsFiniteSet(Listeners(j))
        BY <2>1, FS_Subset DEF Listeners
    <2>3. QED
        BY <2>2, FS_CardinalityType
<1>3. copies \in Seq(Jobs)
    BY <1>1, <1>2
<1>4. copies \o unsettled \in Seq(Jobs)
    BY <1>3, ConcatProperties DEF IInv, TypeOK
<1>5. store' \in SUBSET Jobs /\ unsettled' \in Seq(Jobs)
    BY <1>1, <1>4 DEF ReportProgress, IInv, TypeOK
<1>6. QED
    BY <1>5 DEF ReportProgress, IInv, TypeOK, LoopOK, RunsOK, AttemptsBounded

\* Every step keeps the invariant.
LEMMA StepIInv == IInv /\ [Next]_vars => IInv'
<1> SUFFICES ASSUME IInv, [Next]_vars PROVE IInv'
    OBVIOUS
<1>1. CASE Client
    BY <1>1, ClientIInv
<1>2. CASE Microtask
    <2>1. ASSUME NEW j \in Jobs, CancelJobFinish(j)
          PROVE  IInv'
        <3>1. CancelJob(jobs[j]) \in JobRecord
            BY JobStepOK DEF IInv, TypeOK, JobStep
        <3>2. /\ jobs' \in [Jobs -> JobRecord]
              /\ \A k \in Jobs : JobStep(jobs[k], jobs'[k])
            BY <2>1, <3>1 DEF CancelJobFinish, IInv, TypeOK, JobStep
        <3>3. TypeOK' /\ LoopOK' /\ RunsOK'
            BY <2>1, <3>2 DEF CancelJobFinish, IInv, TypeOK, LoopOK, RunsOK, loopVars
        <3>4. QED
            BY <3>2, <3>3, AttemptsStep DEF IInv
    <2>2. QED
        BY <1>2, <2>1, LoopIInv, RunIInv DEF Microtask
<1>3. CASE Timer
    BY <1>3, TimerIInv
<1>4. CASE Work
    BY <1>4, RunIInv, ReportIInv DEF Work
<1>5. CASE UNCHANGED vars
    BY <1>5 DEF vars, clientVars, adapterVars, loopVars, IInv, TypeOK, LoopOK,
                RunsOK, AttemptsBounded
<1>6. QED
    BY <1>1, <1>2, <1>3, <1>4, <1>5 DEF Next

-----------------------------------------------------------------------------
(* The theorems.                                                           *)

\* IInv holds in every reachable state.
LEMMA IInvCorrect == Spec => []IInv
BY InitIInv, StepIInv, PTL DEF Spec

\* Every variable keeps its type, whatever clients, timers and process
\* functions do and in whatever order.
THEOREM TypeCorrect == Spec => []TypeOK
BY IInvCorrect, PTL DEF IInv

\* An ActiveQueue never has more than Concurrency active jobs, for any
\* Concurrency and any number of queues and process functions.
THEOREM ConcurrencyLimited == Spec => []ConcurrencyLimit
<1>1. IInv => ConcurrencyLimit
    BY DEF IInv, LoopOK, ConcurrencyLimit
<1>2. QED
    BY <1>1, IInvCorrect, PTL

\* No interleaving of starts, retries, deferrals and cancellations makes a job
\* use more than retries + 1 attempts.
THEOREM AttemptsAreBounded == Spec => []AttemptsBounded
<1>1. IInv => AttemptsBounded
    BY DEF IInv
<1>2. QED
    BY <1>1, IInvCorrect, PTL

=============================================================================
