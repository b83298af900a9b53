---------------------------- MODULE PollingQueue ----------------------------
(***************************************************************************)
(* One named queue of the polling strategy, on the in-memory adapter       *)
(* (packages/core/src/polling-job-queue-strategy.ts and                    *)
(* adapters/in-memory-job-queue-adapter.ts).                               *)
(*                                                                         *)
(* The program is single-threaded JavaScript: a step of this module is the *)
(* code between two points where the function gives up the thread (an      *)
(* await, a promise callback, a timer).  Steps that continue a promise are *)
(* microtasks; a timer fires only when no microtask is left (Quiet).       *)
(* Clients and process functions may run at any point.                     *)
(*                                                                         *)
(* A Job is one object shared by the jobs map, the queue, the active list  *)
(* and the process function, so it is one entry of the variable jobs.      *)
(***************************************************************************)
EXTENDS Job, Sequences, SequencesExt, FiniteSets

CONSTANTS
    JobCount,       \* jobs 1..JobCount, numbered in order of creation
    RetryCounts,    \* the values a client passes as retries
    Processes,      \* process functions registered under this queue name
    Concurrency,    \* how many jobs one ActiveQueue runs at a time
    Backoff,        \* whether backOffStrategy is a function
    Cancellable,    \* jobs that clients may cancel
    Removing,       \* whether settled jobs are ever removed from the map
    ReportingJobs,  \* jobs whose process function calls setProgress
    ThrowingJobs,   \* jobs whose process function throws before it returns
    HangingJobs,    \* jobs whose process function never returns
    MaxStarts,      \* bound: ActiveQueue objects ever created
    MaxRuns,        \* bound: process calls whose traces exist at a time
    MaxQueued       \* bound: entries in unsettledJobs

ASSUME JobCountAssumption == JobCount \in Nat
ASSUME RetryAssumption == RetryCounts \subseteq Nat
ASSUME ConcurrencyAssumption == Concurrency \in Nat \ {0}
ASSUME BackoffAssumption == Backoff \in BOOLEAN
ASSUME RemovingAssumption == Removing \in BOOLEAN
ASSUME BoundAssumption ==
    MaxStarts \in Nat /\ MaxRuns \in Nat /\ MaxQueued \in Nat

Jobs == 1..JobCount
Queues == 1..MaxStarts
Runs == 1..MaxRuns
NoJob == 0
NoQueue == 0

VARIABLES
    created,     \* how many jobs were added so far
    jobs,        \* the Job objects
    store,       \* keys of the jobs map: what findOne can see
    unsettled,   \* unsettledJobs[queueName]
    cancelling,  \* cancelJob calls that wait for findOne
    registered,  \* activeQueues: the ActiveQueue of each process function
    running,     \* ActiveQueue.running
    active,      \* ActiveQueue.activeJobs
    loop,        \* where runNextJobs of an ActiveQueue is
    index,       \* its loop variable i
    held,        \* its nextJob
    stopping,    \* the promise returned by ActiveQueue.stop()
    runs         \* the calls of process, with the race each takes part in

clientVars == <<created, cancelling>>
adapterVars == <<jobs, store, unsettled>>
loopVars == <<loop, index, held>>
vars == <<clientVars, adapterVars, loopVars,
          registered, running, active, stopping, runs>>

-----------------------------------------------------------------------------
(* The trace of one call of process: the race it takes part in and the     *)
(* chain then / finally / onFailOrComplete behind it.                      *)
(*   racing     none of the three signals has come                         *)
(*   resolved   the race is decided, the then-callback is due              *)
(*   handled    the job was told the outcome, the finally-callback is due  *)
(*   updating   update() was called, removeJobFromActive is due            *)
(*   closed     over, but the process function has not returned yet        *)
(*   abandoned  the finally-callback returned early                        *)
(*   leaked     process threw before there was a race                      *)
Phase == {"idle", "racing", "resolved", "handled", "updating", "closed",
          "abandoned", "leaked"}
Outcome == {"none", "value", "error", "stop", "cancelled"}

RunRecord == [job : Jobs \cup {NoJob}, queue : Queues \cup {NoQueue},
              phase : Phase, outcome : Outcome, working : BOOLEAN]

IdleRun == [job |-> NoJob, queue |-> NoQueue, phase |-> "idle",
            outcome |-> "none", working |-> FALSE]

\* A slot is free again once the trace is over and the function returned.
Recycled(run) ==
    IF run.phase = "closed" /\ ~run.working THEN IdleRun ELSE run

\* The runs whose progress listener is still attached to the job.
Listeners(j) ==
    {r \in Runs : /\ runs[r].job = j
                  /\ runs[r].phase \in {"racing", "resolved", "handled",
                                        "abandoned", "leaked"}}

\* No promise callback is due: only now can a timer fire.
Quiet ==
    /\ cancelling = {}
    /\ \A q \in Queues : loop[q] \notin {"next", "update"}
    /\ \A r \in Runs : runs[r].phase \notin {"resolved", "handled", "updating"}

-----------------------------------------------------------------------------
(* Helpers of the adapter.                                                 *)

\* Variants of Update: requeue whatever is not settled, only what is PENDING,
\* or at the tail.
UpdateUnsettled(j) ==
    /\ store' = store \cup {j}
    /\ unsettled' = IF jobs[j].state \in Final THEN unsettled
                    ELSE <<j>> \o unsettled

UpdatePending(j) ==
    /\ store' = store \cup {j}
    /\ unsettled' = IF jobs[j].state = "PENDING" THEN <<j>> \o unsettled
                    ELSE unsettled

UpdateAtTail(j) ==
    /\ store' = store \cup {j}
    /\ unsettled' = IF jobs[j].state \in Waiting THEN Append(unsettled, j)
                    ELSE unsettled

\* update(job): jobs.set, and unshift when the job is to be picked up (again).
Update(j) ==
    /\ store' = store \cup {j}
    /\ unsettled' = IF jobs[j].state \in Waiting THEN <<j>> \o unsettled
                    ELSE unsettled

\* Variant of RemoveJobFromActive: always the last entry.
RemoveLastFromActive(list, j) == IF list = <<>> THEN list ELSE Front(list)

\* removeJobFromActive: splice(indexOf(job), 1), and splice(-1, 1) drops the
\* last entry.
RemoveJobFromActive(list, j) ==
    IF Contains(list, j) THEN RemoveFirst(list, j)
    ELSE IF list = <<>> THEN list ELSE Front(list)

\* next(queueName), called by the loop of q with i = n.  The head of the list
\* is taken.  With a backOffStrategy a RETRYING job may still be in its delay
\* (time is not modelled): it goes to the tail and the call returns nothing.
CallNext(q, n) ==
    /\ index' = [index EXCEPT ![q] = n]
    /\ loop' = [loop EXCEPT ![q] = "next"]
    /\ \/ /\ unsettled = <<>>
          /\ held' = [held EXCEPT ![q] = NoJob]
          /\ UNCHANGED <<unsettled, jobs>>
       \/ /\ unsettled # <<>>
          /\ Backoff
          /\ jobs[Head(unsettled)].state = "RETRYING"
          /\ unsettled' = Append(Tail(unsettled), Head(unsettled))
          /\ held' = [held EXCEPT ![q] = NoJob]
          /\ UNCHANGED jobs
       \/ /\ unsettled # <<>>
          /\ unsettled' = Tail(unsettled)
          /\ held' = [held EXCEPT ![q] = Head(unsettled)]
          /\ jobs' = [jobs EXCEPT ![Head(unsettled)] = StartJob(@)]

\* Variant of EndPass: the timer is armed only after a pass that found a job.
EndPassUnlessIdle(q) ==
    /\ loop' = [loop EXCEPT ![q] = IF running[q] /\ held[q] # NoJob
                                   THEN "timer" ELSE "ended"]
    /\ index' = [index EXCEPT ![q] = 0]
    /\ held' = [held EXCEPT ![q] = NoJob]
    /\ UNCHANGED <<unsettled, jobs>>

\* The end of runNextJobs: the timer is armed only if the queue still runs.
EndPass(q) ==
    /\ loop' = [loop EXCEPT ![q] = IF running[q] THEN "timer" ELSE "ended"]
    /\ index' = [index EXCEPT ![q] = 0]
    /\ held' = [held EXCEPT ![q] = NoJob]
    /\ UNCHANGED <<unsettled, jobs>>

\* Variant of Continue: one job too many.
ContinueTooFar(q) ==
    IF index[q] + 1 <= Concurrency THEN CallNext(q, index[q] + 1)
    ELSE EndPass(q)

\* i++ and the test of the for loop.
Continue(q) ==
    IF index[q] + 1 < Concurrency THEN CallNext(q, index[q] + 1)
    ELSE EndPass(q)

-----------------------------------------------------------------------------
(* QueueNameProcessStorage: what is kept for each process function of this *)
(* queue name.                                                             *)

Has(items, p) == items[p] # NoQueue

Set(items, p, q) == [items EXCEPT ![p] = q]

Delete(items, p) == [items EXCEPT ![p] = NoQueue]

-----------------------------------------------------------------------------
InitAdapter ==
    /\ created = 0
    /\ jobs = [j \in Jobs |-> NewJob(0)]
    /\ store = {}
    /\ unsettled = <<>>

InitStrategy ==
    /\ cancelling = {}
    /\ registered = [p \in Processes |-> NoQueue]

\* The ActiveQueue objects that start() will create.
InitActiveQueues ==
    /\ running = [q \in Queues |-> FALSE]
    /\ active = [q \in Queues |-> <<>>]
    /\ loop = [q \in Queues |-> "unused"]
    /\ index = [q \in Queues |-> 0]
    /\ held = [q \in Queues |-> NoJob]
    /\ stopping = [q \in Queues |-> "no"]
    /\ runs = [r \in Runs |-> IdleRun]

Init == InitAdapter /\ InitStrategy /\ InitActiveQueues

-----------------------------------------------------------------------------
(* What clients do.                                                        *)

\* add(job): setRetries decides the retries, the entry goes to the tail.
Add(n) ==
    LET j == created + 1
    IN  /\ j \in Jobs
        /\ Len(unsettled) < MaxQueued
        /\ created' = j
        /\ jobs' = [jobs EXCEPT ![j] = NewJob(n)]
        /\ store' = store \cup {j}
        /\ unsettled' = Append(unsettled, j)
        /\ UNCHANGED <<cancelling, loopVars, registered, running, active,
                       stopping, runs>>

\* cancelJob(id) reads the job first and acts after an await.
CancelJobBegin(j) ==
    /\ j \in store \cap Cancellable
    /\ j \notin cancelling
    /\ cancelling' = cancelling \cup {j}
    /\ UNCHANGED <<created, adapterVars, loopVars, registered, running,
                   active, stopping, runs>>

\* job.cancel() and update(job): the job is not taken out of unsettledJobs,
\* and it is put (back) into the map.
CancelJobFinish(j) ==
    /\ j \in cancelling
    /\ cancelling' = cancelling \ {j}
    /\ jobs' = [jobs EXCEPT ![j] = CancelJob(@)]
    /\ store' = store \cup {j}
    /\ UNCHANGED <<created, unsettled, loopVars, registered, running,
                   active, stopping, runs>>

Settled == {j \in store : IsSettled(jobs[j])}

\* removeSettledJobs() without a date, called by a client.
RemoveSettledJobs ==
    /\ Removing
    /\ Settled # {}
    /\ store' = store \ Settled
    /\ UNCHANGED <<clientVars, jobs, unsettled, loopVars, registered,
                   running, active, stopping, runs>>

\* The eviction timer removes those of the settled jobs that are old enough.
EvictSettledJobs ==
    /\ Removing
    /\ Quiet
    /\ \E old \in SUBSET Settled : old # {} /\ store' = store \ old
    /\ UNCHANGED <<clientVars, jobs, unsettled, loopVars, registered,
                   running, active, stopping, runs>>

\* ActiveQueue.start(): runNextJobs runs up to its first await at once.
StartActiveQueue(q) ==
    /\ running' = [running EXCEPT ![q] = TRUE]
    /\ CallNext(q, 0)
    /\ UNCHANGED <<clientVars, store, active, stopping, runs>>

\* start(queueName, process): a new ActiveQueue, unless there is one.
StartQueue(p) ==
    /\ ~Has(registered, p)
    /\ \E q \in Queues :
          /\ loop[q] = "unused"
          /\ \A k \in Queues : loop[k] = "unused" => q <= k
          /\ StartActiveQueue(q)
          /\ registered' = Set(registered, p, q)

\* ActiveQueue.stop(): the signal reaches the runs whose race is open at this
\* moment, and no other.
StopActiveQueue(q) ==
    /\ running' = [running EXCEPT ![q] = FALSE]
    /\ runs' = [r \in Runs |->
                  IF runs[r].queue = q /\ runs[r].phase = "racing"
                  THEN [runs[r] EXCEPT !.phase = "resolved", !.outcome = "stop"]
                  ELSE runs[r]]
    /\ loop' = [loop EXCEPT ![q] = IF @ = "timer" THEN "ended" ELSE @]
    /\ stopping' = [stopping EXCEPT
                      ![q] = IF active[q] = <<>> THEN "drained" ELSE "waiting"]
    /\ UNCHANGED <<clientVars, adapterVars, index, held, active>>

\* stop(queueName, process): its ActiveQueue is forgotten and stopped.
StopQueue(p) ==
    /\ Has(registered, p)
    /\ registered' = Delete(registered, p)
    /\ StopActiveQueue(registered[p])

-----------------------------------------------------------------------------
(* The loop runNextJobs of an ActiveQueue.                                 *)

\* The poll timer.  With the active list full the timer is only armed again.
PollTimer(q) ==
    /\ Quiet
    /\ loop[q] = "timer"
    /\ Len(active[q]) < Concurrency
    /\ CallNext(q, Len(active[q]))
    /\ UNCHANGED <<clientVars, store, registered, running, active, stopping,
                   runs>>

\* next() resolved to a job.
Accept(q) ==
    /\ loop[q] = "next"
    /\ held[q] # NoJob
    /\ active' = [active EXCEPT ![q] = Append(@, held[q])]
    /\ Update(held[q])
    /\ loop' = [loop EXCEPT ![q] = "update"]
    /\ UNCHANGED <<clientVars, jobs, index, held, registered, running,
                   stopping, runs>>

\* next() resolved to nothing.
NothingToDo(q) ==
    /\ loop[q] = "next"
    /\ held[q] = NoJob
    /\ Continue(q)
    /\ UNCHANGED <<clientVars, store, registered, running, active, stopping,
                   runs>>

\* update() resolved: process is called, the race is subscribed, and the loop
\* goes on in the same step.
Launch(q) ==
    /\ loop[q] = "update"
    /\ held[q] \notin ThrowingJobs
    /\ \E r \in Runs :
          /\ runs[r].phase = "idle"
          /\ \A k \in Runs : runs[k].phase = "idle" => r <= k
          /\ runs' = [runs EXCEPT ![r] =
                        [job |-> held[q], queue |-> q, phase |-> "racing",
                         outcome |-> "none", working |-> TRUE]]
    /\ Continue(q)
    /\ UNCHANGED <<clientVars, store, registered, running, active, stopping>>

\* process throws before it returns a promise: the catch of the loop ends the
\* pass, and nothing takes the job out of activeJobs.
LaunchThrows(q) ==
    /\ loop[q] = "update"
    /\ held[q] \in ThrowingJobs
    /\ \E r \in Runs :
          /\ runs[r].phase = "idle"
          /\ \A k \in Runs : runs[k].phase = "idle" => r <= k
          /\ runs' = [runs EXCEPT ![r] =
                        [job |-> held[q], queue |-> q, phase |-> "leaked",
                         outcome |-> "error", working |-> FALSE]]
    /\ EndPass(q)
    /\ UNCHANGED <<clientVars, store, registered, running, active, stopping>>

-----------------------------------------------------------------------------
(* A run: the race and the callbacks behind it.                            *)

\* The process function returns or throws.  It decides the race if that is
\* still open; otherwise nobody listens.
ProcessEnds(r) ==
    /\ runs[r].working
    /\ \/ /\ runs[r].phase = "racing"
          /\ \E o \in {"value", "error"} :
                runs' = [runs EXCEPT ![r].phase = "resolved",
                                     ![r].outcome = o,
                                     ![r].working = FALSE]
       \/ /\ runs[r].phase # "racing"
          /\ runs' = [runs EXCEPT
                        ![r] = Recycled([@ EXCEPT !.working = FALSE])]
    /\ UNCHANGED <<clientVars, adapterVars, loopVars, registered, running,
                   active, stopping>>

\* Variant of CancellationTick: a findOne that skips settled jobs.
CancellationTickUnsettled(r) ==
    /\ Quiet
    /\ runs[r].phase = "racing"
    /\ runs[r].job \in store \ Settled
    /\ jobs[runs[r].job].state = "CANCELLED"
    /\ runs' = [runs EXCEPT ![r].phase = "resolved",
                            ![r].outcome = "cancelled"]
    /\ UNCHANGED <<clientVars, adapterVars, loopVars, registered, running,
                   active, stopping>>

\* The interval behind cancellationSignal$ finds the job CANCELLED.
CancellationTick(r) ==
    /\ Quiet
    /\ runs[r].phase = "racing"
    /\ runs[r].job \in store
    /\ jobs[runs[r].job].state = "CANCELLED"
    /\ runs' = [runs EXCEPT ![r].phase = "resolved",
                            ![r].outcome = "cancelled"]
    /\ UNCHANGED <<clientVars, adapterVars, loopVars, registered, running,
                   active, stopping>>

\* What the then-callback tells the job.
Outcome2Job(job, outcome) ==
    CASE outcome = "stop" -> DeferJob(job)
      [] outcome = "error" -> FailJob(job)
      [] outcome = "cancelled" /\ job.state = "CANCELLED" -> CancelJob(job)
      [] OTHER -> CompleteJob(job)

Settle(r) ==
    /\ runs[r].phase = "resolved"
    /\ jobs' = [jobs EXCEPT ![runs[r].job] =
                  Outcome2Job(@, runs[r].outcome)]
    /\ runs' = [runs EXCEPT ![r].phase = "handled"]
    /\ UNCHANGED <<clientVars, store, unsettled, loopVars,
                   registered, running, active, stopping>>

\* The early return of the finally-callback: neither update nor removal.
FinallyReturns(r) ==
    /\ runs[r].phase = "handled"
    /\ ~running[runs[r].queue]
    /\ jobs[runs[r].job].state # "PENDING"
    /\ runs' = [runs EXCEPT ![r].phase = "abandoned"]
    /\ UNCHANGED <<clientVars, adapterVars, loopVars, registered, running,
                   active, stopping>>

\* off('progress') and the part of onFailOrComplete before its await.
FinallyUpdates(r) ==
    /\ runs[r].phase = "handled"
    /\ running[runs[r].queue] \/ jobs[runs[r].job].state = "PENDING"
    /\ Update(runs[r].job)
    /\ runs' = [runs EXCEPT ![r].phase = "updating"]
    /\ UNCHANGED <<clientVars, jobs, loopVars, registered, running, active,
                   stopping>>

\* The rest of onFailOrComplete.
RemoveFromActive(r) ==
    /\ runs[r].phase = "updating"
    /\ active' = [active EXCEPT ![runs[r].queue] =
                    RemoveJobFromActive(@, runs[r].job)]
    /\ runs' = [runs EXCEPT ![r] = Recycled([@ EXCEPT !.phase = "closed"])]
    /\ UNCHANGED <<clientVars, adapterVars, loopVars, registered, running,
                   stopping>>

\* setProgress: every listener still attached calls update(job).
ReportProgress(r) ==
    LET j == runs[r].job
        copies == [i \in 1..Cardinality(Listeners(j)) |-> j]
    IN  /\ runs[r].working
        /\ j \in ReportingJobs
        /\ Listeners(j) # {}
        /\ store' = store \cup {j}
        /\ IF jobs[j].state \in Waiting
           THEN /\ Len(unsettled) + Len(copies) <= MaxQueued
                /\ unsettled' = copies \o unsettled
           ELSE UNCHANGED unsettled
        /\ UNCHANGED <<clientVars, jobs, loopVars, registered, running,
                       active, stopping, runs>>

-----------------------------------------------------------------------------
(* Timers of stop().                                                       *)

\* pollActiveJobs of stop(): activeJobs is empty at last.
StopDrained(q) ==
    /\ Quiet
    /\ stopping[q] = "waiting"
    /\ active[q] = <<>>
    /\ stopping' = [stopping EXCEPT ![q] = "drained"]
    /\ UNCHANGED <<clientVars, adapterVars, loopVars, registered, running,
                   active, runs>>

\* Variant of StopTimedOut: no limit of two seconds.
StopNeverTimesOut(q) == StopDrained(q)

\* pollActiveJobs of stop(): two seconds have passed.
StopTimedOut(q) ==
    /\ Quiet
    /\ stopping[q] = "waiting"
    /\ active[q] # <<>>
    /\ stopping' = [stopping EXCEPT ![q] = "timedOut"]
    /\ UNCHANGED <<clientVars, adapterVars, loopVars, registered, running,
                   active, runs>>

-----------------------------------------------------------------------------
Client ==
    \/ \E n \in RetryCounts : Add(n)
    \/ \E j \in Jobs : CancelJobBegin(j)
    \/ RemoveSettledJobs
    \/ \E p \in Processes : StartQueue(p) \/ StopQueue(p)

Microtask ==
    \/ \E j \in Jobs : CancelJobFinish(j)
    \/ \E q \in Queues :
          Accept(q) \/ NothingToDo(q) \/ Launch(q) \/ LaunchThrows(q)
    \/ \E r \in Runs :
          \/ Settle(r)
          \/ FinallyReturns(r)
          \/ FinallyUpdates(r)
          \/ RemoveFromActive(r)

Timer ==
    \/ EvictSettledJobs
    \/ \E q \in Queues : PollTimer(q) \/ StopDrained(q) \/ StopTimedOut(q)
    \/ \E r \in Runs : CancellationTick(r)

Work == \E r \in Runs : ProcessEnds(r) \/ ReportProgress(r)

Next == Client \/ Microtask \/ Timer \/ Work

Spec == Init /\ [][Next]_vars

\* Promise callbacks run as soon as the thread is free: weak fairness.  A timer
\* waits for a moment at which no callback is due, so it is enabled again and
\* again but not continuously: strong fairness, because the event loop serves
\* every timer that is due.  A poll may find any job still in its back-off, but
\* not the same job for ever.  Process functions return, the hanging ones apart.
Fairness ==
    /\ \A j \in Jobs : WF_vars(CancelJobFinish(j))
    /\ \A q \in Queues :
          /\ WF_vars(Accept(q) \/ NothingToDo(q) \/ Launch(q) \/ LaunchThrows(q))
          /\ SF_vars(StopDrained(q) \/ StopTimedOut(q))
          /\ \A j \in Jobs : SF_vars(PollTimer(q) /\ held'[q] = j)
    /\ \A r \in Runs :
          /\ WF_vars(\/ Settle(r) \/ FinallyReturns(r)
                     \/ FinallyUpdates(r) \/ RemoveFromActive(r))
          /\ SF_vars(CancellationTick(r))
          /\ WF_vars(runs[r].job \notin HangingJobs /\ ProcessEnds(r))

FairSpec == Spec /\ Fairness

-----------------------------------------------------------------------------
(* Correctness.                                                            *)

TypeOK ==
    /\ created \in 0..JobCount
    /\ jobs \in [Jobs -> JobRecord]
    /\ store \in SUBSET Jobs
    /\ unsettled \in Seq(Jobs)
    /\ cancelling \in SUBSET Jobs
    /\ registered \in [Processes -> Queues \cup {NoQueue}]
    /\ running \in [Queues -> BOOLEAN]
    /\ active \in [Queues -> Seq(Jobs)]
    /\ loop \in [Queues -> {"unused", "timer", "next", "update", "ended"}]
    /\ index \in [Queues -> 0..(Concurrency - 1)]
    /\ held \in [Queues -> Jobs \cup {NoJob}]
    /\ stopping \in [Queues -> {"no", "waiting", "drained", "timedOut"}]
    /\ runs \in [Runs -> RunRecord]

\* The runs that keep a job: nobody else may start it.
Holding(r) ==
    runs[r].phase \in {"racing", "resolved", "handled", "abandoned", "leaked"}

\* An ActiveQueue never has more than Concurrency active jobs, although its
\* loop counted them before it gave up the thread, twice per job.
ConcurrencyLimit == \A q \in Queues : Len(active[q]) <= Concurrency

\* A job is started at most retries + 1 times in a row, and a job that waits
\* for a retry has one left, whatever cancel() and defer() did in between.
AttemptsBounded ==
    \A j \in Jobs :
        /\ jobs[j].attempts <= jobs[j].retries + 1
        /\ jobs[j].state = "RETRYING" => jobs[j].attempts <= jobs[j].retries
        /\ jobs[j].state = "PENDING" => jobs[j].attempts = 0

\* A job is in one place: an entry of unsettledJobs, the hand of one loop, or
\* one run.  Jobs that report progress are the exception: the listener outlives
\* its attempt, and update() of a job that waits inserts it a second time.
Places(j) ==
    ({"entry"} \X {i \in DOMAIN unsettled : unsettled[i] = j})
      \cup ({"hand"} \X {q \in Queues : held[q] = j})
      \cup ({"run"} \X {r \in Runs : Holding(r) /\ runs[r].job = j})

SingleCustody ==
    \A j \in Jobs \ ReportingJobs : \A a, b \in Places(j) : a = b

\* Nothing is dropped: a job that is not over is where its state says it is.
\* A RETRYING job may be nowhere but in a run that FinallyReturns abandoned,
\* and a RUNNING one in a run that never got a race.
CustodyMatchesState ==
    \A j \in 1..created :
        LET Run(phases) == \E r \in Runs : /\ runs[r].job = j
                                           /\ runs[r].phase \in phases
        IN  /\ jobs[j].state \in Waiting =>
                  Contains(unsettled, j) \/ Run({"handled", "abandoned"})
            /\ jobs[j].state = "RUNNING" =>
                  \/ \E q \in Queues : held[q] = j
                  \/ Run({"racing", "resolved", "leaked"})

\* activeJobs lists exactly the jobs of the loop and of the runs that did not
\* end, so indexOf in removeJobFromActive always finds its job and splice never
\* takes another one.
ActiveAccounting ==
    \A q \in Queues, j \in Jobs :
        Cardinality({i \in DOMAIN active[q] : active[q][i] = j})
          = Cardinality({k \in {q} : loop[k] = "update" /\ held[k] = j})
            + Cardinality({r \in Runs : /\ runs[r].queue = q
                                        /\ runs[r].job = j
                                        /\ Holding(r) \/ runs[r].phase = "updating"})

\* No late answer, second stop or second run reopens a job that COMPLETED or
\* FAILED; only cancelJob, which does not look at the state, changes it again.
FinishedIsFinal ==
    [][\A j \in Jobs \ ReportingJobs :
          jobs[j].state \in {"COMPLETED", "FAILED"} =>
             jobs'[j].state \in {jobs[j].state, "CANCELLED"}]_vars

\* With one job at a time and one ActiveQueue the list is in creation order:
\* a retry goes back to the place its job was taken from.
InCreationOrder ==
    \A i, k \in DOMAIN unsettled : i < k => unsettled[i] < unsettled[k]

\* The jobs that an ActiveQueue keeps, in the hand of its loop or in a run.
Claims ==
    {<<held[q], q>> : q \in {k \in Queues : held[k] # NoJob}}
      \cup {<<runs[r].job, runs[r].queue>> : r \in {k \in Runs : Holding(k)}}

\* The custody of the jobs is that of a work queue.
WorkQueueOfJobs ==
    INSTANCE WorkQueue WITH
        Items <- Jobs,
        Workers <- Queues,
        waiting <- ToSet(unsettled),
        claims <- Claims,
        finished <- (1..created) \ (ToSet(unsettled)
                                      \cup {claim[1] : claim \in Claims})

ImplementsWorkQueue == WorkQueueOfJobs!Spec

\* While the queue is served and clients do not cancel for ever (a cancelled job
\* that fails takes the head of the list again), every job settles, or waits
\* behind a process that never returns and is not or cannot be cancelled.
Stuck ==
    \E r \in Runs : /\ runs[r].phase = "racing"
                    /\ runs[r].job \in HangingJobs
                    /\ \/ jobs[runs[r].job].state # "CANCELLED"
                       \/ runs[r].job \notin store

EveryJobSettles ==
    (/\ <>(\E p \in Processes : registered[p] # NoQueue)
     /\ [](\A q \in Queues : stopping[q] = "no")
     /\ <>[](cancelling = {})) =>
        \A j \in Jobs : (j <= created) ~> (IsSettled(jobs[j]) \/ Stuck)

\* cancelJob on a running job frees its place in activeJobs although the process
\* function never returns, as long as the queue runs and the job stays in the map.
\* (After stop() FinallyReturns keeps the place for ever.)
CancelFreesPlace ==
    \A q \in Queues, j \in Jobs :
        (\E r \in Runs : /\ runs[r].queue = q /\ runs[r].job = j
                         /\ runs[r].phase = "racing" /\ jobs[j].state = "CANCELLED")
          ~> (~Contains(active[q], j) \/ ~running[q] \/ j \notin store)

\* The promise of stop() resolves, whatever the process functions do.
StopResolves ==
    \A q \in Queues : stopping[q] = "waiting" ~> stopping[q] # "waiting"

-----------------------------------------------------------------------------
(* Claims of the code's comments and tests that the code does not keep.    *)

\* job-queue-service.unit.ts:292 "sets long-running jobs to pending on destroy":
\* when stop() is over no job of the queue is RUNNING in an open race.
StopLeavesNoneRunning ==
    \A q \in Queues, r \in Runs :
        (stopping[q] \in {"drained", "timedOut"} /\ runs[r].queue = q
           /\ runs[r].phase = "racing") => jobs[runs[r].job].state # "RUNNING"

=============================================================================
