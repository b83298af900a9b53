--------------------------- MODULE BullMQAdapter ---------------------------
(***************************************************************************)
(* The adapter of adapters/bullmq/src/bullmq-job-queue-adapter.ts as       *)
(* JobQueueService drives it, on an external BullMQ.                       *)
(*                                                                         *)
(* Every question to Redis is a step of its own: between two of them the   *)
(* job may move.  All queues of the service share one BullMQ queue and one *)
(* Worker.  Of BullMQ the model has what the adapter sees: the list a job  *)
(* is in, and Workers that take jobs, fail them, and find stalled ones.    *)
(* The concurrency of a Worker (3) is not reached by the jobs of a run.    *)
(* The clients await start() and stop(); ServiceLifecycle has the rest.    *)
(***************************************************************************)
EXTENDS Naturals

CONSTANTS
    JobCount,       \* jobs 1..JobCount
    Retries,        \* the retries a job is added with
    Names,          \* names of the queues that clients create
    ActiveNames,    \* the option activeQueues; empty means every queue
    Finds,          \* calls that read a job: findOne
    Cancels,        \* calls of cancelJob
    MaxStarts       \* bound: calls of start()

ASSUME JobCountAssumption == JobCount \in Nat
ASSUME RetriesAssumption == Retries \in Nat
ASSUME NamesAssumption == ActiveNames \subseteq Names
ASSUME MaxStartsAssumption == MaxStarts \in Nat

Jobs == 1..JobCount
Workers == 1..MaxStarts
NoWorker == 0
NoJob == 0

VARIABLES
    place,          \* the list of BullMQ each job is in
    nameOf,         \* the queue name of each job
    urgent,         \* the jobs that are added with a priority
    tries,          \* attemptsMade of each job
    held,           \* the Worker that works on the job
    phase,          \* where the service is between start() and stop()
    starts,         \* how often it was started
    created,        \* names of the queues that were created
    running,        \* names of the queues that report to be running
    processors,     \* keys of queueNameProcessFnMap
    made,           \* whether this.queue was ever made
    connected,      \* whether this.queue can be used
    hasProcessor,   \* whether this.workerProcessor is defined
    stopped,        \* the flag of the adapter
    worker,         \* this.worker
    open,           \* Workers that are not closed
    idle,           \* Workers that were made without a processor
    finds,          \* the findOne calls
    cancels         \* the cancelJob calls

options == <<nameOf, urgent>>
jobVars == <<place, options, tries, held>>
serviceVars == <<phase, starts, created, running>>
adapterVars == <<processors, made, connected, hasProcessor, stopped>>
workerVars == <<worker, open, idle>>
vars == <<jobVars, serviceVars, adapterVars, workerVars, finds, cancels>>

-----------------------------------------------------------------------------
(* Places and questions.                                                   *)

Settled == {"completed", "failed"}

\* A job with a priority waits in a list of its own, which the adapter does not
\* know.
Waiting == {"wait", "prioritized"}
WaitingList(j) == IF j \in urgent THEN "prioritized" ELSE "wait"

\* Variant with a mistake: getState() asks whether the job is active before it
\* asks whether it waits.
ActiveFirst == <<"active", "wait", "delayed", "failed", "completed">>

\* getState() asks for one list after the other, in this order.
Questions == <<"wait", "active", "delayed", "failed", "completed">>

\* How far a job has come: it goes back only to be tried again.
Rank == [new |-> 0, prioritized |-> 1, wait |-> 1, active |-> 2, delayed |-> 3,
         failed |-> 4, completed |-> 4, gone |-> 5]

\* A call that reads job j: the fields of the job are those of the moment it
\* was fetched, finished says whether finishedOn was one of them.  seen and back
\* are history: the places the job was in since, and whether it went back.
FindRecord == [job : Jobs \cup {NoJob}, finished : BOOLEAN, at : 0..6,
               answer : {"none", "wait", "active", "delayed", "failed",
                         "completed", "gone", "throws", "closed"},
               seen : SUBSET {"wait", "prioritized", "active", "delayed",
                              "failed", "completed", "gone"},
               back : BOOLEAN]

NoFind == [job |-> NoJob, finished |-> FALSE, at |-> 0, answer |-> "none",
           seen |-> {}, back |-> FALSE]

\* A call of cancelJob, named for the answer it waits for or for its outcome.
CancelRecord == [job : Jobs \cup {NoJob}, finished : BOOLEAN,
                 step : {"none", "isActive", "remove", "getState", "cancelled",
                         "rejected"}]

NoCancel == [job |-> NoJob, finished |-> FALSE, step |-> "none"]

\* Job j goes to list s, and the calls that read it meanwhile note it.
Observed(j, s) ==
    [f \in Finds |->
        IF finds[f].job = j /\ finds[f].answer = "none"
        THEN [finds[f] EXCEPT !.seen = @ \cup {s},
                              !.back = @ \/ Rank[s] < Rank[place[j]]]
        ELSE finds[f]]

Move(j, s) ==
    /\ place' = [place EXCEPT ![j] = s]
    /\ finds' = Observed(j, s)

Init ==
    /\ nameOf \in [Jobs -> Names]
    /\ urgent \in SUBSET Jobs
    /\ \E old \in SUBSET Jobs :               \* jobs of an earlier process
          place = [j \in Jobs |-> IF j \in old THEN WaitingList(j) ELSE "new"]
    /\ tries = [j \in Jobs |-> 0]
    /\ held = [j \in Jobs |-> NoWorker]
    /\ phase = "off"
    /\ starts = 0
    /\ created = {}
    /\ running = {}
    /\ processors = {}
    /\ made = FALSE
    /\ connected = FALSE
    /\ hasProcessor = FALSE
    /\ stopped = FALSE
    /\ worker = NoWorker
    /\ open = {}
    /\ idle = {}
    /\ finds = [f \in Finds |-> NoFind]
    /\ cancels = [c \in Cancels |-> NoCancel]

-----------------------------------------------------------------------------
(* The service and the adapter.                                            *)

\* A service whose start() was rejected takes itself for started.
IsStarted == phase \in {"checking", "pinging", "connecting", "resuming",
                        "starting", "on", "failed"}

ShouldStartQueue(n) == ActiveNames = {} \/ n \in ActiveNames

\* start(queueName, process): the first queue makes the Worker, with whatever
\* this.workerProcessor is at that moment.
AdapterStart(n) ==
    /\ processors' = processors \cup {n}
    /\ running' = running \cup {n}
    /\ IF worker = NoWorker
       THEN /\ worker' = starts
            /\ open' = open \cup {starts}
            /\ idle' = IF hasProcessor THEN idle ELSE idle \cup {starts}
       ELSE UNCHANGED workerVars

\* close(): the Worker takes no more jobs, and gives up those it has.  Without a
\* Queue it throws before it comes to the Worker, and the error is logged.
Close ==
    IF made
    THEN /\ open' = open \ {worker}
         /\ held' = [j \in Jobs |-> IF held[j] = worker THEN NoWorker ELSE held[j]]
    ELSE UNCHANGED <<open, held>>

\* JobQueueService.createQueue(n).
CreateQueue(n) ==
    /\ n \notin created
    /\ created' = created \cup {n}
    /\ IF IsStarted /\ ShouldStartQueue(n) THEN AdapterStart(n)
       ELSE UNCHANGED <<processors, running, workerVars>>
    /\ UNCHANGED <<jobVars, phase, starts, made, connected, hasProcessor,
                   stopped, finds, cancels>>

\* JobQueueService.start() calls init(), which waits for the health check, if
\* there is one: isHealthy() makes a connection of its own ...
Start ==
    /\ phase = "off"
    /\ starts < MaxStarts
    /\ starts' = starts + 1
    /\ phase' \in {"checking", "connecting"}
    /\ UNCHANGED <<jobVars, created, running, adapterVars, workerVars, finds,
                   cancels>>

InitGoesOn(from, to) ==
    /\ phase = from
    /\ phase' = to
    /\ UNCHANGED <<jobVars, starts, created, running, adapterVars, workerVars,
                   finds, cancels>>

\* ... and sends a ping, unless the connection takes longer than timeoutMs.
CheckConnects == InitGoesOn("checking", "pinging")
CheckTimesOut == InitGoesOn("checking", "failed")

\* The answer is PONG.  No timeout is left that would end a ping without answer.
PingAnswers == InitGoesOn("pinging", "connecting")

\* The connection reports an error, or the ping another answer: isHealthy()
\* throws, and init() and start() with it, which leave the flags _initialized and
\* isStarted up.
CheckFails == InitGoesOn("checking", "failed") \/ InitGoesOn("pinging", "failed")

\* isPaused() or resume() throws.
ResumeThrows == InitGoesOn("resuming", "failed")

\* init() makes the Queue and asks whether it is paused.
InitQueue ==
    /\ phase = "connecting"
    /\ phase' = "resuming"
    /\ made' = TRUE
    /\ connected' = TRUE
    /\ UNCHANGED <<jobVars, starts, created, running, processors, hasProcessor,
                   stopped, workerVars, finds, cancels>>

\* The end of init(): only now is the processor defined.
InitProcessor ==
    /\ phase = "resuming"
    /\ phase' = "starting"
    /\ hasProcessor' = TRUE
    /\ UNCHANGED <<jobVars, starts, created, running, processors, made,
                   connected, stopped, workerVars, finds, cancels>>

\* The loop of JobQueueService.start().
ToStart == {n \in created \ running : ShouldStartQueue(n)}

StartNext(n) ==
    /\ phase = "starting"
    /\ n \in ToStart
    /\ AdapterStart(n)
    /\ UNCHANGED <<jobVars, phase, starts, created, made, connected, hasProcessor,
                   stopped, finds, cancels>>

StartEnds ==
    /\ phase = "starting"
    /\ ToStart = {}
    /\ phase' = "on"
    /\ UNCHANGED <<jobVars, starts, created, running, adapterVars, workerVars,
                   finds, cancels>>

\* JobQueueService.stop(): every running queue calls stop() of the adapter, and
\* the first call ever closes queue and Worker.
Stop ==
    /\ phase \in {"on", "failed"}
    /\ phase' = "closing"
    /\ running' = {}
    /\ IF running # {} /\ ~stopped
       THEN stopped' = TRUE /\ Close
       ELSE UNCHANGED <<stopped, open, held>>
    /\ UNCHANGED <<place, options, tries, starts, created, processors, made,
                   connected, hasProcessor, worker, idle, finds, cancels>>

\* Variant with a mistake: destroy() relies on stop() to have closed the Worker.
DestroyOpen ==
    /\ phase = "closing"
    /\ phase' = "destroying"
    /\ UNCHANGED <<jobVars, starts, created, running, adapterVars, workerVars,
                   finds, cancels>>

\* destroy() closes queue and Worker.
Destroy ==
    /\ phase = "closing"
    /\ phase' = "destroying"
    /\ Close
    /\ UNCHANGED <<place, options, tries, starts, created, running, adapterVars,
                   worker, idle, finds, cancels>>

\* Variant with a mistake: destroy() keeps the closed Worker.
QuitKeepingWorker ==
    /\ phase = "destroying"
    /\ phase' = "off"
    /\ connected' = FALSE
    /\ UNCHANGED <<jobVars, starts, created, running, processors, made,
                   hasProcessor, stopped, workerVars, finds, cancels>>

\* The rest of destroy(): the Worker is forgotten and the connection quits.
Quit ==
    /\ phase = "destroying"
    /\ phase' = "off"
    /\ worker' = NoWorker
    /\ connected' = FALSE
    /\ UNCHANGED <<jobVars, starts, created, running, processors, made,
                   hasProcessor, stopped, open, idle, finds, cancels>>

-----------------------------------------------------------------------------
(* Jobs, and what BullMQ does with them.                                   *)

\* add(job) of a queue that was created here.
Add(j) ==
    /\ connected
    /\ place[j] = "new"
    /\ nameOf[j] \in created
    /\ Move(j, WaitingList(j))
    /\ UNCHANGED <<options, tries, held, serviceVars, adapterVars, workerVars,
                   cancels>>

\* attempts: retries + 1
Attempts == Retries + 1

\* Variant with a mistake: the last attempt is followed by another.
FailsLate(j) ==
    /\ Move(j, IF tries[j] < Attempts THEN "delayed" ELSE "failed")
    /\ tries' = [tries EXCEPT ![j] = @ + 1]
    /\ held' = [held EXCEPT ![j] = NoWorker]

\* An attempt failed: the job waits for its back-off, or that was the last one.
Fails(j) ==
    /\ Move(j, IF tries[j] + 1 < Attempts THEN "delayed" ELSE "failed")
    /\ tries' = [tries EXCEPT ![j] = @ + 1]
    /\ held' = [held EXCEPT ![j] = NoWorker]

\* A Worker takes a job, whatever its name.
Take(j) ==
    /\ place[j] \in Waiting
    /\ \E w \in open \ idle : held' = [held EXCEPT ![j] = w]
    /\ Move(j, "active")
    /\ UNCHANGED <<options, tries, serviceVars, adapterVars, workerVars, cancels>>

\* The processor calls the process function of the queue, which returns ...
Complete(j) ==
    /\ held[j] # NoWorker
    /\ nameOf[j] \in processors
    /\ Move(j, "completed")
    /\ tries' = [tries EXCEPT ![j] = @ + 1]
    /\ held' = [held EXCEPT ![j] = NoWorker]
    /\ UNCHANGED <<options, serviceVars, adapterVars, workerVars, cancels>>

\* ... or throws, as the processor does when it knows no function of that name.
Throw(j) ==
    /\ held[j] # NoWorker
    /\ Fails(j)
    /\ UNCHANGED <<options, serviceVars, adapterVars, workerVars, cancels>>

\* The back-off is over.
Promote(j) ==
    /\ place[j] = "delayed"
    /\ open \ idle # {}
    /\ Move(j, WaitingList(j))
    /\ UNCHANGED <<options, tries, held, serviceVars, adapterVars, workerVars,
                   cancels>>

\* A job whose Worker was closed stalled: it is tried again, or given up.
Stall(j) ==
    /\ place[j] = "active"
    /\ held[j] = NoWorker
    /\ open \ idle # {}
    /\ \E s \in {"wait", "failed"} : Move(j, s)
    /\ UNCHANGED <<options, tries, held, serviceVars, adapterVars, workerVars,
                   cancels>>

\* removeSettledJobs(), or BullMQ itself (removeOnComplete, removeOnFail).
RemoveSettledJob(j) ==
    /\ place[j] \in Settled
    /\ connected
    /\ Move(j, "gone")
    /\ UNCHANGED <<options, tries, held, serviceVars, adapterVars, workerVars,
                   cancels>>

-----------------------------------------------------------------------------
(* findOne: getJob, and getState on what it returned.                      *)

FindBegin(f, j) ==
    /\ connected
    /\ finds[f] = NoFind
    /\ place[j] \notin {"new", "gone"}
    /\ finds' = [finds EXCEPT
                   ![f] = [job |-> j, finished |-> place[j] \in Settled,
                           at |-> 1, answer |-> "none", seen |-> {place[j]},
                           back |-> FALSE]]
    /\ UNCHANGED <<jobVars, serviceVars, adapterVars, workerVars, cancels>>

\* The next question: is the job in that list now?
Ask(f) ==
    LET call == finds[f]
    IN  /\ connected
        /\ call.answer = "none" /\ call.at \in DOMAIN Questions
        /\ finds' = [finds EXCEPT
                       ![f] = IF place[call.job] = Questions[call.at]
                              THEN [call EXCEPT !.answer = Questions[call.at]]
                              ELSE [call EXCEPT !.at = @ + 1]]
        /\ UNCHANGED <<jobVars, serviceVars, adapterVars, workerVars, cancels>>

\* Nothing was answered with yes: the job is taken for removed (CANCELLED),
\* unless it was finished when it was fetched.
Conclude(f) ==
    LET call == finds[f]
    IN  /\ call.answer = "none" /\ call.at = 6
        /\ finds' = [finds EXCEPT ![f].answer = IF call.finished THEN "throws"
                                                ELSE "gone"]
        /\ UNCHANGED <<jobVars, serviceVars, adapterVars, workerVars, cancels>>

\* The connection quits while the call waits for an answer.
Disconnect(f) ==
    /\ ~connected
    /\ finds[f].answer = "none" /\ finds[f].at \in DOMAIN Questions
    /\ finds' = [finds EXCEPT ![f].answer = "closed"]
    /\ UNCHANGED <<jobVars, serviceVars, adapterVars, workerVars, cancels>>

-----------------------------------------------------------------------------
(* cancelJob: getJob, isActive, remove, and getState on what was removed.   *)

CancelBegin(c, j) ==
    /\ connected
    /\ cancels[c] = NoCancel
    /\ place[j] \notin {"new", "gone"}
    /\ cancels' = [cancels EXCEPT
                     ![c] = [job |-> j, finished |-> place[j] \in Settled,
                             step |-> "isActive"]]
    /\ UNCHANGED <<jobVars, serviceVars, adapterVars, workerVars, finds>>

\* A running job is not cancelled.
CancelAsk(c) ==
    /\ connected
    /\ cancels[c].step = "isActive"
    /\ cancels' = [cancels EXCEPT
                     ![c].step = IF place[cancels[c].job] = "active"
                                 THEN "rejected" ELSE "remove"]
    /\ UNCHANGED <<jobVars, serviceVars, adapterVars, workerVars, finds>>

\* Variant with a mistake: cancelJob relies on the answer of isActive().
CancelRemoveUnchecked(c) ==
    /\ connected
    /\ cancels[c].step = "remove"
    /\ cancels' = [cancels EXCEPT ![c].step = "getState"]
    /\ Move(cancels[c].job, "gone")
    /\ UNCHANGED <<options, tries, held, serviceVars, adapterVars, workerVars>>

\* remove() finds the job as it is now: BullMQ refuses if it is locked, by the
\* Worker that holds it or by a closed one whose lock has not run out.
CancelRemove(c) ==
    LET j == cancels[c].job
    IN  /\ connected
        /\ cancels[c].step = "remove"
        /\ \/ /\ place[j] = "active"
              /\ cancels' = [cancels EXCEPT ![c].step = "rejected"]
              /\ UNCHANGED <<place, finds>>
           \/ /\ held[j] = NoWorker
              /\ cancels' = [cancels EXCEPT ![c].step = "getState"]
              /\ Move(j, "gone")
        /\ UNCHANGED <<options, tries, held, serviceVars, adapterVars,
                       workerVars>>

\* The removed job is in no list, so getState() goes by finishedOn: it throws
\* for a job that was settled when it was fetched.
CancelReturn(c) ==
    /\ connected
    /\ cancels[c].step = "getState"
    /\ cancels' = [cancels EXCEPT ![c].step = IF cancels[c].finished
                                              THEN "rejected"
                                              ELSE "cancelled"]
    /\ UNCHANGED <<jobVars, serviceVars, adapterVars, workerVars, finds>>

\* The connection quits before the call is through.
CancelDisconnect(c) ==
    /\ ~connected
    /\ cancels[c].step \in {"isActive", "remove", "getState"}
    /\ cancels' = [cancels EXCEPT ![c].step = "rejected"]
    /\ UNCHANGED <<jobVars, serviceVars, adapterVars, workerVars, finds>>

-----------------------------------------------------------------------------

ServiceNext ==
    \/ \E n \in Names : CreateQueue(n) \/ StartNext(n)
    \/ Start
    \/ CheckConnects
    \/ CheckTimesOut
    \/ PingAnswers
    \/ CheckFails
    \/ ResumeThrows
    \/ InitQueue
    \/ InitProcessor
    \/ StartEnds
    \/ Stop
    \/ Destroy
    \/ Quit

JobNext(j) ==
    \/ Add(j)
    \/ Take(j)
    \/ Complete(j)
    \/ Throw(j)
    \/ Promote(j)
    \/ Stall(j)
    \/ RemoveSettledJob(j)

FindNext(f) ==
    \/ \E j \in Jobs : FindBegin(f, j)
    \/ Ask(f)
    \/ Conclude(f)
    \/ Disconnect(f)

CancelNext(c) ==
    \/ \E j \in Jobs : CancelBegin(c, j)
    \/ CancelAsk(c)
    \/ CancelRemove(c)
    \/ CancelReturn(c)
    \/ CancelDisconnect(c)

Next ==
    \/ ServiceNext
    \/ \E j \in Jobs : JobNext(j)
    \/ \E f \in Finds : FindNext(f)
    \/ \E c \in Cancels : CancelNext(c)

Spec == Init /\ [][Next]_vars

-----------------------------------------------------------------------------
(* Properties.                                                             *)

\* The values each variable can have: a Worker's number is that of the start()
\* that made it, and a job uses no more attempts than it was given.
TypeOK ==
    /\ place \in [Jobs -> {"new", "wait", "prioritized", "active", "delayed",
                           "failed", "completed", "gone"}]
    /\ nameOf \in [Jobs -> Names]
    /\ urgent \subseteq Jobs
    /\ tries \in [Jobs -> 0..Attempts]
    /\ held \in [Jobs -> Workers \cup {NoWorker}]
    /\ phase \in {"off", "checking", "pinging", "connecting", "resuming",
                  "starting", "on", "failed", "closing", "destroying"}
    /\ starts \in 0..MaxStarts
    /\ created \subseteq Names
    /\ running \subseteq created
    /\ processors \subseteq created
    /\ made \in BOOLEAN
    /\ connected \in BOOLEAN
    /\ hasProcessor \in BOOLEAN
    /\ stopped \in BOOLEAN
    /\ worker \in Workers \cup {NoWorker}
    /\ open \subseteq Workers
    /\ idle \subseteq Workers
    /\ finds \in [Finds -> FindRecord]
    /\ cancels \in [Cancels -> CancelRecord]

\* getState() may miss a job that moves between its questions.  It asks for the
\* lists in the order a job goes through them, so that it takes a job for
\* CANCELLED, or throws, only if the job was really removed, or went back to be
\* tried again while it asked, or waits in the list of the jobs with a priority,
\* which it never asks for.
UnknownStateIsRemoved ==
    \A f \in Finds :
        finds[f].answer \in {"gone", "throws"} =>
            {"gone", "prioritized"} \cap finds[f].seen # {} \/ finds[f].back

\* A job that cancelJob returned is over: no Worker has it, and none gets it,
\* although it may have been taken since isActive() said that it was not.
CancelledIsOver ==
    \A c \in Cancels :
        cancels[c].step = "cancelled" =>
            /\ place[cancels[c].job] = "gone"
            /\ held[cancels[c].job] = NoWorker

\* A started service with a running queue has a Worker that is not closed, on
\* every start, although the flag stopped is never reset and the queues of the
\* service share the Worker.
StartedHasWorker ==
    phase = "on" /\ running # {} => worker \in open

\* The adapter loses no Worker that takes jobs: none but this.worker is open, and
\* none after stop(), whether start() succeeded or was rejected, and also from the
\* second time on, when stop() of the adapter does nothing.  (A Worker without a
\* processor stays open if init() failed before there was a Queue to close.)
NoWorkerLeftBehind ==
    /\ open \ idle \subseteq {worker}
    /\ phase = "off" => open \subseteq idle

\* activeQueues "determines whether they get processed or not"
\* (packages/core/src/job-queue.service.ts:39): no attempt of a job whose queue is
\* not active is used up here.  The code breaks this: the Worker takes every job
\* of the one BullMQ queue, and the processor fails those it has no function for.
InactiveUntouched ==
    ActiveNames # {} =>
        \A j \in Jobs : nameOf[j] \notin ActiveNames => tries[j] = 0

=============================================================================
