-------------------------- MODULE ServiceLifecycle --------------------------
(***************************************************************************)
(* JobQueueService.createQueue, start and stop, with JobQueue.start and    *)
(* stop, BaseJobQueueAdapter.init and destroy, start and stop of           *)
(* PollingJobQueueStrategy, and the eviction timer that the in-memory      *)
(* adapter arms in doInit and clears in doDestroy                          *)
(* (packages/core/src/job-queue.service.ts, job-queue.ts,                  *)
(* base-job-queue-adapter.ts, polling-job-queue-strategy.ts and            *)
(* adapters/in-memory-job-queue-adapter.ts).                               *)
(*                                                                         *)
(* The calls are asynchronous and clients need not await one before they   *)
(* make the next.  A step is the code of one call between two awaits.  The *)
(* steps of different calls come in any order, which allows more than the  *)
(* event loop does when nothing but promise callbacks is in between.       *)
(***************************************************************************)
EXTENDS Naturals, Sequences, SequencesExt, FiniteSets, FiniteSetsExt

CONSTANTS
    Queues,         \* the queues clients create, each with its own name
    ActiveNames,    \* the option activeQueues; empty means every queue
    Awaiting,       \* whether clients await start() and stop() before they
                    \* call one of them: a subset of BOOLEAN
    MaxCalls        \* bound: calls of start() that do something, and of stop()

ASSUME QueuesAssumption == IsFiniteSet(Queues)
ASSUME ActiveNamesAssumption == ActiveNames \subseteq Queues
ASSUME AwaitingAssumption == Awaiting \subseteq BOOLEAN
ASSUME MaxCallsAssumption == MaxCalls \in Nat

Calls == 1..MaxCalls

VARIABLES
    awaited,        \* whether the clients of this run await their calls
    isStarted,      \* JobQueueService.isStarted
    queues,         \* JobQueueService.queues
    creating,       \* where createQueue() of each queue is
    starting,       \* where each start() is
    at,             \* its place in the list it goes through
    stopping,       \* where each stop() is
    running,        \* JobQueue.running
    initialized,    \* BaseJobQueueAdapter._initialized
    started,        \* keys of BaseJobQueueAdapter.started, in insertion order
    active,         \* queues that have an ActiveQueue in activeQueues
    timers,         \* eviction timers, which arm themselves again, each named
                    \* after the call that armed it first
    timer           \* the one that InMemoryJobQueueAdapter.timer refers to

timerVars == <<timers, timer>>
vars == <<awaited, isStarted, queues, creating, starting, at, stopping, running,
          initialized, started, active, timerVars>>

NoTimer == 0

ShouldStartQueue(q) == ActiveNames = {} \/ q \in ActiveNames

Init ==
    /\ awaited \in Awaiting
    /\ isStarted = FALSE
    /\ queues = <<>>
    /\ creating = [q \in Queues |-> "no"]
    /\ starting = [c \in Calls |-> "no"]
    /\ at = [c \in Calls |-> 1]
    /\ stopping = [c \in Calls |-> "no"]
    /\ running = {}
    /\ initialized = FALSE
    /\ started = <<>>
    /\ active = {}
    /\ timers = {}
    /\ timer = NoTimer

-----------------------------------------------------------------------------
(* The adapter.                                                            *)

\* start(queueName, process): before init() the queue is only noted down.
AdapterStart(q) ==
    IF initialized
    THEN active' = active \cup {q} /\ UNCHANGED started
    ELSE /\ started' = IF Contains(started, q) THEN started
                       ELSE Append(started, q)
         /\ UNCHANGED active

\* JobQueue.start() of a queue that does not run.
StartQueue(q) == running' = running \cup {q} /\ AdapterStart(q)

-----------------------------------------------------------------------------
(* JobQueueService.createQueue().                                          *)

\* The queue of a started service is started before it is registered.
CreateQueue(q) ==
    /\ creating[q] = "no"
    /\ IF isStarted /\ ShouldStartQueue(q)
       THEN /\ StartQueue(q)
            /\ creating' = [creating EXCEPT ![q] = "starting"]
            /\ UNCHANGED queues
       ELSE /\ queues' = Append(queues, q)
            /\ creating' = [creating EXCEPT ![q] = "created"]
            /\ UNCHANGED <<running, started, active>>
    /\ UNCHANGED <<awaited, isStarted, starting, at, stopping, initialized, timerVars>>

CreateQueueEnds(q) ==
    /\ creating[q] = "starting"
    /\ queues' = Append(queues, q)
    /\ creating' = [creating EXCEPT ![q] = "created"]
    /\ UNCHANGED <<awaited, isStarted, starting, at, stopping, running, initialized,
                   started, active, timerVars>>

-----------------------------------------------------------------------------
(* JobQueueService.start().                                                *)

\* The next call of c in "no", so that calls are numbered in order.
NextCall(c, pc) ==
    /\ pc[c] = "no"
    /\ \A d \in Calls : d < c => pc[d] # "no"

\* Clients that await their calls make no other before one is over.
MayCall ==
    awaited => \A c \in Calls : /\ starting[c] \in {"no", "done"}
                               /\ stopping[c] \in {"no", "done"}

\* The loop of doInit() from its entry k on: an entry is started, or the loop
\* is over and the map is cleared.
DoInit(c, k) ==
    IF k <= Len(started)
    THEN /\ AdapterStart(started[k])
         /\ starting' = [starting EXCEPT ![c] = "initializing"]
         /\ at' = [at EXCEPT ![c] = k + 1]
    ELSE /\ started' = <<>>
         /\ starting' = [starting EXCEPT ![c] = "arming"]
         /\ at' = [at EXCEPT ![c] = 1]
         /\ UNCHANGED active

\* start() up to its first await.  A first start() finds the adapter not
\* initialized; init() raises the flag before doInit() calls start().
Start(c) ==
    /\ ~isStarted
    /\ MayCall
    /\ NextCall(c, starting)
    /\ isStarted' = TRUE
    /\ initialized' = TRUE
    /\ IF initialized \/ started = <<>>
       THEN /\ starting' = [starting EXCEPT
                              ![c] = IF initialized THEN "looping" ELSE "arming"]
            /\ UNCHANGED <<at, started, active>>
       ELSE /\ active' = active \cup {Head(started)}
            /\ starting' = [starting EXCEPT ![c] = "initializing"]
            /\ at' = [at EXCEPT ![c] = 2]
            /\ UNCHANGED started
    /\ UNCHANGED <<awaited, queues, creating, stopping, running, timerVars>>

Initializing(c) ==
    /\ starting[c] = "initializing"
    /\ DoInit(c, at[c])
    /\ UNCHANGED <<awaited, isStarted, queues, creating, stopping, running, initialized,
                   timerVars>>

\* doInit() of the in-memory adapter: the eviction timer, whatever timer there is.
ArmTimer(c) ==
    /\ starting[c] = "arming"
    /\ timers' = timers \cup {c}
    /\ timer' = c
    /\ starting' = [starting EXCEPT ![c] = "looping"]
    /\ UNCHANGED <<awaited, isStarted, queues, creating, at, stopping, running,
                   initialized, started, active>>

\* An eviction timer fires: it arms itself again, and is the one referred to.
EvictionTimer(c) ==
    /\ c \in timers
    /\ timer' = c
    /\ UNCHANGED <<awaited, isStarted, queues, creating, starting, at, stopping,
                   running, initialized, started, active, timers>>

\* The queues the loop of start() has still to start.
ToStart(c) ==
    {i \in at[c]..Len(queues) : /\ queues[i] \notin running
                                /\ ShouldStartQueue(queues[i])}

\* Variant of StartNext: the place of the next queue is off by one.
StartNextSkipping(c) ==
    LET i == Min(ToStart(c))
    IN  /\ starting[c] = "looping"
        /\ ToStart(c) # {}
        /\ StartQueue(queues[i])
        /\ at' = [at EXCEPT ![c] = i + 2]
        /\ UNCHANGED <<awaited, isStarted, queues, creating, starting, stopping,
                       initialized, timerVars>>

\* The loop over the queues, which does not look at isStarted again.
StartNext(c) ==
    LET i == Min(ToStart(c))
    IN  /\ starting[c] = "looping"
        /\ ToStart(c) # {}
        /\ StartQueue(queues[i])
        /\ at' = [at EXCEPT ![c] = i + 1]
        /\ UNCHANGED <<awaited, isStarted, queues, creating, starting, stopping,
                       initialized, timerVars>>

StartEnds(c) ==
    /\ starting[c] = "looping"
    /\ ToStart(c) = {}
    /\ starting' = [starting EXCEPT ![c] = "done"]
    /\ at' = [at EXCEPT ![c] = 1]
    /\ UNCHANGED <<awaited, isStarted, queues, creating, stopping, running, initialized,
                   started, active, timerVars>>

-----------------------------------------------------------------------------
(* JobQueueService.stop().                                                 *)

\* Variant of Stop: the adapter drops every ActiveQueue.
StopEverything(c) ==
    LET stopped == {q \in running : Contains(queues, q)}
    IN  /\ isStarted
        /\ MayCall
        /\ NextCall(c, stopping)
        /\ isStarted' = FALSE
        /\ running' = running \ stopped
        /\ active' = {}
        /\ stopping' = [stopping EXCEPT ![c] = "draining"]
        /\ UNCHANGED <<awaited, queues, creating, starting, at, initialized,
                       started, timerVars>>

\* stop() up to its first await: stop() of every registered queue that runs
\* takes its ActiveQueue out of activeQueues at once.
Stop(c) ==
    LET stopped == {q \in running : Contains(queues, q)}
    IN  /\ isStarted
        /\ MayCall
        /\ NextCall(c, stopping)
        /\ isStarted' = FALSE
        /\ running' = running \ stopped
        /\ active' = active \ stopped
        /\ stopping' = [stopping EXCEPT ![c] = "draining"]
        /\ UNCHANGED <<awaited, queues, creating, starting, at, initialized,
                       started, timerVars>>

\* Variant of Destroy: the flag stays up.
DestroyInitialized(c) ==
    /\ stopping[c] = "draining"
    /\ stopping' = [stopping EXCEPT ![c] = IF initialized THEN "clearing" ELSE "done"]
    /\ UNCHANGED <<awaited, isStarted, queues, creating, starting, at, running,
                   initialized, started, active, timerVars>>

\* The active queues have drained, or two seconds have passed: destroy(), which
\* does nothing if another one came first.
Destroy(c) ==
    /\ stopping[c] = "draining"
    /\ stopping' = [stopping EXCEPT ![c] = IF initialized THEN "clearing" ELSE "done"]
    /\ initialized' = FALSE
    /\ UNCHANGED <<awaited, isStarted, queues, creating, starting, at, running, started,
                   active, timerVars>>

\* Variant of StopEnds: the reference is dropped and the timer is not cleared.
StopEndsForgetting(c) ==
    /\ stopping[c] = "clearing"
    /\ stopping' = [stopping EXCEPT ![c] = "done"]
    /\ timer' = NoTimer
    /\ UNCHANGED <<awaited, isStarted, queues, creating, starting, at, running,
                   initialized, started, active, timers>>

\* doDestroy() of the in-memory adapter clears the timer it refers to by now.
StopEnds(c) ==
    /\ stopping[c] = "clearing"
    /\ stopping' = [stopping EXCEPT ![c] = "done"]
    /\ timers' = timers \ {timer}
    /\ UNCHANGED <<awaited, isStarted, queues, creating, starting, at, running,
                   initialized, started, active, timer>>

-----------------------------------------------------------------------------
Next ==
    \/ \E q \in Queues : CreateQueue(q) \/ CreateQueueEnds(q)
    \/ \E c \in Calls :
          \/ Start(c)
          \/ Initializing(c)
          \/ ArmTimer(c)
          \/ EvictionTimer(c)
          \/ StartNext(c)
          \/ StartEnds(c)
          \/ Stop(c)
          \/ Destroy(c)
          \/ StopEnds(c)

Spec == Init /\ [][Next]_vars

-----------------------------------------------------------------------------
(* Correctness.                                                            *)

TypeOK ==
    /\ awaited \in Awaiting
    /\ isStarted \in BOOLEAN
    /\ queues \in Seq(Queues)
    /\ creating \in [Queues -> {"no", "starting", "created"}]
    /\ starting \in [Calls -> {"no", "initializing", "arming", "looping", "done"}]
    /\ at \in [Calls -> 1..(Cardinality(Queues) + 1)]
    /\ stopping \in [Calls -> {"no", "draining", "clearing", "done"}]
    /\ running \in SUBSET Queues
    /\ initialized \in BOOLEAN
    /\ started \in Seq(Queues)
    /\ active \in SUBSET Queues
    /\ timers \in SUBSET Calls
    /\ timer \in Calls \cup {NoTimer}

\* getJobQueues(): each registered queue and whether it runs.
GetJobQueues ==
    [i \in DOMAIN queues |-> [name |-> queues[i], running |-> queues[i] \in running]]

\* No call is in progress.
Quiescent ==
    /\ \A q \in Queues : creating[q] # "starting"
    /\ \A c \in Calls : /\ starting[c] \in {"no", "done"}
                        /\ stopping[c] \in {"no", "done"}

\* When start() and stop() are awaited the adapter serves exactly the queues that
\* getJobQueues() reports to be running, wherever createQueue() of others is.
RunningIsServed == awaited => active = running

\* When start() and stop() are awaited the adapter is initialized exactly as long
\* as the service is started, but for the time stop() takes.
AdapterFollowsService ==
    awaited => (initialized <=> \/ isStarted
                               \/ \E c \in Calls : stopping[c] = "draining")

\* Once every call is over, a started service runs every queue it registered
\* and may run: no overlap of createQueue(), start() and stop() forgets one.
StartedRunsAll ==
    (Quiescent /\ isStarted) =>
        \A i \in DOMAIN queues :
            ShouldStartQueue(GetJobQueues[i].name) => GetJobQueues[i].running

\* When start() and stop() are awaited there is one eviction timer while the
\* service is started and none when it is stopped, also after it has fired and
\* armed itself again: restarts leave no timer behind, and none is missing.
OneEvictionTimer ==
    (awaited /\ Quiescent) => timers = IF isStarted THEN {timer} ELSE {}

-----------------------------------------------------------------------------
(* Claims of the code's comments that the code does not keep.              *)

\* job-queue.service.ts:97 "Starts all registered JobQueues.": once every call is
\* over each registered queue of a started service has an ActiveQueue.
StartedServesAll ==
    (Quiescent /\ isStarted) =>
        \A i \in DOMAIN queues :
            ShouldStartQueue(queues[i]) => queues[i] \in active

=============================================================================
