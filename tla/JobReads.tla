------------------------------ MODULE JobReads ------------------------------
(***************************************************************************)
(* Clients that read jobs while the jobs change: SubscribableJob.updates() *)
(* (packages/core/src/subscribable-job.ts), which polls findOne() of one   *)
(* job, and a client that walks through the pages of findMany().           *)
(*                                                                         *)
(* The jobs are those of an adapter.  In memory a read is one step and     *)
(* returns the very Job object that goes on changing; BullMQ is asked in   *)
(* several steps, and returns a copy put together from the answers.        *)
(*                                                                         *)
(* How an adapter moves its jobs is in PollingQueue and BullMQAdapter; of  *)
(* that, this module has the states a reader can see one after another.    *)
(* One subscription or one walk is in a behaviour.  Only the changes of    *)
(* its own job matter to a subscription.                                   *)
(***************************************************************************)
EXTENDS JobQueries

CONSTANTS
    JobCount,       \* jobs 1..JobCount, in the order of creation
    Adapters,       \* a subset of {"memory", "bullmq"}
    Readers,        \* a subset of {"updates", "pages"}
    UrgentJobs,     \* bound: jobs that may be added with a priority, on BullMQ
    LastTick,       \* the last tick within timeoutMs
    MaxChanges      \* bound: changes of jobs

ASSUME JobCountAssumption == JobCount \in Nat \ {0}
ASSUME ReaderAssumption ==
    Adapters \subseteq {"memory", "bullmq"} /\ Readers \subseteq {"updates", "pages"}
ASSUME BoundAssumption == LastTick \in Nat /\ MaxChanges \in Nat

Jobs == 1..JobCount

ASSUME UrgentAssumption == UrgentJobs \subseteq Jobs

\* What updates() may be called on besides job 1: the result of add() for a
\* buffered job has the id 'buffered', that of an add() that failed has none.
Buffered == 0
NoId == -1

VARIABLES
    adapter,        \* the adapter of this behaviour
    reader,         \* the reader of this behaviour
    jobs,           \* what the adapter has of each job
    order,          \* the jobs it stores, in the order it got them
    changes,        \* how many changes there were: the time
    putBack,        \* jobs that were removed and stored again
    urgent,         \* the jobs that were added with a priority, on BullMQ
    subject,        \* what updates() is called on
    errorOnFail,    \* its option
    stream,         \* how far the stream of updates is
    ticks,          \* ticks of interval()
    pending,        \* findOne() calls whose answer will be used
    sent,           \* the last update
    heardSettled,   \* history: an answer was a settled job
    walk,           \* what the client of findMany() waits for
    options,        \* the options of its calls
    page,           \* the ids the adapter works on
    fetched,        \* those it has fetched, and whether each was finished
    returned,       \* how often each job was in a page
    there,          \* history: the jobs listed when the walk began
    onlyGrew        \* history: the list only got longer since

storeVars == <<adapter, reader, urgent, jobs, order, changes, putBack>>
streamVars == <<subject, errorOnFail, stream, ticks, pending, sent, heardSettled>>
walkVars == <<walk, options, page, fetched, returned, there, onlyGrew>>
vars == <<storeVars, streamVars, walkVars>>

-----------------------------------------------------------------------------
(* Jobs as a reader sees them.                                             *)

Final == {"COMPLETED", "FAILED", "CANCELLED"}
JobState == Final \cup {"PENDING", "RUNNING", "RETRYING"}
NotStored == {"new", "removed"}

\* progress counts halves.
Full == 2

\* over: no process function works on the job, and none will.
JobRecord == [state : JobState \cup NotStored, progress : 0..Full, over : BOOLEAN]

\* Two queues, whose jobs alternate.
QueueOf(j) == IF j % 2 = 1 THEN "na" ELSE "nb"

IsStored(j) == jobs[j].state \notin NotStored

\* The BullMQ list of a job.
WaitingList(j) == IF j \in urgent THEN "prioritized" ELSE "wait"
ListOf(stored, j) ==
    [PENDING |-> WaitingList(j), RUNNING |-> "active", RETRYING |-> "delayed",
     COMPLETED |-> "completed", FAILED |-> "failed"][stored[j].state]

\* A job that waits with a priority is in the list that no question of getState()
\* and no query of findMany() names.
IsHidden(j) == jobs[j].state = "PENDING" /\ j \in urgent

\* What a query looks at.
Item(id, job) ==
    [id |-> id, createdAt |-> id, state |-> job.state, queueName |-> QueueOf(id),
     progress |-> job.progress, isSettled |-> job.state \in Final,
     settledAt |-> IF job.state \in Final THEN 1 ELSE Undefined]

ItemsOf(stored, ids) == [i \in DOMAIN ids |-> Item(ids[i], stored[ids[i]])] \o <<>>
Items == ItemsOf(jobs, order)

BullJobsOf(stored, ids) ==
    {[id |-> j, queueName |-> QueueOf(j), list |-> ListOf(stored, j)] :
        j \in Range(ids)}
BullJobs == BullJobsOf(jobs, order)

\* The ids of all pages together, if nothing changed while they are read.
Listed(stored, ids, query) ==
    IF adapter = "memory"
    THEN LET found == ApplyFilters(ApplySort(ItemsOf(stored, ids), query.sort),
                                   query.filter)
         IN  [i \in DOMAIN found |-> found[i].id]
    ELSE GetJobsByType(BullJobsOf(stored, ids), JobTypes(query.filter),
                       query.filter, 0, JobCount).jobIds

\* An update: the fields are those of time fetchedAt and the state that of time
\* stateAt; missable says whether getState() may have missed the job, because it
\* went back in between or waited with a priority.
UpdateRecord == [state : JobState, progress : 0..Full, fetchedAt : 0..MaxChanges,
                 stateAt : 0..MaxChanges, missable : BOOLEAN]
NoUpdate == [state |-> "none"]

\* A findOne() call on BullMQ, before and after getJob() answered.
RequestRecord ==
    [step : {"getJob", "getState"}, progress : 0..Full, finished : BOOLEAN,
     fetchedAt : 0..MaxChanges, missable : BOOLEAN]
NewRequest == [step |-> "getJob", progress |-> 0, finished |-> FALSE,
               fetchedAt |-> 0, missable |-> FALSE]

\* The queries of the walks: filters by the type of the field, with the operands
\* that applyFilters looks at.
BooleanFilters == {[isSettled |-> [eq |-> FALSE]]}
StringFilters ==
    {[state |-> [eq |-> "PENDING"]], [state |-> [eq |-> "RETRYING"]],
     [queueName |-> [eq |-> "na"]]}
NumberFilters ==
    {[progress |-> [gt |-> 1, lte |-> Full]],
     [progress |-> [between |-> [start |-> 0, end |-> Full]],
      state |-> [eq |-> "RUNNING"]]}
DateFilters == {[settledAt |-> [before |-> 1]], [createdAt |-> [after |-> 2]]}
IdFilters == {[id |-> [eq |-> 2]]}

\* BullMQ has filters for isSettled, state and queueName and no sorting.
CommonFilters == {<<>>} \cup BooleanFilters \cup StringFilters
Sorts ==
    {<<[key |-> "createdAt", order |-> "DESC"]>>,
     <<[key |-> "createdAt", order |-> "ASC"], [key |-> "progress", order |-> "DESC"]>>}
Query(filter, sort, take) ==
    [filter |-> filter, sort |-> sort, skip |-> 0, take |-> take]
Queries ==
    {Query(filter, <<>>, take) : filter \in CommonFilters, take \in 1..2}
        \cup IF adapter = "bullmq" THEN {}
             ELSE {Query(filter, <<>>, 1) :
                      filter \in NumberFilters \cup DateFilters \cup IdFilters}
                      \cup {Query(filter, sort, 2) :
                               filter \in {<<>>} \cup BooleanFilters, sort \in Sorts}
NoQuery == [filter |-> <<>>, sort |-> <<>>, skip |-> 0, take |-> 0]

Init ==
    /\ adapter \in Adapters
    /\ reader \in Readers
    /\ jobs = [j \in Jobs |-> [state |-> IF j = 1 THEN "PENDING" ELSE "new",
                               progress |-> 0, over |-> FALSE]]
    /\ order = <<1>>
    /\ changes = 0
    /\ putBack = {}
    /\ urgent \in IF adapter = "bullmq" THEN SUBSET UrgentJobs ELSE {{}}
    /\ subject \in IF reader = "updates" THEN {1, Buffered, NoId} ELSE {1}
    /\ errorOnFail \in IF reader = "updates" THEN BOOLEAN ELSE {TRUE}
    /\ stream = IF reader = "updates" THEN "open" ELSE "none"
    /\ ticks = 0
    /\ pending = {}
    /\ sent = NoUpdate
    /\ heardSettled = FALSE
    /\ walk = "idle"
    /\ options = NoQuery
    /\ page = <<>>
    /\ fetched = <<>>
    /\ returned = [j \in Jobs |-> 0]
    /\ there = {}
    /\ onlyGrew = TRUE

-----------------------------------------------------------------------------
(* The jobs change.  Each change notes what it does to the calls under way. *)

IsWalking == walk \in {"paging", "fetching", "asking"}

\* What was listed before is listed after in the same order.
OnlyGrows(before, after) ==
    \E places \in SUBSET DOMAIN after : Remaining(after, places) = before

Noted(j, goesBack) ==
    /\ changes < MaxChanges
    /\ reader = "pages" \/ j = 1
    /\ UNCHANGED <<adapter, reader, urgent, subject, errorOnFail, stream, ticks, sent,
                   heardSettled, walk, options, page, fetched, returned, there>>
    /\ changes' = changes + 1
    /\ pending' = IF goesBack
                  THEN {[r EXCEPT !.missable = (r.step = "getState")] : r \in pending}
                  ELSE pending
    /\ onlyGrew' = (onlyGrew /\ (IsWalking =>
          OnlyGrows(Listed(jobs, order, options), Listed(jobs', order', options))))

\* A stored job changes.
Becomes(j, state, progress) ==
    /\ jobs' = [jobs EXCEPT
                  ![j] = [state |-> state, progress |-> progress,
                          over |-> @.over \/ state \in {"COMPLETED", "FAILED"}]]
    /\ UNCHANGED <<order, putBack>>

Leaves(j) ==
    /\ jobs' = [jobs EXCEPT
                  ![j] = [state |-> "removed", progress |-> @.progress,
                          over |-> @.over \/ adapter = "bullmq"]]
    /\ order' = Remaining(order, {i \in DOMAIN order : order[i] # j})
    /\ UNCHANGED putBack

\* In memory update() is a Map.set(): a job that was removed is stored again, as the
\* last one.
Updates(j, state, progress) ==
    IF IsStored(j) THEN Becomes(j, state, progress)
    ELSE /\ jobs' = [jobs EXCEPT
                       ![j] = [state |-> state, progress |-> progress,
                               over |-> @.over \/ state \in {"COMPLETED", "FAILED"}]]
         /\ order' = Append(order, j)
         /\ putBack' = putBack \cup {j}

Add(j) ==
    /\ jobs[j].state = "new"
    /\ \A i \in Jobs : i < j => jobs[i].state # "new"
    /\ jobs' = [jobs EXCEPT ![j].state = "PENDING"]
    /\ order' = Append(order, j)
    /\ UNCHANGED putBack
    /\ Noted(j, FALSE)

\* A process function begins.  BullMQ first puts a job that is tried again back
\* to the waiting ones.
Start(j) ==
    /\ jobs[j].state \in {"PENDING"} \cup IF adapter = "memory" THEN {"RETRYING"} ELSE {}
    /\ Becomes(j, "RUNNING", jobs[j].progress)
    /\ Noted(j, FALSE)

Report(j) ==
    /\ jobs[j].state = "RUNNING"
    /\ \E progress \in 1..Full :
          /\ progress > jobs[j].progress
          /\ Becomes(j, "RUNNING", progress)
    /\ Noted(j, FALSE)

\* On BullMQ the processor reports 100 before it returns.
Complete(j) ==
    /\ jobs[j].state = "RUNNING"
    /\ adapter = "bullmq" => jobs[j].progress = Full
    /\ Becomes(j, "COMPLETED", Full)
    /\ Noted(j, FALSE)

Fail(j) ==
    /\ jobs[j].state = "RUNNING"
    /\ \E state \in {"RETRYING", "FAILED"} :
          Becomes(j, state, IF adapter = "memory" THEN 0 ELSE jobs[j].progress)
    /\ Noted(j, FALSE)

\* The job waits again: its queue was stopped, its Worker was lost, or on BullMQ
\* its back-off is over.
Return(j) ==
    /\ jobs[j].state \in {"RUNNING"} \cup IF adapter = "bullmq" THEN {"RETRYING"} ELSE {}
    /\ Becomes(j, "PENDING", jobs[j].progress)
    /\ Noted(j, TRUE)

\* cancelJob: in memory whatever the job is, on BullMQ it is removed if it does
\* not run.
Cancel(j) ==
    /\ IsStored(j)
    /\ IF adapter = "memory"
       THEN Becomes(j, "CANCELLED", jobs[j].progress)
       ELSE jobs[j].state # "RUNNING" /\ Leaves(j)
    /\ Noted(j, FALSE)

\* In memory a cancelled job that is not over is still picked or goes on, also when
\* it was removed.
GoesOnCancelled(j) ==
    /\ adapter = "memory"
    /\ jobs[j].state \in {"CANCELLED", "removed"}
    /\ ~jobs[j].over

\* complete() and fail() replace the state, unless no retry is left.
LateOutcome(j) ==
    /\ GoesOnCancelled(j)
    /\ \/ Updates(j, "COMPLETED", Full)
       \/ Updates(j, "RETRYING", 0)
       \/ Updates(j, "CANCELLED", 0)
    /\ Noted(j, FALSE)

\* The loop accepts it, or its process function reports progress.
LateUpdate(j) ==
    /\ GoesOnCancelled(j)
    /\ \E progress \in jobs[j].progress..Full : Updates(j, "CANCELLED", progress)
    /\ Noted(j, FALSE)

\* removeSettledJobs, or BullMQ itself.
RemoveSettled(j) ==
    /\ jobs[j].state \in Final
    /\ Leaves(j)
    /\ Noted(j, FALSE)

\* In memory cancelJob stores a job that was removed while it looked for it, and a
\* run the job whose outcome it has set.  (Which outcome that was is not kept.)
PutBack(j) ==
    /\ adapter = "memory"
    /\ jobs[j].state = "removed"
    /\ \E state \in {"CANCELLED"} \cup IF jobs[j].over THEN {"COMPLETED", "FAILED"} ELSE {} :
          Updates(j, state, jobs[j].progress)
    /\ Noted(j, FALSE)

StoreNext(j) ==
    \/ Add(j)
    \/ Start(j)
    \/ Report(j)
    \/ Complete(j)
    \/ Fail(j)
    \/ Return(j)
    \/ Cancel(j)
    \/ LateOutcome(j)
    \/ LateUpdate(j)
    \/ RemoveSettled(j)
    \/ PutBack(j)

-----------------------------------------------------------------------------
(* SubscribableJob.updates().                                              *)

\* distinctUntilChanged(): variant that always compares an object with itself.
SameObject(state, progress) == sent # NoUpdate

\* It compares progress and state of the answer with those of the answer before,
\* which in memory is the same object.
SameAsLast(state, progress) ==
    /\ sent # NoUpdate
    /\ adapter = "memory" \/ (sent.state = state /\ sent.progress = progress)

\* Variant of Emit: takeWhile() drops the answer that ends the stream.
EmitExclusive(state, progress, fetchedAt, missable) ==
    /\ heardSettled' = (heardSettled \/ state \in Final)
    /\ stream' = IF state \in Final /\ ~SameAsLast(state, progress)
                 THEN "completed" ELSE stream
    /\ sent' = IF state \in Final \/ SameAsLast(state, progress) THEN sent
               ELSE [state |-> state, progress |-> progress,
                     fetchedAt |-> fetchedAt, stateAt |-> changes, missable |-> missable]

\* An answer goes through distinctUntilChanged, takeWhile, which lets the settled
\* job pass and then ends the stream, and tap, which throws for a FAILED one.
Emit(state, progress, fetchedAt, missable) ==
    LET fails == state = "FAILED" /\ errorOnFail
    IN  /\ heardSettled' = (heardSettled \/ state \in Final)
        /\ IF SameAsLast(state, progress)
           THEN UNCHANGED <<stream, sent>>
           ELSE /\ stream' = CASE fails -> "failed"
                               [] ~fails /\ state \in Final -> "completed"
                               [] OTHER -> stream
                /\ sent' = IF fails THEN sent
                           ELSE [state |-> state, progress |-> progress,
                                 fetchedAt |-> fetchedAt, stateAt |-> changes,
                                 missable |-> missable]

Tick ==
    /\ stream = "open"
    /\ ticks' = ticks + 1
    /\ UNCHANGED <<storeVars, subject, errorOnFail, walkVars>>

\* Variant of TickTimesOut: without an answer there is nothing to time out.
TickTimesOutAfterUpdate ==
    /\ LastTick < ticks
    /\ sent # NoUpdate
    /\ Tick
    /\ stream' = "timedOut"
    /\ pending' = {}
    /\ UNCHANGED <<sent, heardSettled>>

\* timeoutMs < i * pollInterval
TickTimesOut ==
    /\ LastTick < ticks
    /\ Tick
    /\ stream' = "timedOut"
    /\ pending' = {}
    /\ UNCHANGED <<sent, heardSettled>>

\* A job without an id cannot be looked up.
TickThrows ==
    /\ ticks <= LastTick
    /\ subject = NoId
    /\ Tick
    /\ stream' = "error"
    /\ UNCHANGED <<pending, sent, heardSettled>>

\* In memory findOne() answers before anything else happens.  The answer for a
\* job that is not in the map is dropped.
TickReads ==
    /\ ticks <= LastTick
    /\ adapter = "memory" /\ subject # NoId
    /\ Tick
    /\ IF subject \in Jobs /\ IsStored(subject)
       THEN Emit(jobs[subject].state, jobs[subject].progress, changes, FALSE)
       ELSE UNCHANGED <<stream, sent, heardSettled>>
    /\ UNCHANGED pending

\* Variant of TickAsks: mergeMap() in the place of switchMap().
TickAsksToo ==
    /\ ticks <= LastTick
    /\ adapter = "bullmq" /\ subject # NoId
    /\ Tick
    /\ pending' = pending \cup {NewRequest}
    /\ UNCHANGED <<stream, sent, heardSettled>>

\* switchMap(): the answer to the call before will not be used.
TickAsks ==
    /\ ticks <= LastTick
    /\ adapter = "bullmq" /\ subject # NoId
    /\ Tick
    /\ pending' = {NewRequest}
    /\ UNCHANGED <<stream, sent, heardSettled>>

\* getJob() answers with the fields of the job, or with nothing.
GetJob(r) ==
    /\ r.step = "getJob"
    /\ pending' = (pending \ {r}) \cup
          IF subject \in Jobs /\ IsStored(subject)
          THEN {[step |-> "getState", progress |-> jobs[subject].progress,
                 finished |-> jobs[subject].state \in Final,
                 fetchedAt |-> changes, missable |-> IsHidden(subject)]}
          ELSE {}
    /\ UNCHANGED <<storeVars, subject, errorOnFail, stream, ticks, sent,
                   heardSettled, walkVars>>

\* Variant of GetState: a job whose attempt failed is reported as FAILED.
ReportedFailed(state) == IF state = "RETRYING" THEN "FAILED" ELSE state

\* The list that says yes decides.
Reported(state) == state

\* getState() finds the job where it is now.  A job in no list it asks is CANCELLED:
\* so is one that waits with a priority, and one that went back while it asked may
\* be missed (UnknownStateIsRemoved of BullMQAdapter).
GetState(r) ==
    /\ r.step = "getState"
    /\ pending' = pending \ {r}
    /\ \/ /\ IsStored(subject) /\ ~IsHidden(subject)
          /\ Emit(Reported(jobs[subject].state), r.progress, r.fetchedAt, r.missable)
       \/ /\ ~IsStored(subject) \/ r.missable
          /\ ~r.finished
          /\ Emit("CANCELLED", r.progress, r.fetchedAt, r.missable)
    /\ UNCHANGED <<storeVars, subject, errorOnFail, ticks, walkVars>>

\* The call rejects: getState() cannot tell what became of a finished job, or
\* the connection fails.
FindOneThrows(r) ==
    /\ stream' = "error"
    /\ pending' = {}
    /\ UNCHANGED <<storeVars, subject, errorOnFail, ticks, sent, heardSettled,
                   walkVars>>

StreamNext ==
    \/ TickTimesOut
    \/ TickThrows
    \/ TickReads
    \/ TickAsks
    \/ \E r \in pending :
          stream = "open" /\ (GetJob(r) \/ GetState(r) \/ FindOneThrows(r))

-----------------------------------------------------------------------------
(* A walk through the pages of findMany(), until a page is empty.          *)

WalkBegins ==
    /\ reader = "pages"
    /\ walk = "idle"
    /\ options' \in Queries
    /\ walk' = "paging"
    /\ UNCHANGED <<storeVars, streamVars, page, fetched, returned, onlyGrew>>
    /\ there' = Range(Listed(jobs, order, options'))

\* A page has come back.
Turn(ids) ==
    /\ returned' = [j \in Jobs |-> returned[j] + IF Contains(ids, j) THEN 1 ELSE 0]
    /\ options' = [options EXCEPT !.skip = @ + options.take]
    /\ walk' = IF ids = <<>> THEN "over" ELSE "paging"

PageFromMemory ==
    LET items == FindMany(Items, options).items
        ids == [i \in DOMAIN items |-> items[i].id]
    IN  /\ walk = "paging"
        /\ adapter = "memory"
        /\ page' = ids
        /\ Turn(ids)
        /\ UNCHANGED <<storeVars, streamVars, fetched, there, onlyGrew>>

\* The script that defineCustomLuaScripts() has given to Redis, with its arguments.
CallCustomScript ==
    GetJobsByType(BullJobs, JobTypes(options.filter), options.filter, options.skip,
                  options.take)

\* On BullMQ the script finds the ids ...
Script ==
    LET ids == CallCustomScript.jobIds
    IN  /\ walk = "paging"
        /\ adapter = "bullmq"
        /\ page' = ids
        /\ fetched' = <<>>
        /\ IF ids = <<>> THEN Turn(ids)
           ELSE walk' = "fetching" /\ UNCHANGED <<returned, options>>
        /\ UNCHANGED <<storeVars, streamVars, there, onlyGrew>>

\* ... each of them is fetched, unless it is gone by now ...
FromId ==
    LET j == Head(page)
        kept == IF IsStored(j)
                THEN Append(fetched, [id |-> j, finished |-> jobs[j].state \in Final])
                ELSE fetched
    IN  /\ walk = "fetching"
        /\ page' = Tail(page)
        /\ fetched' = kept
        /\ IF Tail(page) # <<>> THEN UNCHANGED <<walk, returned, options>>
           ELSE IF kept = <<>> THEN Turn(kept)
           ELSE walk' = "asking" /\ UNCHANGED <<returned, options>>
        /\ UNCHANGED <<storeVars, streamVars, there, onlyGrew>>

\* ... and asked for its state; one that cannot be told rejects the whole page.
CreateJoborJob ==
    LET item == Head(fetched)
        ids == Append(page, item.id)
    IN  /\ walk = "asking"
        /\ fetched' = Tail(fetched)
        /\ IF item.finished /\ ~IsStored(item.id)
           THEN walk' = "rejected" /\ page' = <<>> /\ UNCHANGED <<returned, options>>
           ELSE /\ page' = IF Tail(fetched) = <<>> THEN <<>> ELSE ids
                /\ IF Tail(fetched) = <<>> THEN Turn(ids)
                   ELSE UNCHANGED <<walk, returned, options>>
        /\ UNCHANGED <<storeVars, streamVars, there, onlyGrew>>

\* The script or the call for one of the jobs fails: findMany() rejects.
FindManyThrows ==
    /\ adapter = "bullmq"
    /\ walk \in {"paging", "fetching"}
    /\ walk' = "rejected"
    /\ page' = <<>>
    /\ fetched' = <<>>
    /\ UNCHANGED <<storeVars, streamVars, options, returned, there, onlyGrew>>

WalkNext ==
    \/ WalkBegins
    \/ PageFromMemory
    \/ Script
    \/ FromId
    \/ CreateJoborJob
    \/ FindManyThrows

-----------------------------------------------------------------------------

Next == (\E j \in Jobs : StoreNext(j)) \/ StreamNext \/ WalkNext

Spec == Init /\ [][Next]_vars

\* interval() goes on ticking.  Nothing is assumed of the answers.
FairSpec == Spec /\ WF_vars(TickTimesOut \/ TickThrows \/ TickReads \/ TickAsks)

-----------------------------------------------------------------------------
(* Correctness.                                                            *)

\* The values each variable can have: no more than one call of findOne() is
\* listened to, and a page is not longer than was asked for.
TypeOK ==
    /\ adapter \in Adapters
    /\ reader \in Readers
    /\ jobs \in [Jobs -> JobRecord]
    /\ order \in Seq(Jobs) /\ IsInjective(order)
    /\ changes \in 0..MaxChanges
    /\ putBack \subseteq Jobs /\ urgent \subseteq Jobs
    /\ subject \in {1, Buffered, NoId}
    /\ errorOnFail \in BOOLEAN
    /\ stream \in {"none", "open", "completed", "failed", "timedOut", "error"}
    /\ ticks \in 0..(LastTick + 2)
    /\ pending \subseteq RequestRecord /\ Cardinality(pending) <= 1
    /\ sent \in UpdateRecord \cup {NoUpdate}
    /\ heardSettled \in BOOLEAN
    /\ walk \in {"idle", "paging", "fetching", "asking", "over", "rejected"}
    /\ Len(page) <= options.take
    /\ Len(fetched) <= options.take
    /\ returned \in [Jobs -> Nat]
    /\ there \subseteq Jobs
    /\ onlyGrew \in BOOLEAN

\* The updates of a stream follow the history of the job: what an update tells,
\* though put together from answers of different times, is nowhere older than
\* anything the update before it told.
UpdatesMoveForward ==
    [][sent' # sent /\ sent # NoUpdate => sent'.fetchedAt >= sent.stateAt]_vars

\* A stream completes with the settled job as its last update, and a settled job
\* never is an update that others follow.
CompletedTellsOutcome ==
    stream \in {"open", "completed", "timedOut"} =>
        (stream = "completed" <=> sent.state \in Final)

\* What a stream reports as the end is the end: a job reported as COMPLETED or
\* FAILED is not processed again, and one that BullMQ has as CANCELLED is removed,
\* unless it went back to be tried again while its state was asked, or waited with a
\* priority then, which is not asked for.
OutcomeIsReal ==
    /\ stream = "failed" => jobs[subject].over
    /\ stream = "completed" =>
          \/ sent.state \in {"COMPLETED", "FAILED"} /\ jobs[subject].over
          \/ sent.state = "CANCELLED" /\ adapter = "memory"
          \/ sent.state = "CANCELLED" /\ (sent.missable \/ ~IsStored(subject))

\* On BullMQ a stream that hears of the settled job ends with it.
CopiesEndStream ==
    adapter = "bullmq" /\ heardSettled => stream \in {"completed", "failed"}

\* Every stream ends, also if the job never settles or findOne() never answers.
StreamEnds == stream = "open" ~> stream # "open"

\* A walk misses nothing: if no job left the list or changed places while the
\* walk went on, all that were listed when it began have been returned, although
\* jobs came in before or behind the place it had reached.
WalkMissesNothing ==
    walk = "over" /\ onlyGrew => \A j \in there : returned[j] > 0

\* A walk through all jobs in memory returns none of them twice, although jobs
\* are added and removed, except for those that cancelJob or a run that went on
\* stored again, at the end.
WalkRepeatsNothing ==
    adapter = "memory" /\ options.filter = <<>> /\ options.sort = <<>> =>
        \A j \in Jobs \ putBack : returned[j] <= 1

\* A page is what its options say: the jobs of these ranks among those that match
\* all filters, in the order of the last sort property, or on BullMQ the newest
\* first.  (BullMQ looks for RETRYING jobs in a list that never has any, and never
\* for a job that waits with a priority: such a job is on no page.)
PageIsRight ==
    [][/\ PageFromMemory => IsPage([i \in DOMAIN page' |-> Item(page'[i], jobs[page'[i]])],
                                   Items, options)
       /\ Script /\ options.filter # [state |-> [eq |-> "RETRYING"]] =>
            IsPage([i \in DOMAIN page' |-> Item(page'[i], jobs[page'[i]])],
                   ItemsOf(jobs, Remaining(order, {i \in DOMAIN order : ~IsHidden(order[i])})),
                   [options EXCEPT
                      !.sort = <<[key |-> "createdAt", order |-> "DESC"]>>])]_vars

-----------------------------------------------------------------------------
(* Claims of comments that the code does not keep.                         *)

\* job-queue.ts:67 "The returned Observable will emit a value for every update to
\* the job such as when the `progress` or `status` value changes.": when the job
\* is seen settled, the stream has told so.
\* (It is not when the adapter is the in-memory one.)
SettledIsReported == heardSettled => stream \in {"completed", "failed"}

=============================================================================
