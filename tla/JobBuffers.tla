----------------------------- MODULE JobBuffers -----------------------------
(***************************************************************************)
(* JobQueue.add, JobBufferService and the two stores behind it             *)
(* (packages/core/src/job-queue.ts, job-buffer.service.ts,                 *)
(* bufstores/in-memory-job-bufstore.ts and                                 *)
(* bufstores/bufstore-redis/src/redis-job-bufstore.ts).                    *)
(*                                                                         *)
(* Every call of add() and of flush() is an actor: its steps are the code  *)
(* between two awaits, so the calls interleave.  The in-memory store works *)
(* inside one step; the Redis store is one command per step.               *)
(*                                                                         *)
(* JobBufferService.buffers is a Set that both calls walk through while    *)
(* buffers come and go.  Its iteration is live: a buffer that is removed   *)
(* is passed over, and one that is registered, also one that was removed   *)
(* before, comes at the end and is still visited.  So the Set is modelled  *)
(* as a list of places that only grows, and a loop has a place in it.      *)
(***************************************************************************)
EXTENDS Naturals, Sequences, SequencesExt, FiniteSets, FiniteSetsExt

CONSTANTS
    Buffers,        \* the ids of buffers
    JobCount,       \* jobs 1..JobCount, in the order of createdAt
    MaxPlaces,      \* bound: calls of addBuffer()
    Flushes,        \* calls of flush()
    RedisFlushes,   \* bound: calls of flush() on Redis
    Stores,         \* kinds of store: a subset of {"memory", "redis"}
    AdapterFails    \* whether adapter.add may throw

ASSUME CountAssumption == MaxPlaces \in Nat /\ JobCount \in Nat
ASSUME FlushesAssumption == IsFiniteSet(Flushes)
ASSUME StoresAssumption == Stores \subseteq {"memory", "redis"}
ASSUME RedisFlushesAssumption == RedisFlushes \in Nat
ASSUME AdapterAssumption == AdapterFails \in BOOLEAN

Jobs == 1..JobCount

VARIABLES
    store,          \* the kind of store of this run
    places,         \* the buffer of each addBuffer() call
    live,           \* the places that were not removed: JobBufferService.buffers
    adding,         \* where the add() of each job is
    asked,          \* the place whose buffer's collect() it called last
    collectedBy,    \* the places whose buffers it stored the job in
    stored,         \* the jobs each buffer holds in the store
    flushing,       \* where each flush() is
    wanted,         \* history: the ids it was called with
    todo,           \* buffers whose jobs it still has to read
    key,            \* the one whose list it has read and not yet deleted
    at,             \* the place its loop has come to
    taken,          \* flushResult
    batch,          \* jobsToAdd left: each stands for a set of jobs
    visited,        \* history: the places where it has found jobs to add
    queued          \* how often the adapter was given the work of a job

bufferVars == <<store, places, live>>
addVars == <<adding, asked, collectedBy>>
flushVars == <<flushing, wanted, todo, key, at, taken, batch, visited>>
vars == <<bufferVars, addVars, flushVars, stored, queued>>

NoPlace == 0
NoJobs == [b \in Buffers |-> {}]
NothingTaken == [f \in Flushes |-> NoJobs]

\* The buffers that are registered now.
Registered == {places[p] : p \in live}

\* The next place of a loop is the first one not removed after place p.
After(p) == {q \in live : q > p}
NextOf(p) == Min(After(p))

Init ==
    /\ store \in Stores
    /\ places = <<>>
    /\ live = {}
    /\ adding = [j \in Jobs |-> "new"]
    /\ asked = [j \in Jobs |-> NoPlace]
    /\ collectedBy = [j \in Jobs |-> {}]
    /\ stored = NoJobs
    /\ flushing = [f \in Flushes |-> "idle"]
    /\ wanted = [f \in Flushes |-> {}]
    /\ todo = [f \in Flushes |-> {}]
    /\ key = [f \in Flushes |-> {}]
    /\ at = [f \in Flushes |-> NoPlace]
    /\ taken = NothingTaken
    /\ batch = [f \in Flushes |-> <<>>]
    /\ visited = [f \in Flushes |-> {}]
    /\ queued = [j \in Jobs |-> 0]

-----------------------------------------------------------------------------
(* Buffers come and go.                                                    *)

\* Ids are unique among the buffers registered now: a buffer that was removed may
\* be registered again, also while the store has jobs of it.
AddBuffer(b) ==
    /\ Len(places) < MaxPlaces
    /\ b \notin Registered
    /\ places' = Append(places, b)
    /\ live' = live \cup {Len(places) + 1}
    /\ UNCHANGED <<store, addVars, flushVars, stored, queued>>

RemoveBuffer(p) ==
    /\ p \in live
    /\ live' = live \ {p}
    /\ UNCHANGED <<store, places, addVars, flushVars, stored, queued>>

-----------------------------------------------------------------------------
(* JobQueue.add and JobBufferService.add.                                  *)

\* Variant of AskAfter: isBuffered is what the last collect() said.
AskAfterForgetting(j, p, kept) ==
    IF After(p) # {}
    THEN /\ asked' = [asked EXCEPT ![j] = NextOf(p)]
         /\ adding' = [adding EXCEPT ![j] = "asking"]
    ELSE /\ asked' = [asked EXCEPT ![j] = NoPlace]
         /\ adding' = [adding EXCEPT ![j] =
                         IF p \in kept THEN "buffered" ELSE "enqueueing"]

\* The loop over the buffers goes on after place p: collect() of the next one is
\* called, or the call is over and isBuffered is known.
AskAfter(j, p, kept) ==
    IF After(p) # {}
    THEN /\ asked' = [asked EXCEPT ![j] = NextOf(p)]
         /\ adding' = [adding EXCEPT ![j] = "asking"]
    ELSE /\ asked' = [asked EXCEPT ![j] = NoPlace]
         /\ adding' = [adding EXCEPT ![j] =
                         IF kept = {} THEN "enqueueing" ELSE "buffered"]

Add(j) ==
    /\ adding[j] = "new"
    /\ \A i \in Jobs : i < j => adding[i] # "new"
    /\ AskAfter(j, NoPlace, {})
    /\ UNCHANGED <<bufferVars, collectedBy, flushVars, stored, queued>>

\* collect() said no.
Declined(j) ==
    /\ adding[j] = "asking"
    /\ AskAfter(j, asked[j], collectedBy[j])
    /\ UNCHANGED <<bufferVars, collectedBy, flushVars, stored, queued>>

\* collect() said yes: bufstore.add, whether or not the buffer is still
\* registered.  In memory a buffer has a Set, so that a job it has is added to no
\* effect.  (A list on Redis then has the job twice, which is not told apart.)
Collected(j) ==
    /\ adding[j] = "asking"
    /\ stored' = [stored EXCEPT ![places[asked[j]]] = @ \cup {j}]
    /\ collectedBy' = [collectedBy EXCEPT ![j] = @ \cup {asked[j]}]
    /\ adding' = [adding EXCEPT ![j] = "storing"]
    /\ UNCHANGED <<bufferVars, asked, flushVars, queued>>

\* collect() threw: add() rejects, and what was stored stays stored.
CollectThrows(j) ==
    /\ adding[j] = "asking"
    /\ adding' = [adding EXCEPT ![j] = "rejected"]
    /\ asked' = [asked EXCEPT ![j] = NoPlace]
    /\ UNCHANGED <<bufferVars, collectedBy, flushVars, stored, queued>>

\* On Redis the push may be refused: add() rejects.
StoreThrows(j) ==
    /\ store = "redis"
    /\ adding[j] = "asking"
    /\ adding' = [adding EXCEPT ![j] = "rejected"]
    /\ asked' = [asked EXCEPT ![j] = NoPlace]
    /\ UNCHANGED <<bufferVars, collectedBy, flushVars, stored, queued>>

StoreAnswers(j) ==
    /\ adding[j] = "storing"
    /\ AskAfter(j, asked[j], collectedBy[j])
    /\ UNCHANGED <<bufferVars, collectedBy, flushVars, stored, queued>>

\* adapter.add(job) of a job that nobody buffered.
Enqueue(j) ==
    /\ adding[j] = "enqueueing"
    /\ adding' = [adding EXCEPT ![j] = "queued"]
    /\ queued' = [queued EXCEPT ![j] = @ + 1]
    /\ UNCHANGED <<bufferVars, asked, collectedBy, flushVars, stored>>

\* adapter.add threw: the error is logged and swallowed.
EnqueueThrows(j) ==
    /\ AdapterFails
    /\ adding[j] = "enqueueing"
    /\ adding' = [adding EXCEPT ![j] = "swallowed"]
    /\ UNCHANGED <<bufferVars, asked, collectedBy, flushVars, stored, queued>>

-----------------------------------------------------------------------------
(* bufstore.flush(ids): the argument is the list of ids, empty when flush()*)
(* is called without one.                                                  *)

Take(f, ids) ==
    taken' = [taken EXCEPT ![f] =
                [b \in Buffers |-> IF b \in ids THEN stored[b] ELSE @[b]]]

Clear(ids) ==
    stored' = [b \in Buffers |-> IF b \in ids THEN {} ELSE stored[b]]

\* Variant of FlushMemory: the read jobs stay in the store.
FlushMemoryKeeping(f, ids) ==
    /\ store = "memory"
    /\ flushing[f] = "idle"
    /\ Take(f, ids)
    /\ wanted' = [wanted EXCEPT ![f] = ids]
    /\ flushing' = [flushing EXCEPT ![f] = "visiting"]
    /\ UNCHANGED <<bufferVars, addVars, todo, key, at, batch, visited, stored, queued>>

\* Variant of FlushMemory: the whole Map is cleared.
FlushMemoryClearing(f, ids) ==
    /\ store = "memory"
    /\ flushing[f] = "idle"
    /\ Take(f, ids)
    /\ Clear(Buffers)
    /\ wanted' = [wanted EXCEPT ![f] = ids]
    /\ flushing' = [flushing EXCEPT ![f] = "visiting"]
    /\ UNCHANGED <<bufferVars, addVars, todo, key, at, batch, visited, queued>>

\* In memory: read and cleared in one step.  The empty list is a list, so it
\* means no buffer at all.
FlushMemory(f, ids) ==
    /\ store = "memory"
    /\ flushing[f] = "idle"
    /\ Take(f, ids)
    /\ Clear(ids)
    /\ wanted' = [wanted EXCEPT ![f] = ids]
    /\ flushing' = [flushing EXCEPT ![f] = "visiting"]
    /\ UNCHANGED <<bufferVars, addVars, todo, key, at, batch, visited, queued>>

\* Redis: the empty list means every key that SCAN finds.
FlushRedis(f, ids) ==
    /\ store = "redis"
    /\ flushing[f] = "idle"
    /\ Cardinality({g \in Flushes : flushing[g] # "idle"}) < RedisFlushes
    /\ wanted' = [wanted EXCEPT ![f] = ids]
    /\ todo' = [todo EXCEPT ![f] = ids]
    /\ flushing' = [flushing EXCEPT
                      ![f] = IF ids = {} THEN "scanning" ELSE "reading"]
    /\ UNCHANGED <<bufferVars, addVars, key, at, taken, batch, visited, stored,
                   queued>>

Scan(f) ==
    LET keys == {b \in Buffers : stored[b] # {}}
    IN  /\ flushing[f] = "scanning"
        /\ todo' = [todo EXCEPT ![f] = keys]
        /\ flushing' = [flushing EXCEPT
                          ![f] = IF keys = {} THEN "visiting" ELSE "reading"]
        /\ UNCHANGED <<bufferVars, addVars, wanted, key, at, taken, batch, visited,
                       stored, queued>>

\* LRANGE key 0 -1
ReadList(f) ==
    /\ flushing[f] = "reading"
    /\ \E b \in todo[f] :
          /\ key' = [key EXCEPT ![f] = {b}]
          /\ Take(f, {b})
    /\ flushing' = [flushing EXCEPT ![f] = "deleting"]
    /\ UNCHANGED <<bufferVars, addVars, wanted, todo, at, batch, visited, stored,
                   queued>>

\* DEL key
DeleteList(f) ==
    LET left == todo[f] \ key[f]
    IN  /\ flushing[f] = "deleting"
        /\ Clear(key[f])
        /\ todo' = [todo EXCEPT ![f] = left]
        /\ key' = [key EXCEPT ![f] = {}]
        /\ flushing' = [flushing EXCEPT
                          ![f] = IF left = {} THEN "visiting" ELSE "reading"]
        /\ UNCHANGED <<bufferVars, addVars, wanted, at, taken, batch, visited, queued>>

\* One of the strings cannot be parsed: flush() rejects, and the key is gone.
ParseThrows(f) ==
    /\ flushing[f] = "deleting"
    /\ Clear(key[f])
    /\ todo' = [todo EXCEPT ![f] = {}]
    /\ key' = [key EXCEPT ![f] = {}]
    /\ flushing' = [flushing EXCEPT ![f] = "rejected"]
    /\ UNCHANGED <<bufferVars, addVars, wanted, at, taken, batch, visited, queued>>

-----------------------------------------------------------------------------
(* The rest of JobBufferService.flush.                                     *)

\* The loop comes to place p, or to the end of the Set if there is none left.
Visits(f, next) ==
    /\ flushing[f] = "visiting"
    /\ \/ /\ next = {}
          /\ flushing' = [flushing EXCEPT ![f] = "done"]
          /\ at' = [at EXCEPT ![f] = NoPlace]
          /\ UNCHANGED visited
       \/ /\ next # {}
          /\ flushing' = [flushing EXCEPT ![f] = "reducing"]
          /\ at' = [at EXCEPT ![f] = Min(next)]
          /\ visited' = [visited EXCEPT ![f] = @ \cup {Min(next)}]
    /\ UNCHANGED <<bufferVars, addVars, wanted, todo, key, taken, batch, stored,
                   queued>>

\* Variant of Visit: no test of jobsForBuffer?.length.
VisitEmpty(f) == Visits(f, After(at[f]))

\* The loop goes to the next registered buffer that has jobs, or ends.  A buffer
\* that was removed and registered again meanwhile is visited again.
Visit(f) == Visits(f, {p \in After(at[f]) : taken[f][places[p]] # {}})

\* The jobs by createdAt, one after the other.
SortBy(js) ==
    [n \in 1..Cardinality(js) |->
        {j \in js : Cardinality({i \in js : i < j}) = n - 1}]

\* reduce() returns the sorted jobs, or throws, which has the same effect, or
\* returns one job that stands for all of them.
Reduce(f) ==
    LET js == taken[f][places[at[f]]]
    IN  /\ flushing[f] = "reducing"
        /\ \E jobsToAdd \in {SortBy(js), <<js>>} :
              batch' = [batch EXCEPT ![f] = jobsToAdd]
        /\ flushing' = [flushing EXCEPT ![f] = "adding"]
        /\ UNCHANGED <<bufferVars, addVars, wanted, todo, key, at, taken, visited,
                       stored, queued>>

\* Variant of AddReduced: only the first job is added.
AddFirstReduced(f) ==
    LET work == Head(batch[f])
    IN  /\ flushing[f] = "adding"
        /\ queued' = [j \in Jobs |-> IF j \in work THEN queued[j] + 1
                                     ELSE queued[j]]
        /\ batch' = [batch EXCEPT ![f] = <<>>]
        /\ flushing' = [flushing EXCEPT ![f] = "visiting"]
        /\ UNCHANGED <<bufferVars, addVars, wanted, todo, key, at, taken, visited,
                       stored>>

\* adapter.add of the next of jobsToAdd.
AddReduced(f) ==
    LET work == Head(batch[f])
    IN  /\ flushing[f] = "adding"
        /\ queued' = [j \in Jobs |-> IF j \in work THEN queued[j] + 1
                                     ELSE queued[j]]
        /\ batch' = [batch EXCEPT ![f] = Tail(@)]
        /\ flushing' = [flushing EXCEPT
                          ![f] = IF Len(batch[f]) = 1 THEN "visiting" ELSE @]
        /\ UNCHANGED <<bufferVars, addVars, wanted, todo, key, at, taken, visited,
                       stored>>

\* adapter.add threw: flush() rejects, with the jobs it took.
AddReducedThrows(f) ==
    /\ AdapterFails
    /\ flushing[f] = "adding"
    /\ flushing' = [flushing EXCEPT ![f] = "rejected"]
    /\ at' = [at EXCEPT ![f] = NoPlace]
    /\ batch' = [batch EXCEPT ![f] = <<>>]
    /\ UNCHANGED <<bufferVars, addVars, wanted, todo, key, taken, visited, stored,
                   queued>>

-----------------------------------------------------------------------------
BufferSteps ==
    \/ \E b \in Buffers : AddBuffer(b)
    \/ \E p \in live : RemoveBuffer(p)

AddSteps(j) ==
    \/ Add(j)
    \/ Declined(j)
    \/ Collected(j)
    \/ CollectThrows(j)
    \/ StoreThrows(j)
    \/ StoreAnswers(j)
    \/ Enqueue(j)
    \/ EnqueueThrows(j)

FlushSteps(f) ==
    \/ \E ids \in SUBSET Buffers :
          FlushMemory(f, ids) \/ FlushRedis(f, ids)
    \/ Scan(f)
    \/ ReadList(f)
    \/ DeleteList(f)
    \/ ParseThrows(f)
    \/ Visit(f)
    \/ Reduce(f)
    \/ AddReduced(f)
    \/ AddReducedThrows(f)

Next ==
    \/ BufferSteps
    \/ \E j \in Jobs : AddSteps(j)
    \/ \E f \in Flushes : FlushSteps(f)

Spec == Init /\ [][Next]_vars

-----------------------------------------------------------------------------
(* Correctness.                                                            *)

TypeOK ==
    /\ store \in Stores
    /\ places \in Seq(Buffers) /\ Len(places) <= MaxPlaces
    /\ live \subseteq 1..Len(places)
    /\ adding \in [Jobs -> {"new", "asking", "storing", "enqueueing", "buffered",
                            "queued", "swallowed", "rejected"}]
    /\ asked \in [Jobs -> 0..Len(places)]
    /\ collectedBy \in [Jobs -> SUBSET (1..Len(places))]
    /\ stored \in [Buffers -> SUBSET Jobs]
    /\ flushing \in [Flushes -> {"idle", "scanning", "reading", "deleting",
                                 "visiting", "reducing", "adding", "done",
                                 "rejected"}]
    /\ wanted \in [Flushes -> SUBSET Buffers]
    /\ todo \in [Flushes -> SUBSET Buffers]
    /\ key \in [Flushes -> SUBSET Buffers]
    /\ at \in [Flushes -> 0..Len(places)]
    /\ taken \in [Flushes -> [Buffers -> SUBSET Jobs]]
    /\ batch \in [Flushes -> Seq((SUBSET Jobs) \ {{}})]
    /\ visited \in [Flushes -> SUBSET (1..Len(places))]
    /\ queued \in [Jobs -> Nat]

\* job-buf-store.ts:38 "Clears all jobs from the bufstore medium ... and returns
\* those jobs": what a buffer collected is in the store or in the result of a
\* flush, however add() and flush() interleave.  Redis does not keep this.
CollectedIsKept ==
    \A j \in Jobs : \A p \in collectedBy[j] :
        \/ j \in stored[places[p]]
        \/ \E f \in Flushes : j \in taken[f][places[p]]

\* In memory, CollectedIsKept without the reservation for Redis.
MemoryKeeps == store = "memory" => CollectedIsKept

\* Where a job is kept for a buffer: the results of these flushes, and one place
\* more if it is in the store.
TakenBy(b, j) == {f \in Flushes : j \in taken[f][b]}
InStore(b, j) == IF j \in stored[b] THEN 1 ELSE 0

\* How often add() has collected it: once per place of the buffer in the Set.
Collections(b, j) == {p \in collectedBy[j] : places[p] = b}

\* In memory a job is not in more places than it was collected: no two flushes get
\* it, and none gets it that is still in the store, unless add() collected it again
\* for a buffer that was removed and registered anew while collect() was waited for.
MemoryTakesOnce ==
    store = "memory" =>
        \A b \in Buffers, j \in Jobs :
            Cardinality(TakenBy(b, j)) + InStore(b, j) <= Cardinality(Collections(b, j))

\* A flush that resolves has queued all it took of the buffers that are registered
\* now, also of those that were removed and registered again meanwhile.
FlushDelivers ==
    [][\A f \in Flushes : flushing[f] # "done" /\ flushing'[f] = "done" =>
          \A p \in live : \A j \in taken[f][places[p]] : queued[j] > 0]_vars

\* In memory the work of a job is queued once for each time that a flush which took
\* it came to the buffer, or by its own add() if no buffer collected it: never both
\* ways, and no more often than that.
QueuedOncePerVisit ==
    store = "memory" =>
        \A j \in Jobs :
            queued[j] <= IF collectedBy[j] = {} THEN 1
                         ELSE Cardinality({v \in Flushes \X (1..Len(places)) :
                                             /\ v[2] \in visited[v[1]]
                                             /\ j \in taken[v[1]][places[v[2]]]})

\* The in-memory store as a JobBufStore that is called with ids.  (It takes the
\* empty list for no buffer, where BufStore, as Redis, takes it for all of them.)
BufStoreNamed ==
    INSTANCE BufStore WITH
        held <- IF store = "memory" THEN stored ELSE NoJobs,
        given <- IF store = "memory" THEN taken ELSE NothingTaken,
        over <- {f \in Flushes : /\ store = "memory" /\ flushing[f] # "idle"
                                /\ wanted[f] # {}},
        asked <- IF store = "memory" THEN wanted ELSE [f \in Flushes |-> {}]

\* When buffers are named, the in-memory store is a JobBufStore: no add() and no
\* step of another flush comes between what a flush reads and what it clears,
\* nothing that a flush has returned changes later, and a call that names none
\* changes nothing.
NamedImplementsBufStore == BufStoreNamed!Spec

=============================================================================
