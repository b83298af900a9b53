------------------------ MODULE BullMQAdapter_proofs ------------------------
(***************************************************************************)
(* Proofs about BullMQAdapter, for any number of jobs, calls, queues and   *)
(* starts.                                                                 *)
(***************************************************************************)
EXTENDS BullMQAdapter, TLAPS

-----------------------------------------------------------------------------
(* The inductive invariant.                                                *)

\* The one Worker: it belongs to the start() under way, is open from the time a
\* queue runs until the service stops, and only a Worker without a processor can
\* be open besides.
OneWorker ==
    /\ phase # "off" => starts \in Workers
    /\ phase = "off" => worker = NoWorker
    /\ ~IsStarted => running = {}
    /\ running # {} => worker # NoWorker
    /\ IsStarted /\ worker # NoWorker => worker \in open
    /\ open \ idle \subseteq {worker}
    /\ hasProcessor \/ phase \in {"resuming", "starting", "on"} => made
    /\ ~hasProcessor => open \subseteq idle
    /\ phase \in {"off", "destroying"} => open \subseteq idle

\* Only an active job is held, and a job that is not over has an attempt left.
Tried ==
    \A j \in Jobs :
        /\ held[j] # NoWorker => place[j] = "active"
        /\ place[j] \notin Settled \cup {"gone"} => tries[j] <= Retries

\* The place of a list among the questions of getState().
Position == [wait |-> 1, active |-> 2, delayed |-> 3, failed |-> 4, completed |-> 5]

\* A call that has no answer yet has not asked for a list behind the one its job
\* is in, unless the job went back, or was where getState() does not look.
NotMissed(call) ==
    call.job \in Jobs /\ call.answer = "none" =>
        /\ place[call.job] \in call.seen
        /\ \/ call.back
           \/ {"gone", "prioritized"} \cap call.seen # {}
           \/ call.at <= Position[place[call.job]]

Found ==
    \A f \in Finds :
        /\ finds[f].at # 0 => finds[f].job \in Jobs
        /\ NotMissed(finds[f])

\* What a call of cancelJob removed stays removed.
Removed ==
    \A c \in Cancels :
        /\ cancels[c].step # "none" => cancels[c].job \in Jobs
        /\ cancels[c].step \in {"getState", "cancelled"} =>
              place[cancels[c].job] = "gone"

IInv == TypeOK /\ OneWorker /\ Tried /\ Found /\ Removed /\ UnknownStateIsRemoved

-----------------------------------------------------------------------------
(* A job that moves, and the calls that read it.                           *)

Places == {"new", "wait", "prioritized", "active", "delayed", "failed",
           "completed", "gone"}

LEMMA MoveTypes ==
    ASSUME TypeOK, NEW j \in Jobs, NEW s \in Places \ {"new"}, Move(j, s)
    PROVE  /\ place' \in [Jobs -> Places]
           /\ finds' \in [Finds -> FindRecord]
           /\ place' = [place EXCEPT ![j] = s]
<1>1. place' \in [Jobs -> Places] /\ place' = [place EXCEPT ![j] = s]
    BY DEF TypeOK, Move, Places
<1>2. ASSUME NEW f \in Finds
      PROVE  finds'[f] \in FindRecord
    <2>1. finds[f] \in FindRecord
        BY DEF TypeOK
    <2>2. finds'[f] = IF finds[f].job = j /\ finds[f].answer = "none"
                      THEN [finds[f] EXCEPT !.seen = @ \cup {s},
                                            !.back = @ \/ Rank[s] < Rank[place[j]]]
                      ELSE finds[f]
        BY DEF Move, Observed
    <2>3. (finds[f].back \/ Rank[s] < Rank[place[j]]) \in BOOLEAN
        BY <2>1 DEF FindRecord
    <2>4. ASSUME NEW call \in FindRecord, NEW b \in BOOLEAN
          PROVE  [call EXCEPT !.seen = @ \cup {s}, !.back = b] \in FindRecord
        BY DEF FindRecord, Places
    <2> QED
        BY <2>1, <2>2, <2>3, <2>4
<1> QED
    BY <1>1, <1>2 DEF Move, Observed

\* A step of a job leaves no call behind: if it does not go back, it goes to a
\* list that is asked for later.
LEMMA MoveKeepsFound ==
    ASSUME TypeOK, Found, NEW j \in Jobs, NEW s \in Places \ {"new"}, Move(j, s),
           place[j] = "completed" => s # "failed"
    PROVE  Found'
<1>1. /\ place' = [place EXCEPT ![j] = s]
      /\ place \in [Jobs -> Places]
      /\ finds' \in [Finds -> FindRecord]
    BY MoveTypes DEF TypeOK, Places
<1>2. ASSUME NEW f \in Finds
      PROVE  /\ finds'[f].at # 0 => finds'[f].job \in Jobs
             /\ NotMissed(finds[f])'
    <2> DEFINE call == finds[f]
    <2>1. call \in FindRecord /\ NotMissed(call) /\ (call.at # 0 => call.job \in Jobs)
        BY DEF TypeOK, Found
    <2>2. CASE ~ (call.job = j /\ call.answer = "none")
        <3>1. finds'[f] = call
            BY <2>2 DEF Move, Observed
        <3>2. call.job \in Jobs /\ call.answer = "none" => place'[call.job] = place[call.job]
            BY <1>1, <2>2
        <3> QED
            BY <2>1, <3>1, <3>2 DEF NotMissed
    <2>3. CASE call.job = j /\ call.answer = "none"
        <3>1. finds'[f] = [call EXCEPT !.seen = @ \cup {s},
                                       !.back = @ \/ Rank[s] < Rank[place[j]]]
            BY <2>3 DEF Move, Observed
        <3>2. /\ finds'[f].job = j
              /\ finds'[f].at = call.at
              /\ finds'[f].seen = call.seen \cup {s}
              /\ finds'[f].back <=> call.back \/ Rank[s] < Rank[place[j]]
            BY <2>1, <2>3, <3>1 DEF FindRecord
        <3>3. place'[j] = s /\ place[j] \in Places
            BY <1>1
        <3>4. /\ place[j] \in call.seen
              /\ \/ call.back
                 \/ {"gone", "prioritized"} \cap call.seen # {}
                 \/ call.at <= Position[place[j]]
            BY <2>1, <2>3 DEF NotMissed
        <3>5. \/ call.back \/ Rank[s] < Rank[place[j]]
              \/ {"gone", "prioritized"} \cap (call.seen \cup {s}) # {}
              \/ call.at <= Position[s]
            <4>1. CASE call.back \/ {"gone", "prioritized"} \cap call.seen # {}
                BY <4>1
            <4>2. CASE s \in {"gone", "prioritized"}
                BY <4>2
            <4>3. CASE /\ call.at <= Position[place[j]]
                       /\ {"gone", "prioritized"} \cap call.seen = {}
                       /\ s \notin {"gone", "prioritized"}
                <5>1. place[j] \in {"wait", "active", "delayed", "failed", "completed"}
                    BY <2>1, <3>4, <4>3 DEF FindRecord
                <5>2. s \in {"wait", "active", "delayed", "failed", "completed"}
                    BY <4>3 DEF Places
                <5>3. call.at \in Nat
                    BY <2>1 DEF FindRecord
                <5>4. ~ (Rank[s] < Rank[place[j]]) => Position[place[j]] <= Position[s]
                    BY <5>1, <5>2 DEF Rank, Position
                <5>5. Position[s] \in Nat /\ Position[place[j]] \in Nat
                    BY <5>1, <5>2 DEF Position
                <5> QED
                    BY <4>3, <5>3, <5>4, <5>5
            <4> QED
                BY <3>4, <4>1, <4>2, <4>3
        <3> QED
            BY <2>1, <2>3, <3>2, <3>3, <3>4, <3>5 DEF NotMissed
    <2> QED
        BY <2>2, <2>3
<1> QED
    BY <1>2 DEF Found

-----------------------------------------------------------------------------
(* Steps of the service.                                                   *)

\* What TypeOK says of the service, the adapter and the Workers.
ServiceTypes ==
    /\ phase \in {"off", "checking", "pinging", "connecting", "resuming",
                  "starting", "on", "failed", "closing", "destroying"}
    /\ starts \in 0..MaxStarts
    /\ created \subseteq Names
    /\ running \subseteq created
    /\ processors \subseteq created
    /\ made \in BOOLEAN
    /\ connected \in BOOLEAN
    /\ hasProcessor \in BOOLEAN
    /\ stopped \in BOOLEAN
    /\ worker \in Workers \cup {NoWorker}
    /\ open \subseteq Workers
    /\ idle \subseteq Workers

\* The first queue that is started makes the Worker.
LEMMA AdapterStartTypes ==
    ASSUME ServiceTypes, OneWorker, IsStarted, NEW n \in Names, AdapterStart(n)
    PROVE  /\ processors' = processors \cup {n}
           /\ running' = running \cup {n}
           /\ worker' \in Workers
           /\ open' \subseteq Workers
           /\ idle' \subseteq Workers
           /\ worker' \in open'
           /\ open' \ idle' \subseteq {worker'}
           /\ ~hasProcessor => open' \subseteq idle'
<1>1. starts \in Workers
    BY DEF OneWorker, IsStarted
<1>2. CASE worker = NoWorker
    <2>1. open \ idle = {}
        BY <1>2 DEF OneWorker, ServiceTypes, Workers, NoWorker
    <2> QED
        BY <1>1, <1>2, <2>1 DEF AdapterStart, OneWorker, ServiceTypes
<1>3. CASE worker # NoWorker
    BY <1>3 DEF AdapterStart, OneWorker, ServiceTypes, workerVars
<1> QED
    BY <1>2, <1>3

LEMMA CloseKeeps ==
    ASSUME TypeOK, OneWorker, Close
    PROVE  /\ held' \in [Jobs -> Workers \cup {NoWorker}]
           /\ \A j \in Jobs : held'[j] \in {held[j], NoWorker}
           /\ open' \subseteq open
           /\ open' \subseteq idle
<1>1. CASE made
    BY <1>1 DEF Close, TypeOK, OneWorker
<1>2. CASE ~made
    BY <1>2 DEF Close, TypeOK, OneWorker
<1> QED
    BY <1>1, <1>2

\* What a step of the service keeps and what it does not touch.
ServiceKeeps ==
    /\ UNCHANGED <<place, options, tries, finds, cancels>>
    /\ held' \in [Jobs -> Workers \cup {NoWorker}]
    /\ \A j \in Jobs : held'[j] \in {held[j], NoWorker}
    /\ ServiceTypes'
    /\ OneWorker'

LEMMA ServiceStep ==
    ASSUME TypeOK, OneWorker, ServiceNext
    PROVE  ServiceKeeps
<1> USE DEF jobVars, options, serviceVars, adapterVars, workerVars
<1>0. /\ ServiceTypes
      /\ held \in [Jobs -> Workers \cup {NoWorker}]
    BY DEF TypeOK, ServiceTypes
<1>1. ASSUME NEW n \in Names, CreateQueue(n) PROVE ServiceKeeps
    <2>1. CASE IsStarted /\ ShouldStartQueue(n)
        <3>1. AdapterStart(n) /\ created' = created \cup {n}
            BY <1>1, <2>1 DEF CreateQueue
        <3>2. /\ processors' = processors \cup {n}
              /\ running' = running \cup {n}
              /\ worker' \in Workers
              /\ open' \subseteq Workers
              /\ idle' \subseteq Workers
              /\ worker' \in open'
              /\ open' \ idle' \subseteq {worker'}
              /\ ~hasProcessor => open' \subseteq idle'
            BY <1>0, <2>1, <3>1, AdapterStartTypes
        <3> QED
            BY <1>0, <1>1, <2>1, <3>1, <3>2
            DEF CreateQueue, ServiceKeeps, ServiceTypes, OneWorker, IsStarted,
                NoWorker, Workers
    <2>2. CASE ~ (IsStarted /\ ShouldStartQueue(n))
        BY <1>0, <1>1, <2>2
        DEF CreateQueue, ServiceKeeps, ServiceTypes, OneWorker, IsStarted
    <2> QED
        BY <2>1, <2>2
<1>2. ASSUME NEW n \in Names, StartNext(n) PROVE ServiceKeeps
    <2>1. IsStarted /\ AdapterStart(n) /\ n \in created
        BY <1>2 DEF StartNext, IsStarted, ToStart
    <2>2. /\ processors' = processors \cup {n}
          /\ running' = running \cup {n}
          /\ worker' \in Workers
          /\ open' \subseteq Workers
          /\ idle' \subseteq Workers
          /\ worker' \in open'
          /\ open' \ idle' \subseteq {worker'}
          /\ ~hasProcessor => open' \subseteq idle'
        BY <1>0, <2>1, AdapterStartTypes
    <2> QED
        BY <1>0, <1>2, <2>1, <2>2
        DEF StartNext, ServiceKeeps, ServiceTypes, OneWorker, IsStarted, NoWorker,
            Workers
<1>3. CASE Start
    BY <1>0, <1>3, MaxStartsAssumption
    DEF Start, ServiceKeeps, ServiceTypes, OneWorker, IsStarted, Workers
<1>4. CASE CheckConnects \/ CheckTimesOut \/ PingAnswers \/ CheckFails \/ ResumeThrows
    BY <1>0, <1>4
    DEF CheckConnects, CheckTimesOut, PingAnswers, CheckFails, ResumeThrows,
        InitGoesOn, ServiceKeeps, ServiceTypes, OneWorker, IsStarted
<1>5. CASE InitQueue
    BY <1>0, <1>5 DEF InitQueue, ServiceKeeps, ServiceTypes, OneWorker, IsStarted
<1>6. CASE InitProcessor
    BY <1>0, <1>6 DEF InitProcessor, ServiceKeeps, ServiceTypes, OneWorker, IsStarted
<1>7. CASE StartEnds
    BY <1>0, <1>7 DEF StartEnds, ServiceKeeps, ServiceTypes, OneWorker, IsStarted
<1>8. CASE Stop
    <2>1. CASE running # {} /\ ~stopped
        <3>1. /\ held' \in [Jobs -> Workers \cup {NoWorker}]
              /\ \A j \in Jobs : held'[j] \in {held[j], NoWorker}
              /\ open' \subseteq open
              /\ open' \subseteq idle
            BY <1>8, <2>1, CloseKeeps DEF Stop
        <3> QED
            BY <1>0, <1>8, <2>1, <3>1
            DEF Stop, ServiceKeeps, ServiceTypes, OneWorker, IsStarted
    <2>2. CASE ~ (running # {} /\ ~stopped)
        BY <1>0, <1>8, <2>2 DEF Stop, ServiceKeeps, ServiceTypes, OneWorker, IsStarted
    <2> QED
        BY <2>1, <2>2
<1>9. CASE Destroy
    <2>1. /\ held' \in [Jobs -> Workers \cup {NoWorker}]
          /\ \A j \in Jobs : held'[j] \in {held[j], NoWorker}
          /\ open' \subseteq open
          /\ open' \subseteq idle
        BY <1>9, CloseKeeps DEF Destroy
    <2> QED
        BY <1>0, <1>9, <2>1 DEF Destroy, ServiceKeeps, ServiceTypes, OneWorker, IsStarted
<1>10. CASE Quit
    BY <1>0, <1>10 DEF Quit, ServiceKeeps, ServiceTypes, OneWorker, IsStarted
<1> QED
    BY <1>1, <1>2, <1>3, <1>4, <1>5, <1>6, <1>7, <1>8, <1>9, <1>10 DEF ServiceNext

-----------------------------------------------------------------------------
(* Steps of the jobs.                                                      *)

LEMMA MoveKeepsAnswers ==
    ASSUME TypeOK, UnknownStateIsRemoved, NEW j \in Jobs, NEW s, Move(j, s)
    PROVE  UnknownStateIsRemoved'
<1>1. ASSUME NEW f \in Finds, finds'[f].answer \in {"gone", "throws"}
      PROVE  finds'[f] = finds[f]
    <2>1. CASE ~ (finds[f].job = j /\ finds[f].answer = "none")
        BY <2>1 DEF Move, Observed
    <2>2. CASE finds[f].job = j /\ finds[f].answer = "none"
        <3>1. finds'[f] = [finds[f] EXCEPT !.seen = @ \cup {s},
                                           !.back = @ \/ Rank[s] < Rank[place[j]]]
            BY <2>2 DEF Move, Observed
        <3>2. finds'[f].answer = "none"
            BY <2>2, <3>1 DEF TypeOK, FindRecord
        <3> QED
            BY <1>1, <3>2
    <2> QED
        BY <2>1, <2>2
<1> QED
    BY <1>1 DEF UnknownStateIsRemoved

\* What a step of a job keeps and what it does not touch.
JobKeeps ==
    /\ UNCHANGED <<options, serviceVars, adapterVars, workerVars, cancels>>
    /\ place' \in [Jobs -> Places]
    /\ tries' \in [Jobs -> 0..Attempts]
    /\ held' \in [Jobs -> Workers \cup {NoWorker}]
    /\ finds' \in [Finds -> FindRecord]
    /\ Tried'
    /\ Found'
    /\ UnknownStateIsRemoved'
    /\ \A k \in Jobs : place[k] = "gone" => place'[k] = "gone"

\* A move of job j to list s, with t attempts made and Worker w.
LEMMA MoveKeeps ==
    ASSUME TypeOK, Tried, Found, UnknownStateIsRemoved,
           NEW j \in Jobs, NEW s \in Places \ {"new"}, Move(j, s),
           NEW t \in 0..Attempts, tries' = [tries EXCEPT ![j] = t],
           NEW w \in Workers \cup {NoWorker}, held' = [held EXCEPT ![j] = w],
           UNCHANGED <<options, serviceVars, adapterVars, workerVars, cancels>>,
           place[j] # "gone",
           place[j] = "completed" => s # "failed",
           w # NoWorker => s = "active",
           s \notin Settled \cup {"gone"} => t <= Retries
    PROVE  JobKeeps
<1>1. /\ place' \in [Jobs -> Places]
      /\ finds' \in [Finds -> FindRecord]
      /\ place' = [place EXCEPT ![j] = s]
    BY MoveTypes
<1>2. Found'
    BY MoveKeepsFound
<1>3. UnknownStateIsRemoved'
    BY MoveKeepsAnswers
<1>4. /\ tries' \in [Jobs -> 0..Attempts]
      /\ held' \in [Jobs -> Workers \cup {NoWorker}]
    BY DEF TypeOK
<1>5. Tried'
    BY <1>1, <1>4 DEF Tried, TypeOK
<1>6. \A k \in Jobs : place[k] = "gone" => place'[k] = "gone"
    BY <1>1 DEF TypeOK
<1> QED
    BY <1>1, <1>2, <1>3, <1>4, <1>5, <1>6 DEF JobKeeps

LEMMA JobStep ==
    ASSUME TypeOK, Tried, Found, UnknownStateIsRemoved, NEW j \in Jobs, JobNext(j)
    PROVE  JobKeeps
<1> USE DEF jobVars
<1>0. /\ tries \in [Jobs -> 0..Attempts]
      /\ held \in [Jobs -> Workers \cup {NoWorker}]
      /\ place[j] \in Places
      /\ Retries \in Nat
      /\ tries[j] \in Nat
      /\ tries[j] \in 0..Attempts
      /\ tries = [tries EXCEPT ![j] = tries[j]]
      /\ held = [held EXCEPT ![j] = held[j]]
    BY RetriesAssumption DEF TypeOK, Places, Attempts
<1>1. /\ held[j] # NoWorker => place[j] = "active"
      /\ place[j] \notin Settled \cup {"gone"} => tries[j] <= Retries
    BY DEF Tried
<1>2. WaitingList(j) \in {"wait", "prioritized"}
    BY DEF WaitingList
<1>3. CASE Add(j)
    <2>1. place[j] = "new" /\ Move(j, WaitingList(j)) /\ tries' = tries /\ held' = held
        BY <1>3 DEF Add
    <2>2. UNCHANGED <<options, serviceVars, adapterVars, workerVars, cancels>>
        BY <1>3 DEF Add
    <2> QED
        BY <1>0, <1>1, <1>2, <2>1, <2>2, MoveKeeps DEF Places, Settled
<1>4. CASE Take(j)
    <2>1. PICK w \in open \ idle : held' = [held EXCEPT ![j] = w]
        BY <1>4 DEF Take
    <2>2. place[j] \in {"wait", "prioritized"} /\ Move(j, "active") /\ tries' = tries
        BY <1>4 DEF Take, Waiting
    <2>3. w \in Workers
        BY <2>1 DEF TypeOK
    <2>4. UNCHANGED <<options, serviceVars, adapterVars, workerVars, cancels>>
        BY <1>4 DEF Take
    <2> QED
        BY <1>0, <1>1, <2>1, <2>2, <2>3, <2>4, MoveKeeps DEF Places, Settled
<1>5. CASE Complete(j)
    <2>1. /\ place[j] = "active"
          /\ Move(j, "completed")
          /\ tries' = [tries EXCEPT ![j] = tries[j] + 1]
          /\ held' = [held EXCEPT ![j] = NoWorker]
        BY <1>0, <1>1, <1>5 DEF Complete
    <2>2. UNCHANGED <<options, serviceVars, adapterVars, workerVars, cancels>>
        BY <1>5 DEF Complete
    <2>3. tries[j] + 1 \in 0..Attempts
        BY <1>0, <1>1, <2>1 DEF Attempts, Settled
    <2> QED
        BY <1>0, <2>1, <2>2, <2>3, MoveKeeps DEF Places, Settled
<1>6. CASE Throw(j)
    <2> DEFINE s == IF tries[j] + 1 < Attempts THEN "delayed" ELSE "failed"
    <2>1. /\ place[j] = "active"
          /\ Move(j, s)
          /\ tries' = [tries EXCEPT ![j] = tries[j] + 1]
          /\ held' = [held EXCEPT ![j] = NoWorker]
        BY <1>0, <1>1, <1>6 DEF Throw, Fails
    <2>2. UNCHANGED <<options, serviceVars, adapterVars, workerVars, cancels>>
        BY <1>6 DEF Throw
    <2>3. tries[j] + 1 \in 0..Attempts
        BY <1>0, <1>1, <2>1 DEF Attempts, Settled
    <2>4. s \in {"delayed", "failed"} /\ (s = "delayed" => tries[j] + 1 <= Retries)
        BY <1>0 DEF Attempts
    <2> HIDE DEF s
    <2> QED
        BY <1>0, <2>1, <2>2, <2>3, <2>4, MoveKeeps DEF Places, Settled
<1>7. CASE Promote(j)
    <2>1. place[j] = "delayed" /\ Move(j, WaitingList(j)) /\ tries' = tries /\ held' = held
        BY <1>7 DEF Promote
    <2>2. UNCHANGED <<options, serviceVars, adapterVars, workerVars, cancels>>
        BY <1>7 DEF Promote
    <2> QED
        BY <1>0, <1>1, <1>2, <2>1, <2>2, MoveKeeps DEF Places, Settled
<1>8. CASE Stall(j)
    <2>1. PICK s \in {"wait", "failed"} : Move(j, s)
        BY <1>8 DEF Stall
    <2>2. place[j] = "active" /\ held[j] = NoWorker /\ tries' = tries /\ held' = held
        BY <1>8 DEF Stall
    <2>3. UNCHANGED <<options, serviceVars, adapterVars, workerVars, cancels>>
        BY <1>8 DEF Stall
    <2> QED
        BY <1>0, <1>1, <2>1, <2>2, <2>3, MoveKeeps DEF Places, Settled
<1>9. CASE RemoveSettledJob(j)
    <2>1. place[j] \in Settled /\ Move(j, "gone") /\ tries' = tries /\ held' = held
        BY <1>9 DEF RemoveSettledJob
    <2>2. held[j] = NoWorker
        BY <1>1, <2>1 DEF Settled
    <2>3. UNCHANGED <<options, serviceVars, adapterVars, workerVars, cancels>>
        BY <1>9 DEF RemoveSettledJob
    <2> QED
        BY <1>0, <2>1, <2>2, <2>3, MoveKeeps DEF Places, Settled
<1> QED
    BY <1>3, <1>4, <1>5, <1>6, <1>7, <1>8, <1>9 DEF JobNext

-----------------------------------------------------------------------------
(* Steps of the calls.                                                     *)

LEMMA FindStep ==
    ASSUME TypeOK, Found, UnknownStateIsRemoved, NEW f \in Finds, FindNext(f)
    PROVE  /\ UNCHANGED <<jobVars, serviceVars, adapterVars, workerVars, cancels>>
           /\ finds' \in [Finds -> FindRecord]
           /\ Found'
           /\ UnknownStateIsRemoved'
<1> DEFINE call == finds[f]
           Sound(c) == c.answer \in {"gone", "throws"} =>
                           {"gone", "prioritized"} \cap c.seen # {} \/ c.back
<1>0. /\ finds \in [Finds -> FindRecord]
      /\ place \in [Jobs -> Places]
      /\ call \in FindRecord
      /\ NotMissed(call)
      /\ call.at # 0 => call.job \in Jobs
    BY DEF TypeOK, Found, Places
\* It is enough that the one call that changes is as it should be.
<1>1. ASSUME NEW c \in FindRecord, finds' = [finds EXCEPT ![f] = c],
             UNCHANGED <<jobVars, serviceVars, adapterVars, workerVars, cancels>>,
             c.at # 0 => c.job \in Jobs, NotMissed(c), Sound(c)
      PROVE  /\ UNCHANGED <<jobVars, serviceVars, adapterVars, workerVars, cancels>>
             /\ finds' \in [Finds -> FindRecord]
             /\ Found'
             /\ UnknownStateIsRemoved'
    <2>1. place' = place
        BY <1>1 DEF jobVars
    <2>2. \A g \in Finds : finds'[g] = IF g = f THEN c ELSE finds[g]
        BY <1>0, <1>1
    <2>3. Found'
        BY <1>0, <1>1, <2>1, <2>2 DEF Found, NotMissed
    <2>4. UnknownStateIsRemoved'
        BY <1>1, <2>2 DEF UnknownStateIsRemoved
    <2> QED
        BY <1>0, <1>1, <2>3, <2>4
<1>2. ASSUME NEW j \in Jobs, FindBegin(f, j)
      PROVE  \E c \in FindRecord : /\ finds' = [finds EXCEPT ![f] = c]
                                   /\ c.at # 0 => c.job \in Jobs
                                   /\ NotMissed(c)
                                   /\ Sound(c)
    <2> DEFINE c == [job |-> j, finished |-> place[j] \in Settled, at |-> 1,
                     answer |-> "none", seen |-> {place[j]}, back |-> FALSE]
    <2>1. place[j] \in Places \ {"new", "gone"} /\ finds' = [finds EXCEPT ![f] = c]
        BY <1>0, <1>2 DEF FindBegin
    <2>2. c \in FindRecord
        BY <2>1 DEF FindRecord, Places
    <2>3. NotMissed(c)
        <3>1. CASE place[j] = "prioritized"
            BY <3>1 DEF NotMissed
        <3>2. CASE place[j] \in {"wait", "active", "delayed", "failed", "completed"}
            <4>1. 1 <= Position[place[j]]
                BY <3>2 DEF Position
            <4> QED
                BY <4>1 DEF NotMissed
        <3> QED
            BY <2>1, <3>1, <3>2 DEF Places
    <2> QED
        BY <2>1, <2>2, <2>3
<1>3. CASE Ask(f)
    <2>1. call.answer = "none" /\ call.at \in 1..5 /\ call.job \in Jobs
        BY <1>0, <1>3 DEF Ask, Questions
    <2>2. place[call.job] \in call.seen /\ place[call.job] \in Places
        BY <1>0, <2>1 DEF NotMissed
    <2>3. CASE place[call.job] = Questions[call.at]
        <3> DEFINE c == [call EXCEPT !.answer = Questions[call.at]]
        <3>1. Questions[call.at] \in {"wait", "active", "delayed", "failed", "completed"}
            BY <2>1 DEF Questions
        <3>2. c \in FindRecord /\ c.job = call.job
            BY <1>0, <3>1 DEF FindRecord
        <3>3. c.answer = Questions[call.at]
            BY <1>0 DEF FindRecord
        <3>4. NotMissed(c) /\ Sound(c)
            BY <3>1, <3>3 DEF NotMissed
        <3>5. finds' = [finds EXCEPT ![f] = c]
            BY <1>3, <2>3 DEF Ask
        <3> QED
            BY <1>1, <1>3, <2>1, <3>2, <3>4, <3>5 DEF Ask
    <2>4. CASE place[call.job] # Questions[call.at]
        <3> DEFINE c == [call EXCEPT !.at = @ + 1]
        <3>1. /\ c \in FindRecord
              /\ c.at = call.at + 1
              /\ c.job = call.job
              /\ c.seen = call.seen
              /\ c.back = call.back
              /\ c.answer = "none"
            BY <1>0, <2>1 DEF FindRecord
        <3>2. \/ call.back
              \/ {"gone", "prioritized"} \cap call.seen # {}
              \/ call.at + 1 <= Position[place[call.job]]
            <4>1. CASE place[call.job] \in {"gone", "prioritized"}
                BY <2>2, <4>1
            <4>2. CASE place[call.job] \in {"wait", "active", "delayed", "failed",
                                            "completed"}
                <5>1. Position[place[call.job]] \in Nat
                    BY <4>2 DEF Position
                <5>2. call.at # Position[place[call.job]]
                    BY <2>1, <2>4, <4>2 DEF Position, Questions
                <5> QED
                    BY <1>0, <2>1, <5>1, <5>2 DEF NotMissed
            <4>3. CASE place[call.job] = "new"
                BY <1>0, <2>2, <4>3 DEF FindRecord
            <4> QED
                BY <2>2, <4>1, <4>2, <4>3 DEF Places
        <3>3. NotMissed(c) /\ Sound(c)
            BY <2>2, <3>1, <3>2 DEF NotMissed
        <3>4. finds' = [finds EXCEPT ![f] = c]
            BY <1>3, <2>4 DEF Ask
        <3> QED
            BY <1>1, <1>3, <2>1, <3>1, <3>3, <3>4 DEF Ask
    <2> QED
        BY <2>3, <2>4
<1>4. CASE Conclude(f)
    <2> DEFINE c == [call EXCEPT !.answer = IF call.finished THEN "throws" ELSE "gone"]
    <2>1. /\ c \in FindRecord
          /\ c.answer # "none"
          /\ c.at = call.at
          /\ c.job = call.job
          /\ c.seen = call.seen
          /\ c.back = call.back
        BY <1>0 DEF FindRecord
    <2>2. call.answer = "none" /\ call.at = 6 /\ finds' = [finds EXCEPT ![f] = c]
        BY <1>4 DEF Conclude
    <2>3. call.back \/ {"gone", "prioritized"} \cap call.seen # {}
        <3>1. CASE place[call.job] \in {"wait", "active", "delayed", "failed", "completed"}
            <4>1. Position[place[call.job]] \in 1..5
                BY <3>1 DEF Position
            <4> QED
                BY <1>0, <2>2, <4>1 DEF NotMissed
        <3>2. CASE place[call.job] \in {"new", "gone", "prioritized"}
            BY <1>0, <2>2, <3>2 DEF NotMissed, FindRecord
        <3> QED
            BY <1>0, <2>2, <3>1, <3>2 DEF Places
    <2>4. NotMissed(c) /\ Sound(c)
        BY <2>1, <2>3 DEF NotMissed
    <2> QED
        BY <1>0, <1>1, <1>4, <2>1, <2>2, <2>4 DEF Conclude
<1>5. CASE Disconnect(f)
    <2> DEFINE c == [call EXCEPT !.answer = "closed"]
    <2>1. c \in FindRecord /\ c.answer = "closed" /\ c.at = call.at /\ c.job = call.job
        BY <1>0 DEF FindRecord
    <2>2. NotMissed(c) /\ Sound(c)
        BY <2>1 DEF NotMissed
    <2>3. finds' = [finds EXCEPT ![f] = c]
        BY <1>5 DEF Disconnect
    <2> QED
        BY <1>0, <1>1, <1>5, <2>1, <2>2, <2>3 DEF Disconnect
<1>6. ASSUME NEW j \in Jobs, FindBegin(f, j)
      PROVE  UNCHANGED <<jobVars, serviceVars, adapterVars, workerVars, cancels>>
    BY <1>6 DEF FindBegin
<1> HIDE DEF Sound
<1> QED
    BY <1>1, <1>2, <1>3, <1>4, <1>5, <1>6 DEF FindNext

\* A call of cancelJob moves its job, if at all, out of every list, and only a job
\* that no Worker holds.
LEMMA CancelStep ==
    ASSUME TypeOK, Tried, Found, Removed, UnknownStateIsRemoved,
           NEW c \in Cancels, CancelNext(c)
    PROVE  /\ UNCHANGED <<options, tries, held, serviceVars, adapterVars, workerVars>>
           /\ place' \in [Jobs -> Places]
           /\ finds' \in [Finds -> FindRecord]
           /\ cancels' \in [Cancels -> CancelRecord]
           /\ Tried'
           /\ Found'
           /\ Removed'
           /\ UnknownStateIsRemoved'
<1> DEFINE call == cancels[c]
<1> USE DEF jobVars
<1>0. /\ cancels \in [Cancels -> CancelRecord]
      /\ call \in CancelRecord
      /\ place \in [Jobs -> Places]
      /\ finds \in [Finds -> FindRecord]
      /\ call.step # "none" => call.job \in Jobs
    BY DEF TypeOK, Removed, Places
\* Steps that only change the call.
<1>1. ASSUME NEW d \in CancelRecord, cancels' = [cancels EXCEPT ![c] = d],
             UNCHANGED <<jobVars, serviceVars, adapterVars, workerVars, finds>>,
             d.step # "none" => d.job \in Jobs,
             d.step \in {"getState", "cancelled"} => place[d.job] = "gone"
      PROVE  /\ UNCHANGED <<options, tries, held, serviceVars, adapterVars, workerVars>>
             /\ place' \in [Jobs -> Places]
             /\ finds' \in [Finds -> FindRecord]
             /\ cancels' \in [Cancels -> CancelRecord]
             /\ Tried'
             /\ Found'
             /\ Removed'
             /\ UnknownStateIsRemoved'
    <2>1. \A k \in Cancels : cancels'[k] = IF k = c THEN d ELSE cancels[k]
        BY <1>0, <1>1
    <2>2. Removed'
        BY <1>1, <2>1 DEF Removed
    <2>3. Tried' /\ Found' /\ UnknownStateIsRemoved'
        BY <1>1 DEF Tried, Found, NotMissed, UnknownStateIsRemoved
    <2> QED
        BY <1>0, <1>1, <2>2, <2>3
<1>2. ASSUME NEW j \in Jobs, CancelBegin(c, j)
      PROVE  \E d \in CancelRecord : /\ cancels' = [cancels EXCEPT ![c] = d]
                                     /\ d.job \in Jobs
                                     /\ d.step = "isActive"
    <2> DEFINE d == [job |-> j, finished |-> place[j] \in Settled, step |-> "isActive"]
    <2>1. d \in CancelRecord
        BY DEF CancelRecord
    <2> QED
        BY <1>2, <2>1 DEF CancelBegin
<1>3. ASSUME NEW s \in {"isActive", "remove", "getState", "cancelled", "rejected"},
             call.step # "none"
      PROVE  /\ [call EXCEPT !.step = s] \in CancelRecord
             /\ [call EXCEPT !.step = s].step = s
             /\ [call EXCEPT !.step = s].job = call.job
             /\ call.job \in Jobs
    BY <1>0, <1>3 DEF CancelRecord
<1>4. CASE CancelAsk(c)
    <2> DEFINE s == IF place[call.job] = "active" THEN "rejected" ELSE "remove"
    <2>1. /\ cancels' = [cancels EXCEPT ![c] = [call EXCEPT !.step = s]]
          /\ call.step = "isActive"
          /\ UNCHANGED <<jobVars, serviceVars, adapterVars, workerVars, finds>>
        BY <1>4 DEF CancelAsk
    <2>2. s \in {"remove", "rejected"}
        OBVIOUS
    <2> HIDE DEF s
    <2> QED
        BY <1>1, <1>3, <2>1, <2>2
<1>5. CASE CancelRemove(c)
    <2>1. call.step = "remove" /\ call.job \in Jobs
        BY <1>0, <1>5 DEF CancelRemove
    <2>2. CASE /\ cancels' = [cancels EXCEPT ![c].step = "rejected"]
               /\ UNCHANGED <<place, finds>>
        <3>1. /\ cancels' = [cancels EXCEPT ![c] = [call EXCEPT !.step = "rejected"]]
              /\ UNCHANGED <<jobVars, serviceVars, adapterVars, workerVars, finds>>
            BY <1>5, <2>2 DEF CancelRemove
        <3> QED
            BY <1>1, <1>3, <2>1, <3>1
    <2>3. CASE /\ held[call.job] = NoWorker
               /\ cancels' = [cancels EXCEPT ![c].step = "getState"]
               /\ Move(call.job, "gone")
        <3>1. UNCHANGED <<options, tries, held, serviceVars, adapterVars, workerVars>>
            BY <1>5 DEF CancelRemove
        <3>2. /\ place' \in [Jobs -> Places]
              /\ finds' \in [Finds -> FindRecord]
              /\ place' = [place EXCEPT ![call.job] = "gone"]
            BY <2>1, <2>3, MoveTypes DEF Places
        <3>3. Found'
            BY <2>1, <2>3, MoveKeepsFound DEF Places
        <3>4. UnknownStateIsRemoved'
            BY <2>1, <2>3, MoveKeepsAnswers
        <3>5. Tried'
            BY <1>0, <2>3, <3>1, <3>2 DEF Tried
        <3>6. \A k \in Cancels : cancels'[k] = IF k = c
                                              THEN [call EXCEPT !.step = "getState"]
                                              ELSE cancels[k]
            BY <1>0, <2>3
        <3>7. cancels' \in [Cancels -> CancelRecord]
            BY <1>0, <1>3, <2>1, <2>3
        <3>8. Removed'
            <4>1. ASSUME NEW k \in Cancels
                  PROVE  /\ cancels'[k].step # "none" => cancels'[k].job \in Jobs
                         /\ cancels'[k].step \in {"getState", "cancelled"} =>
                               place'[cancels'[k].job] = "gone"
                <5>1. CASE k = c
                    BY <1>0, <1>3, <2>1, <3>2, <3>6, <5>1
                <5>2. CASE k # c
                    BY <1>0, <3>2, <3>6, <5>2 DEF Removed
                <5> QED
                    BY <5>1, <5>2
            <4> QED
                BY <4>1 DEF Removed
        <3> QED
            BY <3>1, <3>2, <3>3, <3>4, <3>5, <3>7, <3>8
    <2> QED
        BY <1>5, <2>2, <2>3 DEF CancelRemove
<1>6. CASE CancelReturn(c)
    <2> DEFINE s == IF call.finished THEN "rejected" ELSE "cancelled"
    <2>1. /\ cancels' = [cancels EXCEPT ![c] = [call EXCEPT !.step = s]]
          /\ call.step = "getState"
          /\ UNCHANGED <<jobVars, serviceVars, adapterVars, workerVars, finds>>
        BY <1>6 DEF CancelReturn
    <2>2. s \in {"cancelled", "rejected"} /\ place[call.job] = "gone"
        BY <2>1 DEF Removed
    <2> HIDE DEF s
    <2> QED
        BY <1>1, <1>3, <2>1, <2>2
<1>7. CASE CancelDisconnect(c)
    <2>1. /\ cancels' = [cancels EXCEPT ![c] = [call EXCEPT !.step = "rejected"]]
          /\ call.step # "none"
          /\ UNCHANGED <<jobVars, serviceVars, adapterVars, workerVars, finds>>
        BY <1>7 DEF CancelDisconnect
    <2> QED
        BY <1>1, <1>3, <2>1
<1>8. ASSUME NEW j \in Jobs, CancelBegin(c, j)
      PROVE  UNCHANGED <<jobVars, serviceVars, adapterVars, workerVars, finds>>
    BY <1>8 DEF CancelBegin
<1> QED
    BY <1>1, <1>2, <1>4, <1>5, <1>6, <1>7, <1>8 DEF CancelNext

-----------------------------------------------------------------------------
(* The theorems.                                                           *)

LEMMA InitIInv == ASSUME Init PROVE IInv
<1> USE DEF Init
<1>1. /\ NoFind \in FindRecord
      /\ NoCancel \in CancelRecord
    BY DEF NoFind, FindRecord, NoCancel, CancelRecord
<1>2. /\ place \in [Jobs -> {"new", "wait", "prioritized"}]
      /\ tries \in [Jobs -> 0..Attempts]
      /\ held \in [Jobs -> Workers \cup {NoWorker}]
    BY RetriesAssumption DEF WaitingList, Attempts
<1>3. TypeOK
    <2>1. /\ place \in [Jobs -> Places]
          /\ nameOf \in [Jobs -> Names]
          /\ urgent \subseteq Jobs
        BY <1>2 DEF Places
    <2>2. /\ finds \in [Finds -> FindRecord]
          /\ cancels \in [Cancels -> CancelRecord]
        BY <1>1
    <2>3. ServiceTypes
        <3>1. /\ made \in BOOLEAN
              /\ connected \in BOOLEAN
              /\ hasProcessor \in BOOLEAN
              /\ stopped \in BOOLEAN
            OBVIOUS
        <3>2. starts \in 0..MaxStarts
            BY MaxStartsAssumption
        <3> QED
            BY <3>1, <3>2, Zenon DEF ServiceTypes
    <2> QED
        BY <1>2, <2>1, <2>2, <2>3 DEF TypeOK, ServiceTypes, Places
<1>4. OneWorker
    BY DEF OneWorker, IsStarted
<1>5. Tried
    BY <1>2, RetriesAssumption DEF Tried
<1>6. Found /\ UnknownStateIsRemoved
    <2>1. \A f \in Finds : finds[f] = NoFind
        OBVIOUS
    <2>2. NoFind.at = 0 /\ NoFind.answer = "none" /\ NoFind.job \notin Jobs
        BY JobCountAssumption DEF NoFind, NoJob, Jobs
    <2> QED
        BY <2>1, <2>2 DEF Found, NotMissed, UnknownStateIsRemoved
<1>7. Removed
    BY DEF Removed, NoCancel
<1> QED
    BY <1>3, <1>4, <1>5, <1>6, <1>7 DEF IInv

LEMMA StepIInv == ASSUME IInv, [Next]_vars PROVE IInv'
<1> USE DEF jobVars, serviceVars, adapterVars, workerVars
<1>0. TypeOK /\ OneWorker /\ Tried /\ Found /\ Removed /\ UnknownStateIsRemoved
    BY DEF IInv
<1>1. CASE ServiceNext
    <2>1. ServiceKeeps
        BY <1>0, <1>1, ServiceStep
    <2>2. TypeOK'
        BY <1>0, <2>1 DEF TypeOK, ServiceKeeps, ServiceTypes, options
    <2>3. Tried'
        BY <1>0, <2>1 DEF Tried, ServiceKeeps
    <2>4. Found' /\ Removed' /\ UnknownStateIsRemoved'
        BY <1>0, <2>1
        DEF Found, NotMissed, Removed, UnknownStateIsRemoved, ServiceKeeps
    <2> QED
        BY <2>1, <2>2, <2>3, <2>4 DEF IInv, ServiceKeeps
<1>2. ASSUME NEW j \in Jobs, JobNext(j) PROVE IInv'
    <2>1. JobKeeps
        BY <1>0, <1>2, JobStep
    <2>2. TypeOK'
        BY <1>0, <2>1 DEF TypeOK, JobKeeps, options, Places
    <2>3. OneWorker'
        BY <1>0, <2>1 DEF OneWorker, IsStarted, JobKeeps
    <2>4. Removed'
        BY <1>0, <2>1 DEF Removed, JobKeeps
    <2> QED
        BY <2>1, <2>2, <2>3, <2>4 DEF IInv, JobKeeps
<1>3. ASSUME NEW f \in Finds, FindNext(f) PROVE IInv'
    <2>1. /\ UNCHANGED <<jobVars, serviceVars, adapterVars, workerVars, cancels>>
          /\ finds' \in [Finds -> FindRecord]
          /\ Found'
          /\ UnknownStateIsRemoved'
        BY <1>0, <1>3, FindStep
    <2>2. TypeOK'
        BY <1>0, <2>1 DEF TypeOK, options
    <2>3. OneWorker' /\ Tried' /\ Removed'
        BY <1>0, <2>1 DEF OneWorker, IsStarted, Tried, Removed
    <2> QED
        BY <2>1, <2>2, <2>3 DEF IInv
<1>4. ASSUME NEW c \in Cancels, CancelNext(c) PROVE IInv'
    <2>1. /\ UNCHANGED <<options, tries, held, serviceVars, adapterVars, workerVars>>
          /\ place' \in [Jobs -> Places]
          /\ finds' \in [Finds -> FindRecord]
          /\ cancels' \in [Cancels -> CancelRecord]
          /\ Tried'
          /\ Found'
          /\ Removed'
          /\ UnknownStateIsRemoved'
        BY <1>0, <1>4, CancelStep
    <2>2. TypeOK'
        BY <1>0, <2>1 DEF TypeOK, options, Places
    <2>3. OneWorker'
        BY <1>0, <2>1 DEF OneWorker, IsStarted
    <2> QED
        BY <2>1, <2>2, <2>3 DEF IInv
<1>5. CASE UNCHANGED vars
    <2>1. TypeOK' /\ OneWorker' /\ Tried' /\ Found' /\ Removed' /\ UnknownStateIsRemoved'
        BY <1>0, <1>5
        DEF TypeOK, OneWorker, IsStarted, Tried, Found, NotMissed, Removed,
            UnknownStateIsRemoved, vars, options
    <2> QED
        BY <2>1 DEF IInv
<1> QED
    BY <1>1, <1>2, <1>3, <1>4, <1>5 DEF Next

\* The invariant holds in every state.
THEOREM Invariant == Spec => []IInv
BY InitIInv, StepIInv, PTL DEF Spec

\* TypeOK: in particular, no job uses more attempts than retries + 1, whatever
\* Workers fail it, and the Worker of the adapter is that of the last start().
THEOREM TypeCorrect == Spec => []TypeOK
<1>1. IInv => TypeOK
    BY DEF IInv
<1> QED
    BY <1>1, Invariant, PTL

\* getState() calls a job removed only if it was, or went back, or waits where it
\* does not look, however many jobs move between its questions.
THEOREM UnknownStateIsRemovedCorrect == Spec => []UnknownStateIsRemoved
<1>1. IInv => UnknownStateIsRemoved
    BY DEF IInv
<1> QED
    BY <1>1, Invariant, PTL

\* What cancelJob returned is over: rests on Removed, as remove() is refused for a
\* job that a Worker holds, and on Tried, as only active jobs are held.
THEOREM CancelledIsOverCorrect == Spec => []CancelledIsOver
<1>1. IInv => CancelledIsOver
    BY DEF IInv, CancelledIsOver, Removed, Tried
<1> QED
    BY <1>1, Invariant, PTL

\* A started service with a running queue has an open Worker: rests on OneWorker.
THEOREM StartedHasWorkerCorrect == Spec => []StartedHasWorker
<1>1. IInv => StartedHasWorker
    BY DEF IInv, StartedHasWorker, OneWorker, IsStarted
<1> QED
    BY <1>1, Invariant, PTL

\* No Worker that takes jobs is left behind: rests on OneWorker.
THEOREM NoWorkerLeftBehindCorrect == Spec => []NoWorkerLeftBehind
<1>1. IInv => NoWorkerLeftBehind
    BY DEF IInv, NoWorkerLeftBehind, OneWorker
<1> QED
    BY <1>1, Invariant, PTL

=============================================================================
