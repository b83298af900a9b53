---------------------- MODULE PollingQueueStates_proofs ----------------------
(***************************************************************************)
(* Where a job is that is not over: proof that its state and its place fit *)
(* in PollingQueue.  It rests on the invariant of PollingQueue_proofs and, *)
(* for a loop that looks, on what PollingQueueCustody_proofs calls Known.  *)
(***************************************************************************)
EXTENDS PollingQueueCustody_proofs

-----------------------------------------------------------------------------
(* The places of a job that was told its outcome, and of one that was not. *)

EndedPhase == {"handled", "abandoned"}
BegunPhase == {"racing", "resolved", "leaked"}

Ended(j) == \E r \in Runs : runs[r].job = j /\ runs[r].phase \in EndedPhase
Begun(j) == \E r \in Runs : runs[r].job = j /\ runs[r].phase \in BegunPhase
InHand(j) == \E q \in Queues : held[q] = j

Kept(j) ==
    /\ jobs[j].state \in Waiting => Contains(unsettled, j) \/ Ended(j)
    /\ jobs[j].state = "RUNNING" => InHand(j) \/ Begun(j)

Kepts == \A j \in 1..created : Kept(j)

\* The jobs that were added are jobs.
LEMMA AddedAreJobs ==
    ASSUME TypeOK
    PROVE  1..created \subseteq Jobs
BY JobCountAssumption DEF TypeOK, Jobs

\* A job stays where its state says if it loses no place, or changes into a state
\* that needs none.
LEMMA KeptStays ==
    ASSUME NEW j, Kept(j),
           jobs'[j].state = jobs[j].state \/ jobs'[j].state \notin Waiting \cup {"RUNNING"},
           Contains(unsettled, j) => Contains(unsettled', j),
           Ended(j) => Ended(j)' \/ Contains(unsettled', j)
                         \/ jobs'[j].state \notin Waiting,
           InHand(j) => InHand(j)' \/ Begun(j)',
           Begun(j) => Begun(j)'
    PROVE  Kept(j)'
BY DEF Kept

\* What StartJob leaves does not wait.
LEMMA StartedDoesNotWait ==
    ASSUME NEW job \in JobRecord
    PROVE  StartJob(job).state \notin Waiting
BY DEF StartJob, JobRecord, Waiting

\* A loop looks: it leaves the job in the list, or takes it into its hand.
LEMMA LooksKept ==
    ASSUME TypeOK, NEW q \in Queues, NEW j \in Jobs, Kept(j), Looks(q, j),
           held[q] = j => Begun(j)',
           Ended(j) => Ended(j)', Begun(j) => Begun(j)'
    PROVE  Kept(j)'
<1>1. CASE /\ held'[q] # j /\ jobs'[j] = jobs[j]
           /\ Contains(unsettled, j) => Contains(unsettled', j)
    <2>1. ASSUME InHand(j) PROVE InHand(j)' \/ Begun(j)'
        <3>1. PICK k \in Queues : held[k] = j
            BY <2>1 DEF InHand
        <3>2. CASE k = q
            BY <3>1, <3>2
        <3>3. CASE k # q
            BY <3>1, <3>3 DEF Looks, InHand
        <3>4. QED
            BY <3>2, <3>3
    <2>2. QED
        BY <1>1, <2>1, KeptStays
<1>2. CASE held'[q] = j /\ jobs'[j] = StartJob(jobs[j])
    <2>1. jobs'[j].state \notin Waiting
        BY <1>2, StartedDoesNotWait DEF TypeOK
    <2>2. InHand(j)'
        BY <1>2 DEF InHand
    <2>3. QED
        BY <2>1, <2>2 DEF Kept
<1>3. QED
    BY <1>1, <1>2 DEF Looks

\* A run that is replaced by one of the same job, and on the same side of its
\* outcome, keeps the job.
LEMMA RunGoesOn ==
    ASSUME TypeOK, NEW r \in Runs, NEW run, runs' = [runs EXCEPT ![r] = run],
           NEW j,
           runs[r].job = j /\ runs[r].phase \in EndedPhase =>
               run.job = j /\ run.phase \in EndedPhase,
           runs[r].job = j /\ runs[r].phase \in BegunPhase =>
               run.job = j /\ run.phase \in BegunPhase
    PROVE  (Ended(j) => Ended(j)') /\ (Begun(j) => Begun(j)')
<1>1. \A s \in Runs : runs'[s] = IF s = r THEN run ELSE runs[s]
    BY DEF TypeOK
<1>2. ASSUME Ended(j) PROVE Ended(j)'
    <2>1. PICK s \in Runs : runs[s].job = j /\ runs[s].phase \in EndedPhase
        BY <1>2 DEF Ended
    <2>2. runs'[s].job = j /\ runs'[s].phase \in EndedPhase
        BY <1>1, <2>1
    <2>3. QED
        BY <2>2 DEF Ended
<1>3. ASSUME Begun(j) PROVE Begun(j)'
    <2>1. PICK s \in Runs : runs[s].job = j /\ runs[s].phase \in BegunPhase
        BY <1>3 DEF Begun
    <2>2. runs'[s].job = j /\ runs'[s].phase \in BegunPhase
        BY <1>1, <2>1
    <2>3. QED
        BY <2>2 DEF Begun
<1>4. QED
    BY <1>2, <1>3

\* Entries before the list hide none of it.
LEMMA PrependKeeps ==
    ASSUME NEW c \in Seq(Jobs), NEW s \in Seq(Jobs), NEW j, Contains(s, j)
    PROVE  Contains(c \o s, j)
<1>1. /\ Len(c) \in Nat /\ Len(s) \in Nat /\ DOMAIN s = 1..Len(s)
      /\ c \o s \in Seq(Jobs) /\ Len(c \o s) = Len(c) + Len(s)
      /\ \A i \in 1..(Len(c) + Len(s)) :
             (c \o s)[i] = IF i <= Len(c) THEN c[i] ELSE s[i - Len(c)]
    BY LenProperties, ConcatProperties
<1>2. PICK i \in 1..Len(s) : s[i] = j
    BY <1>1 DEF Contains
<1>3. /\ Len(c) + i \in 1..(Len(c) + Len(s))
      /\ ~(Len(c) + i <= Len(c)) /\ Len(c) + i - Len(c) = i
    BY <1>1, <1>2
<1>4. (c \o s)[Len(c) + i] = j
    BY <1>1, <1>2, <1>3
<1>5. QED
    BY <1>1, <1>3, <1>4 DEF Contains

\* update() hides no entry, and adds one for a job that waits.
LEMMA UpdateKeeps ==
    ASSUME TypeOK, NEW x \in Jobs, Update(x), NEW j \in Jobs
    PROVE  /\ Contains(unsettled, j) => Contains(unsettled', j)
           /\ j = x /\ jobs[x].state \in Waiting => Contains(unsettled', j)
BY PrependEntry DEF Update, TypeOK

\* A job that was told its outcome does not run.
LEMMA ToldDoesNotRun ==
    ASSUME NEW job \in JobRecord, NEW outcome
    PROVE  Outcome2Job(job, outcome).state # "RUNNING"
<1>1. DeferJob(job).state # "RUNNING"
    BY DEF DeferJob, JobRecord
<1>2. FailJob(job).state # "RUNNING"
    BY DEF FailJob, JobRecord
<1>3. CancelJob(job).state # "RUNNING"
    BY DEF CancelJob, JobRecord
<1>4. CompleteJob(job).state # "RUNNING"
    BY DEF CompleteJob, JobRecord
<1>5. QED
    BY <1>1, <1>2, <1>3, <1>4 DEF Outcome2Job

-----------------------------------------------------------------------------
(* The steps.                                                              *)

\* A loop at its first await, or between two passes, has nothing in its hand.
LEMMA EmptyHand ==
    ASSUME Known, NEW q \in Queues, loop[q] \notin {"next", "update"}, NEW j \in Jobs
    PROVE  held[q] # j
BY DEF Known, Jobs, NoJob

\* What a process function or a callback does to its run.
LEMMA RunKept ==
    ASSUME IInv, NEW r \in Runs, NEW j \in Jobs, Kept(j),
           \/ Settle(r) \/ FinallyReturns(r) \/ FinallyUpdates(r)
           \/ RemoveFromActive(r) \/ ProcessEnds(r) \/ CancellationTick(r)
    PROVE  Kept(j)'
<1> USE DEF clientVars, adapterVars, loopVars
<1>0. /\ TypeOK /\ RunsOK
      /\ runs \in [Runs -> RunRecord] /\ runs[r] \in RunRecord
    BY DEF IInv, TypeOK
<1>1. ASSUME UNCHANGED held PROVE InHand(j) => InHand(j)' \/ Begun(j)'
    BY <1>1 DEF InHand
<1>2. ASSUME NEW ph, runs' = [runs EXCEPT ![r] = [runs[r] EXCEPT !.phase = ph]]
      PROVE  \E run : /\ runs' = [runs EXCEPT ![r] = run]
                      /\ run.job = runs[r].job /\ run.phase = ph
    <2> DEFINE new == [runs[r] EXCEPT !.phase = ph]
    <2>1. new.job = runs[r].job /\ new.phase = ph
        BY <1>0 DEF RunRecord
    <2> HIDE DEF new
    <2>2. runs' = [runs EXCEPT ![r] = new]
        BY <1>2 DEF new
    <2>3. QED
        BY <2>1, <2>2
<1>3. CASE Settle(r)
    <2>1. PICK run : /\ runs' = [runs EXCEPT ![r] = run]
                     /\ run.job = runs[r].job /\ run.phase = "handled"
        BY <1>2, <1>3 DEF Settle
    <2>2. runs[r].phase = "resolved" /\ UNCHANGED <<held, unsettled>>
        BY <1>3 DEF Settle
    <2>3. CASE runs[r].job = j
        <3>1. jobs'[j].state # "RUNNING"
            BY <1>0, <1>3, <2>3, ToldDoesNotRun DEF Settle, TypeOK
        <3>2. runs'[r].job = j /\ runs'[r].phase \in EndedPhase
            BY <1>0, <2>1, <2>3 DEF EndedPhase
        <3>3. Ended(j)'
            BY <3>2 DEF Ended
        <3>4. QED
            BY <3>1, <3>3 DEF Kept
    <2>4. CASE runs[r].job # j
        <3>1. jobs'[j] = jobs[j]
            BY <1>0, <1>3, <2>4 DEF Settle, TypeOK
        <3>2. (Ended(j) => Ended(j)') /\ (Begun(j) => Begun(j)')
            BY <1>0, <2>1, <2>4, RunGoesOn
        <3>3. QED
            BY <1>1, <2>2, <3>1, <3>2, KeptStays
    <2>5. QED
        BY <2>3, <2>4
<1>4. CASE FinallyReturns(r)
    <2>1. PICK run : /\ runs' = [runs EXCEPT ![r] = run]
                     /\ run.job = runs[r].job /\ run.phase = "abandoned"
        BY <1>2, <1>4 DEF FinallyReturns
    <2>2. runs[r].phase = "handled" /\ UNCHANGED <<held, unsettled, jobs>>
        BY <1>4 DEF FinallyReturns
    <2>3. (Ended(j) => Ended(j)') /\ (Begun(j) => Begun(j)')
        BY <1>0, <2>1, <2>2, RunGoesOn DEF EndedPhase, BegunPhase
    <2>4. QED
        BY <1>1, <2>2, <2>3, KeptStays
<1>5. CASE FinallyUpdates(r)
    <2>1. PICK run : /\ runs' = [runs EXCEPT ![r] = run]
                     /\ run.job = runs[r].job /\ run.phase = "updating"
        BY <1>2, <1>5 DEF FinallyUpdates
    <2>2. /\ runs[r].phase = "handled" /\ UNCHANGED <<held, jobs>>
          /\ runs[r].job \in Jobs /\ Update(runs[r].job)
        BY <1>0, <1>5 DEF FinallyUpdates, RunsOK
    <2>3. /\ Contains(unsettled, j) => Contains(unsettled', j)
          /\ j = runs[r].job /\ jobs[j].state \in Waiting => Contains(unsettled', j)
        BY <1>0, <2>2, UpdateKeeps
    <2>4. CASE runs[r].job = j
        <3>1. Begun(j) => Begun(j)'
            <4>1. ASSUME NEW s \in Runs, runs[s].job = j, runs[s].phase \in BegunPhase
                  PROVE  runs'[s].job = j /\ runs'[s].phase \in BegunPhase
                <5>1. s # r
                    BY <2>2, <4>1 DEF BegunPhase
                <5>2. QED
                    BY <1>0, <2>1, <4>1, <5>1
            <4>2. QED
                BY <4>1 DEF Begun
        <3>2. jobs'[j].state \notin Waiting \/ Contains(unsettled', j)
            BY <2>2, <2>3, <2>4
        <3>3. QED
            BY <1>1, <2>2, <2>3, <3>1, <3>2, KeptStays
    <2>5. CASE runs[r].job # j
        <3>1. (Ended(j) => Ended(j)') /\ (Begun(j) => Begun(j)')
            BY <1>0, <2>1, <2>5, RunGoesOn
        <3>2. QED
            BY <1>1, <2>2, <2>3, <3>1, KeptStays
    <2>6. QED
        BY <2>4, <2>5
<1>6. CASE RemoveFromActive(r)
    <2>1. PICK run : runs' = [runs EXCEPT ![r] = run]
        BY <1>6 DEF RemoveFromActive
    <2>2. runs[r].phase = "updating" /\ UNCHANGED <<held, unsettled, jobs>>
        BY <1>6 DEF RemoveFromActive
    <2>3. (Ended(j) => Ended(j)') /\ (Begun(j) => Begun(j)')
        BY <1>0, <2>1, <2>2, RunGoesOn DEF EndedPhase, BegunPhase
    <2>4. QED
        BY <1>1, <2>2, <2>3, KeptStays
<1>7. CASE /\ ProcessEnds(r) \/ CancellationTick(r)
           /\ runs[r].phase = "racing"
    <2>1. PICK o, w :
              runs' = [runs EXCEPT ![r] = [runs[r] EXCEPT !.phase = "resolved",
                                                          !.outcome = o,
                                                          !.working = w]]
        <3>1. CASE CancellationTick(r)
            <4>1. runs' = [runs EXCEPT ![r] =
                              [runs[r] EXCEPT !.phase = "resolved",
                                              !.outcome = "cancelled",
                                              !.working = runs[r].working]]
                BY <1>0, <3>1 DEF CancellationTick, RunRecord
            <4>2. QED
                BY <4>1
        <3>2. CASE ProcessEnds(r)
            <4>1. PICK o \in {"value", "error"} :
                      runs' = [runs EXCEPT ![r] =
                                  [runs[r] EXCEPT !.phase = "resolved",
                                                  !.outcome = o,
                                                  !.working = FALSE]]
                BY <1>0, <1>7, <3>2 DEF ProcessEnds
            <4>2. QED
                BY <4>1
        <3>3. QED
            BY <1>7, <3>1, <3>2
    <2> DEFINE new == [runs[r] EXCEPT !.phase = "resolved",
                                      !.outcome = o, !.working = w]
    <2>2. new.job = runs[r].job /\ new.phase = "resolved"
        BY <1>0 DEF RunRecord
    <2> HIDE DEF new
    <2>3. runs' = [runs EXCEPT ![r] = new]
        BY <2>1 DEF new
    <2>4. UNCHANGED <<held, unsettled, jobs>>
        BY <1>7 DEF ProcessEnds, CancellationTick
    <2>5. (Ended(j) => Ended(j)') /\ (Begun(j) => Begun(j)')
        BY <1>0, <1>7, <2>2, <2>3, RunGoesOn DEF EndedPhase, BegunPhase
    <2>6. QED
        BY <1>1, <2>4, <2>5, KeptStays
<1>8. CASE ProcessEnds(r) /\ runs[r].phase # "racing"
    <2> DEFINE over == [runs[r] EXCEPT !.working = FALSE]
               new == Recycled(over)
    <2>1. /\ runs' = [runs EXCEPT ![r] = new]
          /\ UNCHANGED <<held, unsettled, jobs>>
        BY <1>8 DEF ProcessEnds
    <2>2. over.job = runs[r].job /\ over.phase = runs[r].phase
        BY <1>0 DEF RunRecord
    <2> HIDE DEF over
    <2>3. new = over \/ over.phase = "closed"
        BY DEF Recycled
    <2> HIDE DEF new
    <2>4. (Ended(j) => Ended(j)') /\ (Begun(j) => Begun(j)')
        BY <1>0, <2>1, <2>2, <2>3, RunGoesOn DEF EndedPhase, BegunPhase
    <2>5. QED
        BY <1>1, <2>1, <2>4, KeptStays
<1>9. QED
    BY <1>3, <1>4, <1>5, <1>6, <1>7, <1>8 DEF CancellationTick

\* Launch: the job goes from the hand into a run.
LEMMA LaunchKept ==
    ASSUME IInv, NEW q \in Queues, Launch(q) \/ LaunchThrows(q),
           NEW j \in Jobs, Kept(j)
    PROVE  Kept(j)'
<1>0. TypeOK
    BY DEF IInv
<1>1. PICK run : \E r \in Runs :
          /\ runs[r].phase = "idle"
          /\ runs' = [runs EXCEPT ![r] = run]
          /\ run.job = held[q] /\ run.phase \in BegunPhase
    <2>1. CASE Launch(q)
        <3> DEFINE new == [job |-> held[q], queue |-> q, phase |-> "racing",
                           outcome |-> "none", working |-> TRUE]
        <3>1. new.job = held[q] /\ new.phase \in BegunPhase
            BY DEF BegunPhase
        <3>2. PICK r \in Runs : /\ runs[r].phase = "idle"
                                /\ runs' = [runs EXCEPT ![r] = new]
            BY <2>1 DEF Launch
        <3> HIDE DEF new
        <3>3. QED
            BY <3>1, <3>2
    <2>2. CASE LaunchThrows(q)
        <3> DEFINE new == [job |-> held[q], queue |-> q, phase |-> "leaked",
                           outcome |-> "error", working |-> FALSE]
        <3>1. new.job = held[q] /\ new.phase \in BegunPhase
            BY DEF BegunPhase
        <3>2. PICK r \in Runs : /\ runs[r].phase = "idle"
                                /\ runs' = [runs EXCEPT ![r] = new]
            BY <2>2 DEF LaunchThrows
        <3> HIDE DEF new
        <3>3. QED
            BY <3>1, <3>2
    <2>3. QED
        BY <2>1, <2>2
<1>2. PICK r \in Runs :
          /\ runs[r].phase = "idle"
          /\ runs' = [runs EXCEPT ![r] = run]
          /\ run.job = held[q] /\ run.phase \in BegunPhase
    BY <1>1
<1>3. Looks(q, j)
    BY <1>0, ContinueLooks, EndPassLooks DEF Launch, LaunchThrows
<1>4. (Ended(j) => Ended(j)') /\ (Begun(j) => Begun(j)')
    BY <1>0, <1>2, RunGoesOn DEF EndedPhase, BegunPhase
<1>5. ASSUME held[q] = j PROVE Begun(j)'
    <2>1. runs'[r].job = j /\ runs'[r].phase \in BegunPhase
        BY <1>0, <1>2, <1>5 DEF TypeOK
    <2>2. QED
        BY <2>1 DEF Begun
<1>6. QED
    BY <1>0, <1>3, <1>4, <1>5, LooksKept

\* stop() decides open races, and no run changes sides.
LEMMA StopKept ==
    ASSUME IInv, NEW q, StopActiveQueue(q), NEW j \in Jobs, Kept(j)
    PROVE  Kept(j)'
<1> USE DEF clientVars, adapterVars, loopVars
<1>1. ASSUME NEW r \in Runs
      PROVE  /\ runs'[r].job = runs[r].job
             /\ runs[r].phase \in EndedPhase => runs'[r].phase \in EndedPhase
             /\ runs[r].phase \in BegunPhase => runs'[r].phase \in BegunPhase
    <2> DEFINE new == [runs[r] EXCEPT !.phase = "resolved", !.outcome = "stop"]
    <2>1. runs'[r] = IF runs[r].queue = q /\ runs[r].phase = "racing"
                     THEN new ELSE runs[r]
        BY DEF StopActiveQueue
    <2>2. new.job = runs[r].job /\ new.phase = "resolved"
        BY DEF IInv, TypeOK, RunRecord
    <2> HIDE DEF new
    <2>3. QED
        BY <2>1, <2>2 DEF EndedPhase, BegunPhase
<1>2. (Ended(j) => Ended(j)') /\ (Begun(j) => Begun(j)')
    BY <1>1 DEF Ended, Begun
<1>3. UNCHANGED <<held, unsettled, jobs>>
    BY DEF StopActiveQueue
<1>4. InHand(j) => InHand(j)'
    BY <1>3 DEF InHand
<1>5. QED
    BY <1>2, <1>3, <1>4, KeptStays

\* setProgress adds entries of a job that waits.
LEMMA ReportKept ==
    ASSUME IInv, NEW r \in Runs, ReportProgress(r), NEW j \in Jobs, Kept(j)
    PROVE  Kept(j)'
<1> USE DEF clientVars, adapterVars, loopVars
<1> DEFINE x == runs[r].job
           copies == [i \in 1..Cardinality(Listeners(x)) |-> x]
<1>1. x \in Jobs
    BY DEF ReportProgress, Listeners, IInv, RunsOK
<1>2. Cardinality(Listeners(x)) \in Nat
    <2>1. IsFiniteSet(Runs)
        BY FS_Interval, BoundAssumption DEF Runs
    <2>2. QED
        BY <2>1, FS_Subset, FS_CardinalityType DEF Listeners
<1>3. copies \in Seq(Jobs)
    BY <1>1, <1>2
<1>4. unsettled' = copies \o unsettled \/ unsettled' = unsettled
    BY DEF ReportProgress
<1> HIDE DEF copies, x
<1>5. Contains(unsettled, j) => Contains(unsettled', j)
    BY <1>3, <1>4, PrependKeeps DEF IInv, TypeOK
<1>6. UNCHANGED <<held, jobs, runs>>
    BY DEF ReportProgress
<1>7. /\ InHand(j) => InHand(j)'
      /\ Ended(j) => Ended(j)'
      /\ Begun(j) => Begun(j)'
    BY <1>6 DEF InHand, Ended, Begun
<1>8. QED
    BY <1>5, <1>6, <1>7, KeptStays

\* A step of anybody keeps a job that was added before.
LEMMA StepKept ==
    ASSUME IInv, Known, [Next]_vars, NEW j \in Jobs, Kept(j), j <= created
    PROVE  Kept(j)'
<1> USE DEF clientVars, adapterVars, loopVars
<1>0. TypeOK /\ unsettled \in Seq(Jobs)
    BY DEF IInv, TypeOK
<1>1. ASSUME UNCHANGED <<held, runs>>,
             Contains(unsettled, j) => Contains(unsettled', j),
             jobs'[j] = jobs[j] \/ jobs'[j].state = "CANCELLED"
      PROVE  Kept(j)'
    <2>1. /\ InHand(j) => InHand(j)'
          /\ Ended(j) => Ended(j)'
          /\ Begun(j) => Begun(j)'
        BY <1>1 DEF InHand, Ended, Begun
    <2>2. jobs'[j].state = jobs[j].state \/ jobs'[j].state \notin Waiting \cup {"RUNNING"}
        BY <1>1 DEF Waiting
    <2>3. QED
        BY <1>1, <2>1, <2>2, KeptStays
<1>2. ASSUME NEW q \in Queues, NEW n, CallNext(q, n), UNCHANGED runs,
             loop[q] \notin {"next", "update"}
      PROVE  Kept(j)'
    <2>1. Looks(q, j) /\ held[q] # j
        BY <1>0, <1>2, CallNextLooks, EmptyHand
    <2>2. (Ended(j) => Ended(j)') /\ (Begun(j) => Begun(j)')
        BY <1>2 DEF Ended, Begun
    <2>3. QED
        BY <1>0, <2>1, <2>2, LooksKept
<1>3. CASE Client
    <2>1. ASSUME NEW n \in RetryCounts, Add(n)
          PROVE  Kept(j)'
        <3>1. /\ created + 1 \in Jobs /\ j # created + 1
              /\ jobs' = [jobs EXCEPT ![created + 1] = NewJob(n)]
              /\ unsettled' = Append(unsettled, created + 1)
              /\ UNCHANGED <<held, runs>>
            <4>1. created \in Int /\ j \in Int
                BY <1>0, JobCountAssumption DEF TypeOK, Jobs
            <4>2. QED
                BY <2>1, <4>1 DEF Add
        <3>2. Contains(unsettled, j) => Contains(unsettled', j)
            BY <1>0, <3>1, AppendEntry
        <3>3. jobs'[j] = jobs[j]
            BY <1>0, <3>1 DEF TypeOK
        <3>4. QED
            BY <1>1, <3>1, <3>2, <3>3
    <2>2. ASSUME NEW x \in Jobs, CancelJobBegin(x)
          PROVE  Kept(j)'
        BY <1>1, <2>2 DEF CancelJobBegin
    <2>3. CASE RemoveSettledJobs
        BY <1>1, <2>3 DEF RemoveSettledJobs
    <2>4. ASSUME NEW p \in Processes, StartQueue(p)
          PROVE  Kept(j)'
        <3>1. PICK q \in Queues : loop[q] = "unused" /\ StartActiveQueue(q)
            BY <2>4 DEF StartQueue
        <3>2. QED
            BY <1>2, <3>1 DEF StartActiveQueue
    <2>5. ASSUME NEW p \in Processes, StopQueue(p)
          PROVE  Kept(j)'
        BY <2>5, StopKept DEF StopQueue
    <2>6. QED
        BY <1>3, <2>1, <2>2, <2>3, <2>4, <2>5 DEF Client
<1>4. CASE Microtask
    <2>1. ASSUME NEW x \in Jobs, CancelJobFinish(x)
          PROVE  Kept(j)'
        <3>1. jobs'[j] = jobs[j] \/ jobs'[j].state = "CANCELLED"
            <4>1. CancelJob(jobs[x]).state = "CANCELLED"
                BY <1>0 DEF CancelJob, TypeOK, JobRecord
            <4>2. QED
                BY <1>0, <2>1, <4>1 DEF CancelJobFinish, TypeOK
        <3>2. QED
            BY <1>1, <2>1, <3>1 DEF CancelJobFinish
    <2>2. ASSUME NEW q \in Queues, Accept(q)
          PROVE  Kept(j)'
        <3>1. held[q] \in Jobs
            BY <1>0, <2>2 DEF Accept, TypeOK
        <3>2. Contains(unsettled, j) => Contains(unsettled', j)
            BY <1>0, <2>2, <3>1, UpdateKeeps DEF Accept
        <3>3. QED
            BY <1>1, <2>2, <3>2 DEF Accept
    <2>3. ASSUME NEW q \in Queues, NothingToDo(q)
          PROVE  Kept(j)'
        <3>1. Looks(q, j) /\ held[q] # j /\ UNCHANGED runs
            BY <1>0, <2>3, ContinueLooks DEF NothingToDo, Jobs, NoJob
        <3>2. (Ended(j) => Ended(j)') /\ (Begun(j) => Begun(j)')
            BY <3>1 DEF Ended, Begun
        <3>3. QED
            BY <1>0, <3>1, <3>2, LooksKept
    <2>4. QED
        BY <1>4, <2>1, <2>2, <2>3, LaunchKept, RunKept DEF Microtask
<1>5. CASE Timer
    <2>1. CASE EvictSettledJobs
        BY <1>1, <2>1 DEF EvictSettledJobs
    <2>2. ASSUME NEW q \in Queues, PollTimer(q)
          PROVE  Kept(j)'
        BY <1>2, <2>2 DEF PollTimer
    <2>3. ASSUME NEW q \in Queues, StopDrained(q) \/ StopTimedOut(q)
          PROVE  Kept(j)'
        BY <1>1, <2>3 DEF StopDrained, StopTimedOut
    <2>4. QED
        BY <1>5, <2>1, <2>2, <2>3, RunKept DEF Timer
<1>6. CASE Work
    BY <1>6, RunKept, ReportKept DEF Work
<1>7. CASE UNCHANGED vars
    BY <1>1, <1>7 DEF vars
<1>8. QED
    BY <1>3, <1>4, <1>5, <1>6, <1>7 DEF Next

\* A new job is in the list.
LEMMA StepKepts == IInv /\ Known /\ Kepts /\ [Next]_vars => Kepts'
<1> SUFFICES ASSUME IInv, Known, Kepts, [Next]_vars, NEW j \in 1..created'
             PROVE  Kept(j)'
    BY DEF Kepts
<1>0. TypeOK /\ created \in Nat /\ unsettled \in Seq(Jobs)
    BY JobCountAssumption DEF IInv, TypeOK
<1>1. CASE j \in 1..created
    <2>1. j \in Jobs /\ j <= created
        BY <1>0, <1>1, AddedAreJobs
    <2>2. QED
        BY <1>1, <2>1, StepKept DEF Kepts
<1>2. CASE j \notin 1..created
    <2>1. created' # created
        BY <1>2
    <2>2. PICK n \in RetryCounts : Add(n)
        BY <2>1 DEF Next, Client, Microtask, Timer, Work, vars, clientVars,
                    CancelJobBegin, RemoveSettledJobs, StartQueue, StartActiveQueue,
                    StopQueue, StopActiveQueue, CancelJobFinish, Accept, NothingToDo,
                    Launch, LaunchThrows, Settle, FinallyReturns, FinallyUpdates,
                    RemoveFromActive, EvictSettledJobs, PollTimer, StopDrained,
                    StopTimedOut, CancellationTick, ProcessEnds, ReportProgress
    <2>3. created' = created + 1 /\ created + 1 \in Jobs
        BY <2>2 DEF Add
    <2>4. j = created + 1
        BY <1>0, <1>2, <2>3
    <2>5. Contains(unsettled', j)
        BY <1>0, <2>2, <2>3, <2>4, AppendEntry DEF Add
    <2>6. jobs'[j].state = "PENDING"
        <3>1. NewJob(n).state = "PENDING"
            BY DEF NewJob
        <3>2. QED
            BY <1>0, <2>2, <2>3, <2>4, <3>1 DEF Add, TypeOK
    <2>7. QED
        BY <2>5, <2>6 DEF Kept
<1>3. QED
    BY <1>1, <1>2

\* Nothing is dropped, in any interleaving of loops, retries, stops, restarts and
\* cancellations: a job that waits is in the list, or in a run whose callback
\* returned or is due to return; a job that runs is in the hand of a loop, in an
\* open race, or in a run that never got one.
THEOREM CustodyMatchesStateCorrect == Spec => []CustodyMatchesState
<1>1. Init => Kepts
    BY DEF Init, InitAdapter, Kepts
<1>2. IInv /\ Known /\ Kepts /\ [Next]_vars => Kepts'
    BY StepKepts
<1>3. Kepts => CustodyMatchesState
    BY DEF Kepts, Kept, Ended, Begun, InHand, EndedPhase, BegunPhase, CustodyMatchesState
<1>4. Custody => Known
    BY DEF Custody
<1>5. QED
    BY <1>1, <1>2, <1>3, <1>4, CustodyCorrect, PTL DEF Spec

=============================================================================
