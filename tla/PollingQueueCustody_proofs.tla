--------------------- MODULE PollingQueueCustody_proofs ---------------------
(***************************************************************************)
(* Who has a job: proofs that PollingQueue keeps every job in one place,   *)
(* that a job which is over stays over, and that this is the custody of a  *)
(* WorkQueue.  They rest on the invariant of PollingQueue_proofs.          *)
(***************************************************************************)
EXTENDS PollingQueue_proofs

-----------------------------------------------------------------------------
(* Entries of the list of waiting jobs.                                    *)

\* Item x is in list s at one place at most.
OnceIn(s, x) == \A i, k \in DOMAIN s : s[i] = x /\ s[k] = x => i = k

\* Append adds one entry behind the others.
LEMMA AppendEntry ==
    ASSUME NEW s \in Seq(Jobs), NEW x \in Jobs, NEW j \in Jobs
    PROVE  /\ Contains(Append(s, x), j) <=> Contains(s, j) \/ j = x
           /\ OnceIn(s, j) /\ (j = x => ~Contains(s, j)) => OnceIn(Append(s, x), j)
<1> DEFINE t == Append(s, x)
           n == Len(s)
<1>1. /\ n \in Nat /\ DOMAIN s = 1..n
      /\ Len(t) = n + 1 /\ DOMAIN t = 1..(n + 1)
      /\ \A i \in 1..n : t[i] = s[i]
      /\ t[n + 1] = x
    BY AppendProperties, LenProperties
<1> HIDE DEF t, n
<1>2. \A i \in 1..(n + 1) : i \in 1..n \/ i = n + 1
    BY <1>1
<1>3. Contains(t, j) <=> Contains(s, j) \/ j = x
    <2>1. Contains(s, j) => Contains(t, j)
        BY <1>1 DEF Contains, n
    <2>2. j = x => Contains(t, j)
        BY <1>1 DEF Contains
    <2>3. Contains(t, j) => Contains(s, j) \/ j = x
        BY <1>1, <1>2 DEF Contains, n
    <2>4. QED
        BY <2>1, <2>2, <2>3
<1>4. ASSUME OnceIn(s, j), j = x => ~Contains(s, j)
      PROVE  OnceIn(t, j)
    <2> SUFFICES ASSUME NEW i \in DOMAIN t, NEW k \in DOMAIN t, t[i] = j, t[k] = j
                 PROVE  i = k
        BY DEF OnceIn
    <2>1. CASE i \in 1..n /\ k \in 1..n
        BY <1>1, <1>4, <2>1 DEF OnceIn
    <2>2. CASE i = n + 1 /\ k \in 1..n
        BY <1>1, <1>4, <2>2 DEF Contains, n
    <2>3. CASE i \in 1..n /\ k = n + 1
        BY <1>1, <1>4, <2>3 DEF Contains, n
    <2>4. QED
        BY <1>1, <1>2, <2>1, <2>2, <2>3
<1>5. QED
    BY <1>3, <1>4 DEF t

\* So does unshift, before the others.
LEMMA PrependEntry ==
    ASSUME NEW s \in Seq(Jobs), NEW x \in Jobs, NEW j \in Jobs
    PROVE  /\ Contains(<<x>> \o s, j) <=> Contains(s, j) \/ j = x
           /\ OnceIn(s, j) /\ (j = x => ~Contains(s, j)) => OnceIn(<<x>> \o s, j)
<1> DEFINE t == <<x>> \o s
           n == Len(s)
<1>1. /\ n \in Nat /\ DOMAIN s = 1..n
      /\ Len(t) = n + 1 /\ DOMAIN t = 1..(n + 1)
      /\ t[1] = x
      /\ \A i \in 2..(n + 1) : i - 1 \in 1..n /\ t[i] = s[i - 1]
    <2>1. <<x>> \in Seq(Jobs) /\ Len(<<x>>) = 1 /\ <<x>>[1] = x
        OBVIOUS
    <2>2. n \in Nat /\ DOMAIN s = 1..n
        BY LenProperties
    <2>3. t \in Seq(Jobs) /\ Len(t) = 1 + n
          /\ \A i \in 1..(1 + n) : t[i] = IF i <= 1 THEN x ELSE s[i - 1]
        BY <2>1, ConcatProperties
    <2>4. DOMAIN t = 1..(n + 1)
        BY <2>2, <2>3, LenProperties
    <2>5. QED
        BY <2>2, <2>3, <2>4
<1> HIDE DEF t, n
<1>2. \A i \in 1..(n + 1) : i \in 2..(n + 1) \/ i = 1
    BY <1>1
<1>3. Contains(t, j) <=> Contains(s, j) \/ j = x
    <2>1. ASSUME NEW i \in 1..n, s[i] = j
          PROVE  Contains(t, j)
        <3>1. i + 1 \in 2..(n + 1) /\ i + 1 - 1 = i
            BY <1>1
        <3>2. t[i + 1] = j
            BY <1>1, <2>1, <3>1
        <3>3. QED
            BY <1>1, <3>1, <3>2 DEF Contains
    <2>2. j = x => Contains(t, j)
        BY <1>1 DEF Contains
    <2>3. Contains(t, j) => Contains(s, j) \/ j = x
        BY <1>1, <1>2 DEF Contains, n
    <2>4. QED
        BY <2>1, <2>2, <2>3 DEF Contains, n
<1>4. ASSUME OnceIn(s, j), j = x => ~Contains(s, j)
      PROVE  OnceIn(t, j)
    <2> SUFFICES ASSUME NEW i \in DOMAIN t, NEW k \in DOMAIN t, t[i] = j, t[k] = j
                 PROVE  i = k
        BY DEF OnceIn
    <2>1. CASE i \in 2..(n + 1) /\ k \in 2..(n + 1)
        <3>1. i - 1 = k - 1
            BY <1>1, <1>4, <2>1 DEF OnceIn
        <3>2. QED
            BY <1>1, <2>1, <3>1
    <2>2. CASE i = 1 /\ k \in 2..(n + 1)
        BY <1>1, <1>4, <2>2 DEF Contains, n
    <2>3. CASE i \in 2..(n + 1) /\ k = 1
        BY <1>1, <1>4, <2>3 DEF Contains, n
    <2>4. QED
        BY <1>1, <1>2, <2>1, <2>2, <2>3
<1>5. QED
    BY <1>3, <1>4 DEF t

\* Taking the head leaves the entries of all others, and none of a job that was
\* there once.
LEMMA TakeEntry ==
    ASSUME NEW s \in Seq(Jobs), s # <<>>, NEW j \in Jobs
    PROVE  /\ Contains(Tail(s), j) => Contains(s, j)
           /\ Contains(s, j) => Contains(Tail(s), j) \/ j = Head(s)
           /\ Contains(s, Head(s))
           /\ OnceIn(s, j) => OnceIn(Tail(s), j)
           /\ OnceIn(s, j) /\ j = Head(s) => ~Contains(Tail(s), j)
<1> DEFINE t == Tail(s)
           n == Len(s)
<1>1. /\ n \in Nat /\ n >= 1 /\ DOMAIN s = 1..n
      /\ Len(t) = n - 1 /\ DOMAIN t = 1..(n - 1)
      /\ \A i \in 1..(n - 1) : t[i] = s[i + 1] /\ i + 1 \in 1..n
      /\ Head(s) = s[1]
    <2>1. n \in Nat /\ n >= 1 /\ DOMAIN s = 1..n
        BY EmptySeq, LenProperties
    <2>2. t \in Seq(Jobs) /\ Len(t) = n - 1 /\ \A i \in 1..(n - 1) : t[i] = s[i + 1]
        BY HeadTailProperties
    <2>3. DOMAIN t = 1..(n - 1)
        BY <2>2, LenProperties
    <2>4. QED
        BY <2>1, <2>2, <2>3
<1> HIDE DEF t, n
<1>2. Contains(t, j) => Contains(s, j)
    BY <1>1 DEF Contains, n
<1>3. Contains(s, j) => Contains(t, j) \/ j = Head(s)
    <2> SUFFICES ASSUME NEW i \in 1..n, s[i] = j, i # 1
                 PROVE  Contains(t, j)
        BY <1>1 DEF Contains, n
    <2>1. i - 1 \in 1..(n - 1) /\ i - 1 + 1 = i
        BY <1>1
    <2>2. QED
        BY <1>1, <2>1 DEF Contains
<1>4. Contains(s, Head(s))
    BY <1>1 DEF Contains, n
<1>5. ASSUME OnceIn(s, j) PROVE OnceIn(t, j)
    <2> SUFFICES ASSUME NEW i \in DOMAIN t, NEW k \in DOMAIN t, t[i] = j, t[k] = j
                 PROVE  i = k
        BY DEF OnceIn
    <2>1. i + 1 = k + 1
        BY <1>1, <1>5 DEF OnceIn
    <2>2. QED
        BY <1>1, <2>1
<1>6. ASSUME OnceIn(s, j), j = Head(s) PROVE ~Contains(t, j)
    <2> SUFFICES ASSUME NEW i \in 1..(n - 1), t[i] = j PROVE FALSE
        BY <1>1 DEF Contains
    <2>1. i + 1 = 1
        BY <1>1, <1>6 DEF OnceIn
    <2>2. QED
        BY <2>1
<1>7. QED
    BY <1>2, <1>3, <1>4, <1>5, <1>6 DEF t

\* Copies of another item, put before the list, leave the entries of j.
LEMMA PrependCopies ==
    ASSUME NEW c \in Seq(Jobs), NEW s \in Seq(Jobs), NEW x \in Jobs, NEW j \in Jobs,
           \A i \in 1..Len(c) : c[i] = x
    PROVE  /\ Contains(c \o s, j) => Contains(s, j) \/ j = x
           /\ OnceIn(s, j) /\ j # x => OnceIn(c \o s, j)
<1> DEFINE t == c \o s
           m == Len(c)
           n == Len(s)
<1>1. /\ m \in Nat /\ n \in Nat /\ DOMAIN s = 1..n
      /\ Len(t) = m + n /\ DOMAIN t = 1..(m + n)
      /\ \A i \in 1..(m + n) : t[i] = IF i <= m THEN c[i] ELSE s[i - m]
    <2>1. m \in Nat /\ n \in Nat /\ DOMAIN s = 1..n
        BY LenProperties
    <2>2. /\ t \in Seq(Jobs) /\ Len(t) = m + n
          /\ \A i \in 1..(m + n) : t[i] = IF i <= m THEN c[i] ELSE s[i - m]
        BY ConcatProperties
    <2>3. DOMAIN t = 1..(m + n)
        BY <2>2, LenProperties
    <2>4. QED
        BY <2>1, <2>2, <2>3
<1>2. \A i \in 1..m : c[i] = x
    OBVIOUS
<1> HIDE DEF t, m, n
<1>3. ASSUME NEW i \in 1..(m + n), t[i] = j, j # x
      PROVE  i - m \in 1..n /\ s[i - m] = j
    <2>1. CASE i <= m
        BY <1>1, <1>2, <1>3, <2>1
    <2>2. CASE ~(i <= m)
        BY <1>1, <1>3, <2>2
    <2>3. QED
        BY <2>1, <2>2
<1>4. Contains(t, j) => Contains(s, j) \/ j = x
    BY <1>1, <1>3 DEF Contains, n
<1>5. ASSUME OnceIn(s, j), j # x PROVE OnceIn(t, j)
    <2> SUFFICES ASSUME NEW i \in DOMAIN t, NEW k \in DOMAIN t, t[i] = j, t[k] = j
                 PROVE  i = k
        BY DEF OnceIn
    <2>1. i - m = k - m
        BY <1>1, <1>3, <1>5 DEF OnceIn
    <2>2. QED
        BY <1>1, <2>1
<1>6. QED
    BY <1>4, <1>5 DEF t

-----------------------------------------------------------------------------
(* The inductive invariant: a job has one place, and a state that fits it. *)

HeldBy(j, r) == runs[r].job = j /\ Holding(r)

\* What SingleCustody says of job j, pair of places by pair of places.
OnePlace(j) ==
    /\ OnceIn(unsettled, j)
    /\ \A p, q \in Queues : held[p] = j /\ held[q] = j => p = q
    /\ \A r, s \in Runs : HeldBy(j, r) /\ HeldBy(j, s) => r = s
    /\ \A q \in Queues : held[q] = j => ~Contains(unsettled, j)
    /\ \A r \in Runs : HeldBy(j, r) => /\ ~Contains(unsettled, j)
                                       /\ \A q \in Queues : held[q] # j

\* A job in a hand or in an open race does not wait, so that no update() puts it
\* into the list a second time, and it is not over either.
Taken == {"RUNNING", "CANCELLED"}

OpenRun(j, r) == runs[r].job = j /\ runs[r].phase \in {"racing", "resolved"}

StateFits(j) ==
    /\ Contains(unsettled, j) => jobs[j].state \in Waiting \cup {"CANCELLED"}
    /\ \A q \in Queues : held[q] = j => jobs[j].state \in Taken
    /\ \A r \in Runs : OpenRun(j, r) => jobs[j].state \in Taken

JobOK(j) == OnePlace(j) /\ StateFits(j)

\* Nobody knows a job before it is added, and a loop has a job in its hand only
\* between its two awaits.
Known ==
    /\ store \subseteq 1..created
    /\ cancelling \subseteq 1..created
    /\ \A j \in Jobs : Contains(unsettled, j) => j <= created
    /\ \A q \in Queues : held[q] <= created
    /\ \A r \in Runs : runs[r].job <= created
    /\ \A j \in Jobs : j > created => jobs[j].state = "PENDING"
    /\ \A q \in Queues : held[q] # NoJob => loop[q] \in {"next", "update"}

SilentJobs == Jobs \ ReportingJobs

Custody == Known /\ \A j \in SilentJobs : JobOK(j)

\* The invariant says what SingleCustody says.
LEMMA CustodyIsSingle ==
    ASSUME TypeOK, Custody
    PROVE  SingleCustody
<1> SUFFICES ASSUME NEW j \in SilentJobs, NEW a \in Places(j), NEW b \in Places(j)
             PROVE  a = b
    BY DEF SingleCustody, SilentJobs
<1>1. OnePlace(j)
    BY DEF Custody, JobOK
<1>2. DOMAIN unsettled = 1..Len(unsettled)
    BY LenProperties DEF TypeOK
<1>3. \/ \E i \in DOMAIN unsettled : a = <<"entry", i>> /\ unsettled[i] = j
      \/ \E q \in Queues : a = <<"hand", q>> /\ held[q] = j
      \/ \E r \in Runs : a = <<"run", r>> /\ HeldBy(j, r)
    BY DEF Places, HeldBy
<1>4. \/ \E i \in DOMAIN unsettled : b = <<"entry", i>> /\ unsettled[i] = j
      \/ \E q \in Queues : b = <<"hand", q>> /\ held[q] = j
      \/ \E r \in Runs : b = <<"run", r>> /\ HeldBy(j, r)
    BY DEF Places, HeldBy
<1>5. \A i \in DOMAIN unsettled : unsettled[i] = j => Contains(unsettled, j)
    BY <1>2 DEF Contains
<1>6. QED
    BY <1>1, <1>3, <1>4, <1>5 DEF OnePlace, OnceIn

-----------------------------------------------------------------------------
(* What a loop does to one job.                                            *)

\* The loop of q looks for a job: it takes j out of the list and starts it, or
\* leaves it where it is.
Looks(q, j) ==
    /\ OnceIn(unsettled, j) => OnceIn(unsettled', j)
    /\ Contains(unsettled', j) => Contains(unsettled, j)
    /\ \A k \in Queues \ {q} : held'[k] = held[k]
    /\ \/ /\ held'[q] # j
          /\ Contains(unsettled, j) => Contains(unsettled', j)
          /\ jobs'[j] = jobs[j]
       \/ /\ held'[q] = j
          /\ Contains(unsettled, j)
          /\ OnceIn(unsettled, j) => ~Contains(unsettled', j)
          /\ jobs'[j] = StartJob(jobs[j])

\* next() does that.
LEMMA CallNextLooks ==
    ASSUME TypeOK, NEW q \in Queues, NEW n, CallNext(q, n), NEW j \in Jobs
    PROVE  Looks(q, j)
<1>0. j # NoJob /\ unsettled \in Seq(Jobs)
    BY DEF TypeOK, Jobs, NoJob
<1>1. CASE /\ unsettled' = unsettled /\ jobs' = jobs
           /\ held' = [held EXCEPT ![q] = NoJob]
    BY <1>0, <1>1 DEF TypeOK, Looks
<1>2. ASSUME unsettled # <<>>
      PROVE  /\ Head(unsettled) \in Jobs
             /\ Tail(unsettled) \in Seq(Jobs)
             /\ Contains(Tail(unsettled), j) => Contains(unsettled, j)
             /\ Contains(unsettled, j) => Contains(Tail(unsettled), j) \/ j = Head(unsettled)
             /\ Contains(unsettled, Head(unsettled))
             /\ OnceIn(unsettled, j) => OnceIn(Tail(unsettled), j)
             /\ OnceIn(unsettled, j) /\ j = Head(unsettled)
                    => ~Contains(Tail(unsettled), j)
    BY <1>0, <1>2, HeadTailProperties, TakeEntry
<1>3. CASE /\ unsettled # <<>>
           /\ unsettled' = Append(Tail(unsettled), Head(unsettled))
           /\ jobs' = jobs
           /\ held' = [held EXCEPT ![q] = NoJob]
    <2>1. /\ Contains(unsettled', j) <=> Contains(unsettled, j)
          /\ OnceIn(unsettled, j) => OnceIn(unsettled', j)
        BY <1>2, <1>3, AppendEntry
    <2>2. QED
        BY <1>0, <1>3, <2>1 DEF TypeOK, Looks
<1>4. CASE /\ unsettled # <<>>
           /\ unsettled' = Tail(unsettled)
           /\ held' = [held EXCEPT ![q] = Head(unsettled)]
           /\ jobs' = [jobs EXCEPT ![Head(unsettled)] = StartJob(@)]
    BY <1>2, <1>4 DEF TypeOK, Looks
<1>5. QED
    BY <1>1, <1>3, <1>4 DEF CallNext

\* The end of a pass leaves every job where it is.
LEMMA EndPassLooks ==
    ASSUME TypeOK, NEW q \in Queues, EndPass(q), NEW j \in Jobs
    PROVE  Looks(q, j)
BY DEF EndPass, TypeOK, Looks, Jobs, NoJob

\* So the loop looks, whether it goes on or not.
LEMMA ContinueLooks ==
    ASSUME TypeOK, NEW q \in Queues, Continue(q), NEW j \in Jobs
    PROVE  Looks(q, j)
BY CallNextLooks, EndPassLooks DEF Continue

\* What start() makes of a job that was in the list.
LEMMA StartedIsTaken ==
    ASSUME NEW job \in JobRecord, job.state \in Waiting \cup {"CANCELLED"}
    PROVE  StartJob(job).state \in Taken
BY DEF StartJob, JobRecord, Taken, Waiting

\* A loop with an empty hand looks, and the runs of the job stay as they are.
LEMMA LooksJobOK ==
    ASSUME TypeOK, NEW q \in Queues, NEW j \in Jobs, JobOK(j), Looks(q, j),
           held[q] # j,
           \A r \in Runs : (HeldBy(j, r)' <=> HeldBy(j, r))
                           /\ (OpenRun(j, r)' <=> OpenRun(j, r))
    PROVE  JobOK(j)'
<1>1. CASE held'[q] # j /\ jobs'[j] = jobs[j]
    <2>1. \A k \in Queues : held'[k] = j <=> held[k] = j
        BY <1>1 DEF Looks
    <2>2. OnePlace(j)'
        BY <2>1 DEF JobOK, OnePlace, Looks
    <2>3. StateFits(j)'
        BY <1>1, <2>1 DEF JobOK, StateFits, Looks
    <2>4. QED
        BY <2>2, <2>3 DEF JobOK
<1>2. CASE /\ held'[q] = j
           /\ Contains(unsettled, j)
           /\ OnceIn(unsettled, j) => ~Contains(unsettled', j)
           /\ jobs'[j] = StartJob(jobs[j])
    <2>1. \A k \in Queues : held[k] # j
        BY <1>2 DEF JobOK, OnePlace
    <2>2. \A r \in Runs : ~HeldBy(j, r)
        BY <1>2 DEF JobOK, OnePlace
    <2>3. \A k \in Queues : held'[k] = j => k = q
        BY <2>1 DEF Looks
    <2>4. ~Contains(unsettled', j) /\ OnceIn(unsettled', j)
        BY <1>2 DEF JobOK, OnePlace, Looks
    <2>5. OnePlace(j)'
        BY <2>2, <2>3, <2>4 DEF OnePlace
    <2>6. jobs'[j].state \in Taken
        BY <1>2, StartedIsTaken DEF JobOK, StateFits, TypeOK
    <2>7. StateFits(j)'
        BY <2>4, <2>6 DEF StateFits
    <2>8. QED
        BY <2>5, <2>7 DEF JobOK
<1>3. QED
    BY <1>1, <1>2 DEF Looks

\* update() puts a job into the list only if it waits, and touches no other.
LEMMA UpdateEntry ==
    ASSUME TypeOK, NEW x \in Jobs, Update(x), NEW j \in Jobs
    PROVE  /\ Contains(unsettled', j)
                => Contains(unsettled, j) \/ (j = x /\ jobs[x].state \in Waiting)
           /\ OnceIn(unsettled, j) /\ (j = x => ~Contains(unsettled, j))
                => OnceIn(unsettled', j)
           /\ j # x /\ OnceIn(unsettled, j) => OnceIn(unsettled', j)
           /\ j = x /\ jobs[x].state \notin Waiting => unsettled' = unsettled
<1>1. CASE unsettled' = unsettled
    BY <1>1 DEF Update
<1>2. CASE jobs[x].state \in Waiting /\ unsettled' = <<x>> \o unsettled
    BY <1>2, PrependEntry DEF TypeOK
<1>3. QED
    BY <1>1, <1>2 DEF Update

-----------------------------------------------------------------------------
(* Every step keeps a job in one place.                                    *)

\* No step brings a job to a new place but the loop, add() and update().
LEMMA UnmovedJobOK ==
    ASSUME NEW j \in Jobs, JobOK(j), UNCHANGED held,
           OnceIn(unsettled', j),
           Contains(unsettled', j) => Contains(unsettled, j),
           jobs'[j].state \in {jobs[j].state, "CANCELLED"},
           \A r \in Runs : (HeldBy(j, r)' => HeldBy(j, r))
                           /\ (OpenRun(j, r)' => OpenRun(j, r))
    PROVE  JobOK(j)'
<1>1. OnePlace(j)'
    BY DEF JobOK, OnePlace
<1>2. StateFits(j)'
    BY DEF JobOK, StateFits, Taken
<1>3. QED
    BY <1>1, <1>2 DEF JobOK

\* What a step that changes one run makes of the places of job j.
LEMMA OneRunPlaces ==
    ASSUME TypeOK, NEW r \in Runs, NEW run \in RunRecord, NEW j \in Jobs,
           runs' = [runs EXCEPT ![r] = run],
           run.job = j /\ run.phase \in {"racing", "resolved", "handled",
                                         "abandoned", "leaked"} => HeldBy(j, r),
           run.job = j /\ run.phase \in {"racing", "resolved"} => OpenRun(j, r)
    PROVE  \A s \in Runs : (HeldBy(j, s)' => HeldBy(j, s))
                           /\ (OpenRun(j, s)' => OpenRun(j, s))
BY DEF TypeOK, HeldBy, Holding, OpenRun

\* Recycling changes no place.
LEMMA RecycledPlace ==
    ASSUME NEW run \in RunRecord, NEW j \in Jobs, Recycled(run).job = j
    PROVE  Recycled(run) = run
BY DEF Recycled, IdleRun, Jobs, NoJob

\* Clients: a new job gets its first entry; start() is a loop that looks.
LEMMA ClientJobOK ==
    ASSUME IInv, Custody, Client, NEW j \in SilentJobs
    PROVE  JobOK(j)'
<1> USE DEF clientVars, adapterVars, loopVars
<1>0. j \in Jobs /\ JobOK(j) /\ j # NoJob
    BY DEF SilentJobs, Custody, Jobs, NoJob
<1>1. ASSUME NEW n \in RetryCounts, Add(n)
      PROVE  JobOK(j)'
    <2> DEFINE x == created + 1
    <2>1. /\ x \in Jobs
          /\ unsettled' = Append(unsettled, x)
          /\ jobs' = [jobs EXCEPT ![x] = NewJob(n)]
          /\ UNCHANGED <<held, runs>>
        BY <1>1 DEF Add
    <2>2. unsettled \in Seq(Jobs) /\ jobs \in [Jobs -> JobRecord] /\ created \in Nat
        BY JobCountAssumption DEF IInv, TypeOK
    <2> HIDE DEF x
    <2>3. CASE j = x
        <3>1. j \in Nat /\ ~(j <= created)
            BY <2>2, <2>3 DEF x
        <3>2. ~Contains(unsettled, j)
            BY <1>0, <3>1 DEF Custody, Known
        <3>3. \A q \in Queues : held[q] # j
            BY <1>0, <3>1 DEF Custody, Known
        <3>4. \A r \in Runs : runs[r].job # j
            BY <1>0, <3>1 DEF Custody, Known
        <3>5. OnceIn(unsettled', j)
            BY <1>0, <2>1, <2>2, <3>2, AppendEntry DEF JobOK, OnePlace
        <3>6. jobs'[j].state = "PENDING"
            BY <2>1, <2>2, <2>3 DEF NewJob
        <3>7. OnePlace(j)'
            BY <2>1, <3>3, <3>4, <3>5 DEF OnePlace, HeldBy
        <3>8. StateFits(j)'
            BY <2>1, <3>3, <3>4, <3>6 DEF StateFits, OpenRun, Waiting
        <3>9. QED
            BY <3>7, <3>8 DEF JobOK
    <2>4. CASE j # x
        <3>1. /\ OnceIn(unsettled', j)
              /\ Contains(unsettled', j) => Contains(unsettled, j)
            BY <1>0, <2>1, <2>2, <2>4, AppendEntry DEF JobOK, OnePlace
        <3>2. jobs'[j] = jobs[j]
            BY <2>1, <2>2, <2>4
        <3>3. QED
            BY <1>0, <2>1, <3>1, <3>2, UnmovedJobOK DEF HeldBy, Holding, OpenRun
    <2>5. QED
        BY <2>3, <2>4
<1>2. ASSUME UNCHANGED <<held, unsettled, jobs, runs>>
      PROVE  JobOK(j)'
    BY <1>0, <1>2, UnmovedJobOK DEF JobOK, OnePlace, HeldBy, Holding, OpenRun
<1>3. ASSUME NEW k \in Jobs, CancelJobBegin(k)
      PROVE  JobOK(j)'
    BY <1>2, <1>3 DEF CancelJobBegin
<1>4. ASSUME RemoveSettledJobs
      PROVE  JobOK(j)'
    BY <1>2, <1>4 DEF RemoveSettledJobs
<1>5. ASSUME NEW p \in Processes, StartQueue(p)
      PROVE  JobOK(j)'
    <2>1. PICK q \in Queues : loop[q] = "unused" /\ CallNext(q, 0) /\ UNCHANGED runs
        BY <1>5 DEF StartQueue, StartActiveQueue
    <2>2. held[q] # j
        BY <1>0, <2>1 DEF Custody, Known
    <2>3. Looks(q, j)
        BY <1>0, <2>1, CallNextLooks DEF IInv
    <2>4. QED
        BY <1>0, <2>1, <2>2, <2>3, LooksJobOK DEF IInv, HeldBy, Holding, OpenRun
<1>6. ASSUME NEW p \in Processes, StopQueue(p)
      PROVE  JobOK(j)'
    <2>1. UNCHANGED <<held, unsettled, jobs>>
        BY <1>6 DEF StopQueue, StopActiveQueue
    <2>2. \A r \in Runs : \/ runs'[r] = runs[r]
                          \/ /\ runs[r].phase = "racing"
                             /\ runs'[r].job = runs[r].job
                             /\ runs'[r].phase = "resolved"
        BY <1>6 DEF StopQueue, StopActiveQueue, IInv, TypeOK, RunRecord
    <2>3. \A r \in Runs : (HeldBy(j, r)' => HeldBy(j, r))
                          /\ (OpenRun(j, r)' => OpenRun(j, r))
        BY <2>2 DEF HeldBy, Holding, OpenRun
    <2>4. QED
        BY <1>0, <2>1, <2>3, UnmovedJobOK DEF JobOK, OnePlace
<1>7. QED
    BY <1>1, <1>3, <1>4, <1>5, <1>6 DEF Client

\* The loop: an accepted job does not wait, so that update() adds no entry, and a
\* launched one goes from the hand to its run.
LEMMA LoopJobOK ==
    ASSUME IInv, Custody, NEW q \in Queues, NEW j \in SilentJobs,
           Accept(q) \/ NothingToDo(q) \/ Launch(q) \/ LaunchThrows(q)
    PROVE  JobOK(j)'
<1> USE DEF clientVars, adapterVars, loopVars
<1>0. j \in Jobs /\ JobOK(j) /\ j # NoJob
    BY DEF SilentJobs, Custody, Jobs, NoJob
<1>1. CASE Accept(q)
    <2>1. /\ held[q] \in Jobs
          /\ Update(held[q])
          /\ UNCHANGED <<held, jobs, runs>>
        BY <1>1 DEF Accept, IInv, TypeOK
    <2>2. j = held[q] => jobs[j].state \notin Waiting
        BY <1>0 DEF JobOK, StateFits, Taken, Waiting
    <2>3. /\ OnceIn(unsettled', j)
          /\ Contains(unsettled', j) => Contains(unsettled, j)
        BY <1>0, <2>1, <2>2, UpdateEntry DEF IInv, JobOK, OnePlace
    <2>4. QED
        BY <1>0, <2>1, <2>3, UnmovedJobOK DEF HeldBy, Holding, OpenRun
<1>2. CASE NothingToDo(q)
    <2>1. held[q] = NoJob /\ Continue(q) /\ UNCHANGED runs
        BY <1>2 DEF NothingToDo
    <2>2. QED
        BY <1>0, <2>1, ContinueLooks, LooksJobOK DEF IInv, HeldBy, Holding, OpenRun
<1>3. ASSUME NEW r \in Runs, NEW run, Looks(q, j),
             runs[r].phase = "idle",
             runs' = [runs EXCEPT ![r] = run],
             run.job = held[q], run.phase \in {"racing", "leaked"}
      PROVE  JobOK(j)'
    <2>1. runs'[r] = run /\ \A s \in Runs \ {r} : runs'[s] = runs[s]
        BY <1>3 DEF IInv, TypeOK
    <2>2. ~HeldBy(j, r) /\ ~OpenRun(j, r)
        BY <1>3 DEF HeldBy, Holding, OpenRun
    <2>3. CASE held[q] # j
        <3>1. ~HeldBy(j, r)' /\ ~OpenRun(j, r)'
            BY <1>3, <2>1, <2>3 DEF HeldBy, OpenRun
        <3>2. \A s \in Runs : (HeldBy(j, s)' <=> HeldBy(j, s))
                              /\ (OpenRun(j, s)' <=> OpenRun(j, s))
            BY <2>1, <2>2, <3>1 DEF HeldBy, Holding, OpenRun
        <3>3. QED
            BY <1>0, <1>3, <2>3, <3>2, LooksJobOK DEF IInv
    <2>4. CASE held[q] = j
        <3>1. ~Contains(unsettled, j) /\ jobs[j].state \in Taken
            BY <1>0, <2>4 DEF JobOK, OnePlace, StateFits
        <3>2. \A s \in Runs : ~HeldBy(j, s)
            BY <1>0, <2>4 DEF JobOK, OnePlace
        <3>3. ~Contains(unsettled', j) /\ OnceIn(unsettled', j)
            BY <1>0, <1>3, <3>1 DEF JobOK, OnePlace, Looks
        <3>4. held'[q] # j /\ jobs'[j] = jobs[j]
            BY <1>3, <3>1 DEF Looks
        <3>5. \A k \in Queues : held'[k] # j
            BY <1>0, <1>3, <2>4, <3>4 DEF JobOK, OnePlace, Looks
        <3>6. \A s \in Runs : HeldBy(j, s)' => s = r
            BY <2>1, <3>2 DEF HeldBy, Holding
        <3>7. OnePlace(j)'
            BY <3>3, <3>5, <3>6 DEF OnePlace
        <3>8. StateFits(j)'
            BY <3>1, <3>3, <3>4, <3>5 DEF StateFits
        <3>9. QED
            BY <3>7, <3>8 DEF JobOK
    <2>5. QED
        BY <2>3, <2>4
<1>4. CASE Launch(q)
    BY <1>0, <1>3, <1>4, ContinueLooks DEF Launch, IInv
<1>5. CASE LaunchThrows(q)
    BY <1>0, <1>3, <1>5, EndPassLooks DEF LaunchThrows, IInv
<1>6. QED
    BY <1>1, <1>2, <1>4, <1>5

\* The callbacks of a run: only its finally-callback gives the job back, and then
\* the run does not keep it any more.
LEMMA RunJobOK ==
    ASSUME IInv, Custody, NEW r \in Runs, NEW j \in SilentJobs,
           \/ Settle(r) \/ FinallyReturns(r) \/ FinallyUpdates(r)
           \/ RemoveFromActive(r) \/ ProcessEnds(r) \/ CancellationTick(r)
    PROVE  JobOK(j)'
<1> USE DEF clientVars, adapterVars, loopVars
<1>0. j \in Jobs /\ JobOK(j) /\ TypeOK
    BY DEF SilentJobs, Custody, IInv
<1>1. runs[r] \in RunRecord /\ runs \in [Runs -> RunRecord] /\ jobs \in [Jobs -> JobRecord]
    BY DEF IInv, TypeOK
<1>2. ASSUME UNCHANGED <<held, unsettled, jobs>>,
             \A s \in Runs : (HeldBy(j, s)' => HeldBy(j, s))
                             /\ (OpenRun(j, s)' => OpenRun(j, s))
      PROVE  JobOK(j)'
    BY <1>0, <1>2, UnmovedJobOK DEF JobOK, OnePlace
<1>3. CASE Settle(r)
    <2>1. /\ runs' = [runs EXCEPT ![r] = [runs[r] EXCEPT !.phase = "handled"]]
          /\ runs[r].phase = "resolved"
          /\ UNCHANGED <<held, unsettled>>
        BY <1>3 DEF Settle
    <2>2. [runs[r] EXCEPT !.phase = "handled"] \in RunRecord
        BY <1>1 DEF RunRecord, Phase
    <2>3. \A s \in Runs : (HeldBy(j, s)' => HeldBy(j, s))
                          /\ (OpenRun(j, s)' => OpenRun(j, s))
        BY <1>0, <1>1, <2>1, <2>2, OneRunPlaces DEF HeldBy, Holding, OpenRun, RunRecord
    <2>4. CASE runs[r].job # j
        <3>1. jobs'[j] = jobs[j]
            BY <1>1, <1>3, <2>4 DEF Settle
        <3>2. QED
            BY <1>0, <2>1, <2>3, <3>1, UnmovedJobOK DEF JobOK, OnePlace
    <2>5. CASE runs[r].job = j
        <3>1. HeldBy(j, r)
            BY <2>1, <2>5 DEF HeldBy, Holding
        <3>2. OnePlace(j)'
            BY <1>0, <2>1, <2>3 DEF JobOK, OnePlace
        <3>3. ~Contains(unsettled, j) /\ \A q \in Queues : held[q] # j
            BY <1>0, <3>1 DEF JobOK, OnePlace
        <3>4. \A s \in Runs : OpenRun(j, s)' => s = r
            BY <1>0, <2>3, <3>1 DEF JobOK, OnePlace, HeldBy, Holding, OpenRun
        <3>5. ~OpenRun(j, r)'
            BY <1>1, <2>1 DEF OpenRun, RunRecord
        <3>6. StateFits(j)'
            BY <2>1, <3>3, <3>4, <3>5 DEF StateFits
        <3>7. QED
            BY <3>2, <3>6 DEF JobOK
    <2>6. QED
        BY <2>4, <2>5
<1>4. CASE FinallyReturns(r)
    <2>1. /\ runs' = [runs EXCEPT ![r] = [runs[r] EXCEPT !.phase = "abandoned"]]
          /\ runs[r].phase = "handled"
          /\ UNCHANGED <<held, unsettled, jobs>>
        BY <1>4 DEF FinallyReturns
    <2>2. [runs[r] EXCEPT !.phase = "abandoned"] \in RunRecord
        BY <1>1 DEF RunRecord, Phase
    <2>3. QED
        BY <1>0, <1>1, <1>2, <2>1, <2>2, OneRunPlaces DEF HeldBy, Holding, RunRecord
<1>5. CASE FinallyUpdates(r)
    <2> DEFINE x == runs[r].job
    <2>1. /\ runs' = [runs EXCEPT ![r] = [runs[r] EXCEPT !.phase = "updating"]]
          /\ runs[r].phase = "handled"
          /\ x \in Jobs /\ Update(x)
          /\ UNCHANGED <<held, jobs>>
        BY <1>5 DEF FinallyUpdates, IInv, RunsOK
    <2>2. [runs[r] EXCEPT !.phase = "updating"] \in RunRecord
        BY <1>1 DEF RunRecord, Phase
    <2>3. \A s \in Runs : (HeldBy(j, s)' => HeldBy(j, s))
                          /\ (OpenRun(j, s)' => OpenRun(j, s))
        BY <1>0, <1>1, <2>1, <2>2, OneRunPlaces DEF RunRecord
    <2>4. CASE x # j
        <3>1. /\ OnceIn(unsettled', j)
              /\ Contains(unsettled', j) => Contains(unsettled, j)
            BY <1>0, <2>1, <2>4, UpdateEntry DEF JobOK, OnePlace
        <3>2. QED
            BY <1>0, <2>1, <2>3, <3>1, UnmovedJobOK
    <2>5. CASE x = j
        <3>1. HeldBy(j, r)
            BY <2>1, <2>5 DEF HeldBy, Holding
        <3>2. ~Contains(unsettled, j) /\ \A q \in Queues : held[q] # j
            BY <1>0, <3>1 DEF JobOK, OnePlace
        <3>3. OnceIn(unsettled', j) /\ (Contains(unsettled', j) => jobs[j].state \in Waiting)
            BY <1>0, <2>1, <2>5, <3>2, UpdateEntry DEF JobOK, OnePlace
        <3>4. \A s \in Runs : HeldBy(j, s)' => s = r
            BY <1>0, <2>3, <3>1 DEF JobOK, OnePlace
        <3>5. ~HeldBy(j, r)'
            BY <1>1, <2>1 DEF HeldBy, Holding, RunRecord
        <3>6. \A s \in Runs : OpenRun(j, s)' => HeldBy(j, s)'
            BY DEF OpenRun, HeldBy, Holding
        <3>7. OnePlace(j)'
            BY <2>1, <3>2, <3>3, <3>4, <3>5 DEF OnePlace
        <3>8. StateFits(j)'
            BY <2>1, <3>2, <3>3, <3>4, <3>5, <3>6 DEF StateFits
        <3>9. QED
            BY <3>7, <3>8 DEF JobOK
    <2>6. QED
        BY <2>4, <2>5
<1>6. CASE RemoveFromActive(r)
    <2> DEFINE run == [runs[r] EXCEPT !.phase = "closed"]
    <2>1. run \in RunRecord /\ run.phase = "closed"
        BY <1>1 DEF RunRecord, Phase
    <2>2. runs' = [runs EXCEPT ![r] = Recycled(run)] /\ UNCHANGED <<held, unsettled, jobs>>
        BY <1>6 DEF RemoveFromActive
    <2> HIDE DEF run
    <2>3. Recycled(run) \in RunRecord /\ Recycled(run).phase \in {"closed", "idle"}
        BY <2>1, RecycledOK
    <2>4. QED
        BY <1>0, <1>2, <2>2, <2>3, OneRunPlaces
<1>7. CASE ProcessEnds(r)
    <2>1. CASE runs[r].phase = "racing"
        <3>1. PICK o \in {"value", "error"} :
                  runs' = [runs EXCEPT ![r] = [runs[r] EXCEPT !.phase = "resolved",
                                                              !.outcome = o,
                                                              !.working = FALSE]]
            BY <1>1, <1>7, <2>1 DEF ProcessEnds
        <3> DEFINE run == [runs[r] EXCEPT !.phase = "resolved",
                                          !.outcome = o, !.working = FALSE]
        <3>2. run \in RunRecord /\ run.job = runs[r].job
            BY <1>1 DEF RunRecord, Phase, Outcome
        <3>3. UNCHANGED <<held, unsettled, jobs>>
            BY <1>7 DEF ProcessEnds
        <3> HIDE DEF run
        <3>4. \A s \in Runs : (HeldBy(j, s)' => HeldBy(j, s))
                              /\ (OpenRun(j, s)' => OpenRun(j, s))
            BY <1>0, <2>1, <3>1, <3>2, OneRunPlaces DEF HeldBy, Holding, OpenRun, run
        <3>5. QED
            BY <1>2, <3>3, <3>4
    <2>2. CASE runs[r].phase # "racing"
        <3> DEFINE run == [runs[r] EXCEPT !.working = FALSE]
        <3>1. run \in RunRecord /\ run.job = runs[r].job /\ run.phase = runs[r].phase
            BY <1>1 DEF RunRecord
        <3>2. runs' = [runs EXCEPT ![r] = Recycled(run)] /\ UNCHANGED <<held, unsettled, jobs>>
            BY <1>7, <2>2 DEF ProcessEnds
        <3> HIDE DEF run
        <3>3. Recycled(run) \in RunRecord
            BY <3>1, RecycledOK
        <3>4. Recycled(run).job = j => Recycled(run) = run
            BY <1>0, <3>1, RecycledPlace
        <3>5. QED
            BY <1>0, <1>2, <3>1, <3>2, <3>3, <3>4, OneRunPlaces DEF HeldBy, Holding, OpenRun
    <2>3. QED
        BY <2>1, <2>2
<1>8. CASE CancellationTick(r)
    <2> DEFINE run == [runs[r] EXCEPT !.phase = "resolved", !.outcome = "cancelled"]
    <2>1. run \in RunRecord /\ run.job = runs[r].job
        BY <1>1 DEF RunRecord, Phase, Outcome
    <2>2. runs' = [runs EXCEPT ![r] = run] /\ runs[r].phase = "racing"
          /\ UNCHANGED <<held, unsettled, jobs>>
        BY <1>1, <1>8 DEF CancellationTick
    <2> HIDE DEF run
    <2>3. QED
        BY <1>0, <1>2, <2>1, <2>2, OneRunPlaces DEF HeldBy, Holding, OpenRun
<1>9. QED
    BY <1>3, <1>4, <1>5, <1>6, <1>7, <1>8

\* setProgress puts copies of its own job before the list, and of no other.
LEMMA ReportEntries ==
    ASSUME TypeOK, RunsOK, NEW r \in Runs, ReportProgress(r), NEW j \in Jobs
    PROVE  /\ runs[r].job \in Jobs \cap ReportingJobs
           /\ Contains(unsettled', j) => Contains(unsettled, j) \/ j = runs[r].job
           /\ OnceIn(unsettled, j) /\ j # runs[r].job => OnceIn(unsettled', j)
<1> DEFINE x == runs[r].job
           copies == [i \in 1..Cardinality(Listeners(x)) |-> x]
<1>1. x \in Jobs \cap ReportingJobs
    BY DEF ReportProgress, Listeners, RunsOK
<1>2. Cardinality(Listeners(x)) \in Nat
    <2>1. IsFiniteSet(Runs)
        BY FS_Interval, BoundAssumption DEF Runs
    <2>2. QED
        BY <2>1, FS_Subset, FS_CardinalityType DEF Listeners
<1>3. /\ copies \in Seq(Jobs)
      /\ \A i \in 1..Len(copies) : copies[i] = x
    BY <1>1, <1>2
<1>4. unsettled' = copies \o unsettled \/ unsettled' = unsettled
    BY DEF ReportProgress
<1> HIDE DEF copies, x
<1>5. CASE unsettled' = copies \o unsettled
    <2>1. unsettled \in Seq(Jobs) /\ x \in Jobs
        BY <1>1 DEF TypeOK
    <2>2. /\ Contains(copies \o unsettled, j) => Contains(unsettled, j) \/ j = x
          /\ OnceIn(unsettled, j) /\ j # x => OnceIn(copies \o unsettled, j)
        BY <1>3, <2>1, PrependCopies
    <2>3. QED
        BY <1>1, <1>5, <2>2 DEF x
<1>6. CASE unsettled' = unsettled
    BY <1>1, <1>6 DEF x
<1>7. QED
    BY <1>4, <1>5, <1>6

\* A step of anybody keeps a silent job in its one place.
LEMMA StepJobOK ==
    ASSUME IInv, Custody, Next, NEW j \in SilentJobs
    PROVE  JobOK(j)'
<1>0. j \in Jobs /\ JobOK(j) /\ TypeOK /\ RunsOK
    BY DEF SilentJobs, Custody, IInv
<1>1. ASSUME UNCHANGED <<held, unsettled, jobs, runs>>
      PROVE  JobOK(j)'
    BY <1>0, <1>1, UnmovedJobOK DEF JobOK, OnePlace, HeldBy, Holding, OpenRun
<1>2. ASSUME NEW k \in Jobs, CancelJobFinish(k)
      PROVE  JobOK(j)'
    <2>1. UNCHANGED <<held, unsettled, runs>>
        BY <1>2 DEF CancelJobFinish, loopVars
    <2>2. jobs'[j].state \in {jobs[j].state, "CANCELLED"}
        BY <1>0, <1>2 DEF CancelJobFinish, CancelJob, TypeOK, JobRecord
    <2>3. QED
        BY <1>0, <2>1, <2>2, UnmovedJobOK DEF JobOK, OnePlace, HeldBy, Holding, OpenRun
<1>3. ASSUME NEW q \in Queues, PollTimer(q)
      PROVE  JobOK(j)'
    <2>1. CallNext(q, Len(active[q])) /\ UNCHANGED runs /\ loop[q] = "timer"
        BY <1>3 DEF PollTimer
    <2>2. held[q] # j
        BY <1>0, <2>1 DEF Custody, Known, Jobs, NoJob
    <2>3. Looks(q, j)
        BY <1>0, <2>1, CallNextLooks
    <2>4. QED
        BY <1>0, <2>1, <2>2, <2>3, LooksJobOK DEF HeldBy, Holding, OpenRun
<1>4. ASSUME NEW q \in Queues, StopDrained(q) \/ StopTimedOut(q)
      PROVE  JobOK(j)'
    BY <1>1, <1>4 DEF StopDrained, StopTimedOut, adapterVars, loopVars
<1>5. ASSUME EvictSettledJobs
      PROVE  JobOK(j)'
    BY <1>1, <1>5 DEF EvictSettledJobs, loopVars
<1>6. ASSUME NEW r \in Runs, ReportProgress(r)
      PROVE  JobOK(j)'
    <2>1. j # runs[r].job
        BY <1>0, <1>6, ReportEntries DEF SilentJobs
    <2>2. /\ OnceIn(unsettled', j)
          /\ Contains(unsettled', j) => Contains(unsettled, j)
        BY <1>0, <1>6, <2>1, ReportEntries DEF JobOK, OnePlace
    <2>3. UNCHANGED <<held, jobs, runs>>
        BY <1>6 DEF ReportProgress, loopVars
    <2>4. QED
        BY <1>0, <2>2, <2>3, UnmovedJobOK DEF HeldBy, Holding, OpenRun
<1>7. QED
    BY <1>2, <1>3, <1>4, <1>5, <1>6, ClientJobOK, LoopJobOK, RunJobOK
       DEF Next, Microtask, Timer, Work

\* The entries and hands that next() makes are those of a job that was an entry.
LEMMA LooksKnown ==
    ASSUME TypeOK, Known, NEW q \in Queues, CallNext(q, 0) \/ EndPass(q)
                                            \/ \E n \in Nat : CallNext(q, n),
           UNCHANGED created
    PROVE  /\ \A j \in Jobs : Contains(unsettled', j) => j <= created'
           /\ \A k \in Queues : held'[k] <= created'
           /\ \A j \in Jobs : j > created' => jobs'[j].state = "PENDING"
           /\ \A k \in Queues : held'[k] # NoJob => loop'[k] \in {"next", "update"}
<1>1. \A j \in Jobs : Looks(q, j)
    BY CallNextLooks, EndPassLooks
<1>2. \A j \in Jobs : Contains(unsettled', j) => j <= created'
    BY <1>1 DEF Looks, Known
<1>3. held'[q] \in Jobs \cup {NoJob} /\ created \in Nat
    BY CallNextStep, EndPassStep, JobCountAssumption DEF AdapterStep, TypeOK
<1>4. held'[q] <= created'
    <2>1. CASE held'[q] = NoJob
        BY <1>3, <2>1 DEF NoJob
    <2>2. CASE held'[q] \in Jobs
        BY <1>1, <2>2 DEF Looks, Known
    <2>3. QED
        BY <1>3, <2>1, <2>2
<1>5. \A k \in Queues : held'[k] <= created'
    <2>1. \A k \in Queues \ {q} : held'[k] = held[k]
        BY CallNextStep, EndPassStep DEF AtNext, PassEnded
    <2>2. QED
        BY <1>4, <2>1 DEF Known
<1>6. \A j \in Jobs : j > created' => jobs'[j].state = "PENDING"
    <2> SUFFICES ASSUME NEW j \in Jobs, j > created
                 PROVE  jobs'[j] = jobs[j]
        BY DEF Known
    <2>1. ~Contains(unsettled, j)
        BY <1>3 DEF Known, Jobs
    <2>2. QED
        BY <1>1, <2>1 DEF Looks
<1>7. \A k \in Queues : held'[k] # NoJob => loop'[k] \in {"next", "update"}
    <2>1. \A k \in Queues \ {q} : held'[k] = held[k] /\ loop'[k] = loop[k]
        BY CallNextStep, EndPassStep DEF AtNext, PassEnded, TypeOK
    <2>2. held'[q] # NoJob => loop'[q] \in {"next", "update"}
        BY DEF CallNext, EndPass, TypeOK
    <2>3. QED
        BY <2>1, <2>2 DEF Known
<1>8. QED
    BY <1>2, <1>5, <1>6, <1>7

\* Nobody comes to know a job but by its being added.
LEMMA StepKnown ==
    ASSUME IInv, Known, Next
    PROVE  Known'
<1> USE DEF clientVars, adapterVars, loopVars
<1>0. /\ TypeOK /\ LoopOK /\ RunsOK
      /\ created \in Nat
    BY JobCountAssumption DEF IInv, TypeOK
<1>1. ASSUME NEW n \in RetryCounts, Add(n)
      PROVE  Known'
    <2> DEFINE x == created + 1
    <2>1. /\ x \in Jobs /\ created' = x
          /\ store' = store \cup {x}
          /\ unsettled' = Append(unsettled, x)
          /\ jobs' = [jobs EXCEPT ![x] = NewJob(n)]
          /\ UNCHANGED <<cancelling, held, runs, loop>>
        BY <1>1 DEF Add
    <2>2. \A j \in Jobs : Contains(unsettled', j) => j <= created'
        <3>1. \A j \in Jobs : Contains(unsettled', j) => Contains(unsettled, j) \/ j = x
            BY <1>0, <2>1, AppendEntry DEF TypeOK
        <3>2. \A j \in Jobs : j <= created => j <= x
            BY <1>0 DEF Jobs
        <3>3. QED
            BY <1>0, <2>1, <3>1, <3>2 DEF Known
    <2>3. store' \subseteq 1..created' /\ cancelling' \subseteq 1..created'
        <3>1. created' \in Nat /\ 1..created \subseteq 1..created' /\ x \in 1..created'
            BY <1>0, <2>1
        <3>2. QED
            BY <2>1, <3>1 DEF Known
    <2>4. \A q \in Queues : held'[q] <= created'
        <3>1. \A q \in Queues : held[q] \in Nat
            BY <1>0 DEF TypeOK, Jobs, NoJob
        <3>2. QED
            BY <1>0, <2>1, <3>1 DEF Known
    <2>5. \A r \in Runs : runs'[r].job <= created'
        <3>1. \A r \in Runs : runs[r].job \in Nat
            BY <1>0 DEF TypeOK, RunRecord, Jobs, NoJob
        <3>2. QED
            BY <1>0, <2>1, <3>1 DEF Known
    <2>6. \A j \in Jobs : j > created' => jobs'[j].state = "PENDING"
        BY <1>0, <2>1 DEF Known, TypeOK, Jobs
    <2>7. QED
        BY <2>1, <2>2, <2>3, <2>4, <2>5, <2>6 DEF Known
<1>2. ASSUME UNCHANGED <<created, unsettled, held>>,
             store' \subseteq 1..created, cancelling' \subseteq 1..created,
             \A j \in Jobs : j > created => jobs'[j] = jobs[j],
             \A q \in Queues : held[q] # NoJob => loop'[q] = loop[q],
             \A r \in Runs : runs'[r].job \in {runs[r].job, NoJob}
      PROVE  Known'
    BY <1>0, <1>2 DEF Known, NoJob
<1>3. ASSUME NEW j \in Jobs, CancelJobBegin(j) \/ CancelJobFinish(j)
      PROVE  Known'
    <2>1. j \in 1..created
        BY <1>3 DEF CancelJobBegin, CancelJobFinish, Known
    <2>2. \A k \in Jobs : k > created => jobs'[k] = jobs[k]
        BY <1>0, <1>3, <2>1 DEF CancelJobBegin, CancelJobFinish, TypeOK
    <2>3. QED
        BY <1>2, <1>3, <2>1, <2>2 DEF CancelJobBegin, CancelJobFinish, Known
<1>4. ASSUME RemoveSettledJobs \/ EvictSettledJobs
      PROVE  Known'
    BY <1>2, <1>4 DEF RemoveSettledJobs, EvictSettledJobs, Known
<1>5. ASSUME NEW p \in Processes, StopQueue(p)
      PROVE  Known'
    <2> DEFINE q == registered[p]
    <2>1. loop' = [loop EXCEPT ![q] = IF @ = "timer" THEN "ended" ELSE @]
        BY <1>5 DEF StopQueue, StopActiveQueue
    <2>2. \A k \in Queues : held[k] # NoJob => loop'[k] = loop[k]
        BY <1>0, <2>1 DEF Known, TypeOK
    <2>3. \A r \in Runs : runs'[r].job = runs[r].job
        BY <1>0, <1>5 DEF StopQueue, StopActiveQueue, TypeOK, RunRecord
    <2>4. QED
        BY <1>2, <1>5, <2>2, <2>3 DEF StopQueue, StopActiveQueue, Known
<1>6. ASSUME NEW q \in Queues, NEW n \in Nat, CallNext(q, n) \/ EndPass(q),
             UNCHANGED <<created, store, cancelling>>,
             \A r \in Runs : runs'[r].job \in {runs[r].job, held[q]}
      PROVE  Known'
    <2>1. /\ \A j \in Jobs : Contains(unsettled', j) => j <= created'
          /\ \A k \in Queues : held'[k] <= created'
          /\ \A j \in Jobs : j > created' => jobs'[j].state = "PENDING"
          /\ \A k \in Queues : held'[k] # NoJob => loop'[k] \in {"next", "update"}
        BY <1>0, <1>6, LooksKnown
    <2>2. \A r \in Runs : runs'[r].job <= created'
        BY <1>6 DEF Known
    <2>3. QED
        BY <1>6, <2>1, <2>2 DEF Known
<1>7. ASSUME NEW p \in Processes, StartQueue(p)
      PROVE  Known'
    BY <1>6, <1>7 DEF StartQueue, StartActiveQueue
<1>8. ASSUME NEW q \in Queues, PollTimer(q)
      PROVE  Known'
    <2>1. Len(active[q]) \in Nat
        BY <1>0, LenProperties DEF TypeOK
    <2>2. QED
        BY <1>6, <1>8, <2>1 DEF PollTimer
<1>9. ASSUME NEW x \in Jobs, x \in 1..created, Update(x),
             UNCHANGED <<created, cancelling, jobs, held>>,
             \A q \in Queues : held[q] # NoJob => loop'[q] \in {"next", "update"},
             \A r \in Runs : runs'[r].job = runs[r].job
      PROVE  Known'
    <2>1. \A j \in Jobs : Contains(unsettled', j) => j <= created'
        BY <1>0, <1>9, UpdateEntry DEF Known
    <2>2. store' \subseteq 1..created'
        BY <1>9 DEF Update, Known
    <2>3. QED
        BY <1>9, <2>1, <2>2 DEF Known
<1>10. ASSUME NEW q \in Queues, Accept(q)
       PROVE  Known'
    <2>1. held[q] \in Jobs /\ held[q] \in 1..created
        BY <1>0, <1>10 DEF Accept, TypeOK, Known, Jobs
    <2>2. \A k \in Queues : held[k] # NoJob => loop'[k] \in {"next", "update"}
        BY <1>0, <1>10 DEF Accept, Known, TypeOK
    <2>3. QED
        BY <1>9, <1>10, <2>1, <2>2 DEF Accept
<1>11. ASSUME NEW q \in Queues, NothingToDo(q) \/ Launch(q) \/ LaunchThrows(q)
       PROVE  Known'
    <2>1. index[q] + 1 \in Nat
        BY <1>0, ConcurrencyAssumption DEF TypeOK
    <2>2. \E n \in Nat : CallNext(q, n) \/ EndPass(q)
        BY <1>11, <2>1 DEF NothingToDo, Launch, LaunchThrows, Continue
    <2>3. \A r \in Runs : runs'[r].job \in {runs[r].job, held[q]}
        BY <1>0, <1>11 DEF NothingToDo, Launch, LaunchThrows, TypeOK
    <2>4. QED
        BY <1>6, <1>11, <2>2, <2>3 DEF NothingToDo, Launch, LaunchThrows
<1>12. ASSUME NEW r \in Runs, Settle(r) \/ FinallyReturns(r) \/ FinallyUpdates(r)
       PROVE  Known'
    <2>1. runs[r].job \in Jobs /\ runs[r].job \in 1..created
        BY <1>0, <1>12 DEF Settle, FinallyReturns, FinallyUpdates, RunsOK, Known, Jobs
    <2>2. \A s \in Runs : runs'[s].job = runs[s].job
        <3>1. PICK phase : runs' = [runs EXCEPT ![r].phase = phase]
            BY <1>12 DEF Settle, FinallyReturns, FinallyUpdates
        <3>2. QED
            BY <1>0, <3>1 DEF TypeOK, RunRecord
    <2>3. CASE FinallyUpdates(r)
        BY <1>9, <2>1, <2>2, <2>3 DEF FinallyUpdates, Known
    <2>4. CASE FinallyReturns(r)
        BY <1>2, <2>2, <2>4 DEF FinallyReturns, Known
    <2>5. CASE Settle(r)
        <3>1. \A k \in Jobs : k > created => jobs'[k] = jobs[k]
            BY <1>0, <2>1, <2>5 DEF Settle, TypeOK
        <3>2. QED
            BY <1>2, <2>2, <2>5, <3>1 DEF Settle, Known
    <2>6. QED
        BY <1>12, <2>3, <2>4, <2>5
<1>13. ASSUME NEW r \in Runs,
              RemoveFromActive(r) \/ ProcessEnds(r) \/ CancellationTick(r)
       PROVE  Known'
    <2>1. \A s \in Runs : runs'[s].job \in {runs[s].job, NoJob}
        <3>1. PICK run : runs' = [runs EXCEPT ![r] = run] /\ run.job \in {runs[r].job, NoJob}
            <4>0. runs[r] \in RunRecord /\ runs \in [Runs -> RunRecord]
                BY <1>0 DEF TypeOK
            <4>1. CASE RemoveFromActive(r)
                <5> DEFINE new == [runs[r] EXCEPT !.phase = "closed"]
                <5>1. new \in RunRecord /\ new.job = runs[r].job
                    BY <4>0 DEF RunRecord, Phase
                <5>2. runs' = [runs EXCEPT ![r] = Recycled(new)]
                    BY <4>1 DEF RemoveFromActive
                <5> HIDE DEF new
                <5>3. Recycled(new).job \in {runs[r].job, NoJob}
                    BY <5>1 DEF Recycled, IdleRun
                <5>4. QED
                    BY <5>2, <5>3
            <4>2. CASE ProcessEnds(r) /\ runs[r].phase # "racing"
                BY <4>0, <4>2 DEF ProcessEnds, Recycled, IdleRun, RunRecord
            <4>3. CASE ProcessEnds(r) /\ runs[r].phase = "racing"
                <5>1. PICK o \in {"value", "error"} :
                          runs' = [runs EXCEPT ![r] = [runs[r] EXCEPT !.phase = "resolved",
                                                                      !.outcome = o,
                                                                      !.working = FALSE]]
                    BY <4>0, <4>3 DEF ProcessEnds
                <5>2. [runs[r] EXCEPT !.phase = "resolved", !.outcome = o,
                                      !.working = FALSE].job = runs[r].job
                    BY <4>0 DEF RunRecord
                <5>3. QED
                    BY <5>1, <5>2
            <4>4. CASE CancellationTick(r)
                <5>1. runs' = [runs EXCEPT ![r] = [runs[r] EXCEPT !.phase = "resolved",
                                                                  !.outcome = "cancelled"]]
                    BY <4>0, <4>4 DEF CancellationTick
                <5>2. [runs[r] EXCEPT !.phase = "resolved", !.outcome = "cancelled"].job
                          = runs[r].job
                    BY <4>0 DEF RunRecord
                <5>3. QED
                    BY <5>1, <5>2
            <4>5. QED
                BY <1>13, <4>1, <4>2, <4>3, <4>4
        <3>2. QED
            BY <1>0, <3>1 DEF TypeOK
    <2>2. QED
        BY <1>2, <1>13, <2>1 DEF RemoveFromActive, ProcessEnds, CancellationTick, Known
<1>14. ASSUME NEW r \in Runs, ReportProgress(r)
       PROVE  Known'
    <2>1. runs[r].job \in Jobs /\ runs[r].job \in 1..created
        BY <1>0, <1>14 DEF ReportProgress, Listeners, RunsOK, Known, Jobs
    <2>2. \A j \in Jobs : Contains(unsettled', j) => j <= created'
        BY <1>0, <1>14, <2>1, ReportEntries DEF Known, ReportProgress
    <2>3. QED
        BY <1>14, <2>1, <2>2 DEF ReportProgress, Known
<1>15. ASSUME NEW q \in Queues, StopDrained(q) \/ StopTimedOut(q)
       PROVE  Known'
    BY <1>2, <1>15 DEF StopDrained, StopTimedOut, Known
<1>16. QED
    BY <1>1, <1>3, <1>4, <1>5, <1>7, <1>8, <1>10, <1>11, <1>12, <1>13, <1>14, <1>15
       DEF Next, Client, Microtask, Timer, Work

-----------------------------------------------------------------------------
(* The theorems about custody.                                             *)

\* Nobody has a job at first.
LEMMA InitCustody == Init => Custody
<1> SUFFICES ASSUME Init PROVE Custody
    OBVIOUS
<1>1. /\ created = 0 /\ store = {} /\ cancelling = {} /\ unsettled = <<>>
      /\ \A j \in Jobs : jobs[j].state = "PENDING"
      /\ \A q \in Queues : held[q] = NoJob
      /\ \A r \in Runs : runs[r] = IdleRun
    BY DEF Init, InitAdapter, InitStrategy, InitActiveQueues, NewJob
<1>2. ~ \E i \in 1..Len(unsettled) : TRUE
    BY <1>1
<1>3. DOMAIN unsettled = {}
    BY <1>1
<1>4. Known
    BY <1>1, <1>2 DEF Known, Contains, NoJob, IdleRun
<1>5. \A j \in Jobs : JobOK(j)
    BY <1>1, <1>2, <1>3 DEF JobOK, OnePlace, StateFits, OnceIn, Contains, HeldBy, Holding,
                            OpenRun, IdleRun, NoJob, Jobs
<1>6. QED
    BY <1>4, <1>5 DEF Custody, SilentJobs

\* Every step keeps the custody.
LEMMA StepCustody == IInv /\ Custody /\ [Next]_vars => Custody'
<1> SUFFICES ASSUME IInv, Custody, [Next]_vars PROVE Custody'
    OBVIOUS
<1>1. CASE Next
    BY <1>1, StepJobOK, StepKnown DEF Custody, SilentJobs
<1>2. CASE UNCHANGED vars
    BY <1>2 DEF vars, clientVars, adapterVars, loopVars, Custody, Known, SilentJobs, JobOK,
                OnePlace, StateFits, HeldBy, Holding, OpenRun
<1>3. QED
    BY <1>1, <1>2

\* The custody is inductive, with the invariant of PollingQueue_proofs.
LEMMA CustodyCorrect == Spec => [](IInv /\ Custody)
<1>1. Init => IInv /\ Custody
    BY InitIInv, InitCustody
<1>2. IInv /\ Custody /\ [Next]_vars => (IInv /\ Custody)'
    BY StepIInv, StepCustody
<1>3. QED
    BY <1>1, <1>2, PTL DEF Spec

\* stop() gives a job back while its process function still works, and the loop
\* starts it again meanwhile; yet a job is always one entry, or in the hand of one
\* loop, or kept by one run, for any number of stops, restarts and cancellations.
THEOREM SingleCustodyCorrect == Spec => []SingleCustody
<1>1. IInv /\ Custody => SingleCustody
    BY CustodyIsSingle DEF IInv
<1>2. QED
    BY <1>1, CustodyCorrect, PTL

\* A step that changes a job which is over cancels it.
LEMMA StepFinal ==
    ASSUME IInv, Custody, [Next]_vars, NEW j \in SilentJobs,
           jobs[j].state \in {"COMPLETED", "FAILED"}
    PROVE  jobs'[j].state \in {jobs[j].state, "CANCELLED"}
<1> USE DEF clientVars, adapterVars, loopVars
<1>0. j \in Jobs /\ JobOK(j) /\ TypeOK /\ jobs[j].state \notin Waiting
    BY DEF SilentJobs, Custody, IInv, Waiting
<1>1. ASSUME NEW n \in RetryCounts, Add(n)
      PROVE  jobs'[j] = jobs[j]
    <2>1. j # created + 1
        BY <1>0, JobCountAssumption DEF Custody, Known, TypeOK, Jobs
    <2>2. QED
        BY <1>0, <1>1, <2>1 DEF Add, TypeOK
<1>2. ASSUME NEW q \in Queues, Looks(q, j)
      PROVE  jobs'[j] = jobs[j]
    BY <1>0, <1>2 DEF Looks, StartJob
<1>3. ASSUME NEW p \in Processes, StartQueue(p)
      PROVE  jobs'[j] = jobs[j]
    BY <1>0, <1>2, <1>3, CallNextLooks DEF StartQueue, StartActiveQueue
<1>4. ASSUME NEW q \in Queues,
             \/ PollTimer(q) \/ NothingToDo(q) \/ Launch(q) \/ LaunchThrows(q)
      PROVE  jobs'[j] = jobs[j]
    BY <1>0, <1>2, <1>4, CallNextLooks, ContinueLooks, EndPassLooks
       DEF PollTimer, NothingToDo, Launch, LaunchThrows
<1>5. ASSUME NEW r \in Runs, Settle(r)
      PROVE  jobs'[j] = jobs[j]
    <2>1. runs[r].job # j
        BY <1>0, <1>5 DEF Settle, JobOK, StateFits, OpenRun, Taken
    <2>2. QED
        BY <1>0, <1>5, <2>1 DEF Settle, TypeOK
<1>6. ASSUME NEW k \in Jobs, CancelJobFinish(k)
      PROVE  jobs'[j].state \in {jobs[j].state, "CANCELLED"}
    BY <1>0, <1>6 DEF CancelJobFinish, CancelJob, TypeOK, JobRecord
<1>7. ASSUME \/ \E k \in Jobs : CancelJobBegin(k)
             \/ RemoveSettledJobs \/ EvictSettledJobs
             \/ \E p \in Processes : StopQueue(p)
             \/ \E q \in Queues : Accept(q) \/ StopDrained(q) \/ StopTimedOut(q)
             \/ \E r \in Runs : \/ FinallyReturns(r) \/ FinallyUpdates(r)
                                \/ RemoveFromActive(r) \/ ProcessEnds(r)
                                \/ CancellationTick(r) \/ ReportProgress(r)
             \/ UNCHANGED vars
      PROVE  jobs'[j] = jobs[j]
    BY <1>7 DEF CancelJobBegin, RemoveSettledJobs, EvictSettledJobs, StopQueue,
                StopActiveQueue, Accept, StopDrained, StopTimedOut, FinallyReturns,
                FinallyUpdates, RemoveFromActive, ProcessEnds, CancellationTick,
                ReportProgress, vars
<1>8. QED
    BY <1>1, <1>3, <1>4, <1>5, <1>6, <1>7 DEF Next, Client, Microtask, Timer, Work

\* Late answers of process functions, restarts and timers never reopen a job that
\* COMPLETED or FAILED, for any number of runs of the job.
THEOREM FinishedIsFinalCorrect == Spec => FinishedIsFinal
<1>1. IInv /\ Custody /\ [Next]_vars =>
          [\A j \in Jobs \ ReportingJobs :
              jobs[j].state \in {"COMPLETED", "FAILED"} =>
                 jobs'[j].state \in {jobs[j].state, "CANCELLED"}]_vars
    BY StepFinal DEF SilentJobs
<1>2. QED
    BY <1>1, CustodyCorrect, PTL DEF Spec, FinishedIsFinal

-----------------------------------------------------------------------------
(* The queue is a WorkQueue.                                               *)

HasClaim(j, q) == held[q] = j \/ \E r \in Runs : HeldBy(j, r) /\ runs[r].queue = q

ClaimedJobs == {claim[1] : claim \in Claims}

Gone == (1..created) \ (ToSet(unsettled) \cup ClaimedJobs)

\* The state of the WorkQueue, element by element.
LEMMA AbstractState ==
    TypeOK /\ RunsOK =>
        /\ ToSet(unsettled) = {j \in Jobs : Contains(unsettled, j)}
        /\ Claims = {c \in Jobs \X Queues : HasClaim(c[1], c[2])}
        /\ ClaimedJobs = {j \in Jobs : \E q \in Queues : HasClaim(j, q)}
<1> SUFFICES ASSUME TypeOK, RunsOK
             PROVE  /\ ToSet(unsettled) = {j \in Jobs : Contains(unsettled, j)}
                    /\ Claims = {c \in Jobs \X Queues : HasClaim(c[1], c[2])}
                    /\ ClaimedJobs = {j \in Jobs : \E q \in Queues : HasClaim(j, q)}
    OBVIOUS
<1>1. ToSet(unsettled) = {j \in Jobs : Contains(unsettled, j)}
    <2>1. DOMAIN unsettled = 1..Len(unsettled)
          /\ \A i \in 1..Len(unsettled) : unsettled[i] \in Jobs
        BY LenProperties, ElementOfSeq DEF TypeOK
    <2>2. QED
        BY <2>1 DEF ToSet, Contains
<1>2. Claims \subseteq Jobs \X Queues
    BY DEF Claims, TypeOK, RunsOK, Holding
<1>3. ASSUME NEW j \in Jobs, NEW q \in Queues
      PROVE  <<j, q>> \in Claims <=> HasClaim(j, q)
    <2>1. j # NoJob
        BY DEF Jobs, NoJob
    <2>2. QED
        BY <2>1 DEF Claims, HasClaim, HeldBy
<1>4. Claims = {c \in Jobs \X Queues : HasClaim(c[1], c[2])}
    BY <1>2, <1>3
<1>5. ClaimedJobs = {j \in Jobs : \E q \in Queues : HasClaim(j, q)}
    <2> HIDE DEF HasClaim
    <2>1. ASSUME NEW j \in Jobs, NEW q \in Queues, HasClaim(j, q)
          PROVE  j \in ClaimedJobs
        <3>1. <<j, q>> \in Claims /\ <<j, q>>[1] = j
            BY <1>3, <2>1
        <3>2. QED
            BY <3>1 DEF ClaimedJobs
    <2>2. ASSUME NEW j \in ClaimedJobs
          PROVE  j \in Jobs /\ \E q \in Queues : HasClaim(j, q)
        <3>1. PICK c \in Claims : j = c[1]
            BY DEF ClaimedJobs
        <3>2. QED
            BY <1>4, <3>1
    <2>3. QED
        BY <2>1, <2>2
<1>6. QED
    BY <1>1, <1>4, <1>5

\* So it is after a step.
LEMMA AbstractStateAfter ==
    (TypeOK /\ RunsOK)' =>
        /\ ToSet(unsettled') = {j \in Jobs : Contains(unsettled', j)}
        /\ Claims' = {c \in Jobs \X Queues : HasClaim(c[1], c[2])'}
        /\ ClaimedJobs' = {j \in Jobs : \E q \in Queues : HasClaim(j, q)'}
<1>1. (TypeOK /\ RunsOK =>
          /\ ToSet(unsettled) = {j \in Jobs : Contains(unsettled, j)}
          /\ Claims = {c \in Jobs \X Queues : HasClaim(c[1], c[2])}
          /\ ClaimedJobs = {j \in Jobs : \E q \in Queues : HasClaim(j, q)})'
    BY AbstractState, PTL
<1>2. QED
    BY <1>1

\* A step of this module, in the variables of the WorkQueue.
LEMMA AbstractStep ==
    ASSUME IInv, IInv', WorkQueueOfJobs!Next \/ UNCHANGED <<ToSet(unsettled), Claims, Gone>>
    PROVE  [WorkQueueOfJobs!Next]_(WorkQueueOfJobs!vars)
BY DEF WorkQueueOfJobs!vars, Gone, ClaimedJobs

\* No list, no claim and no new job: a stutter.
LEMMA NothingMoves ==
    ASSUME IInv, IInv', created' = created,
           \A j \in Jobs : Contains(unsettled', j) <=> Contains(unsettled, j),
           \A j \in Jobs, q \in Queues : HasClaim(j, q)' <=> HasClaim(j, q)
    PROVE  UNCHANGED <<ToSet(unsettled), Claims, Gone>>
<1>1. (TypeOK /\ RunsOK) /\ (TypeOK /\ RunsOK)'
    BY DEF IInv
<1> HIDE DEF HasClaim
<1>2. ToSet(unsettled') = ToSet(unsettled) /\ ClaimedJobs' = ClaimedJobs
    BY <1>1, AbstractState, AbstractStateAfter
<1>3. Claims' = Claims
    BY <1>1, AbstractState, AbstractStateAfter
<1>4. QED
    BY <1>2, <1>3 DEF Gone

\* A new entry of a job nobody knew: Submit.
LEMMA Submits ==
    ASSUME IInv, IInv', Known, NEW x \in Jobs, x = created + 1, created' = x,
           \A j \in Jobs : Contains(unsettled', j) <=> Contains(unsettled, j) \/ j = x,
           \A j \in Jobs, q \in Queues : HasClaim(j, q)' <=> HasClaim(j, q)
    PROVE  WorkQueueOfJobs!Next
<1>1. (TypeOK /\ RunsOK) /\ (TypeOK /\ RunsOK)' /\ created \in Nat
    BY JobCountAssumption DEF IInv, TypeOK
<1>2. ~(x <= created) /\ x \notin 1..created /\ 1..created' = (1..created) \cup {x}
    BY <1>1
<1>3. ~Contains(unsettled, x) /\ \A q \in Queues : ~HasClaim(x, q)
    BY <1>2 DEF Known, HasClaim, HeldBy
<1> HIDE DEF HasClaim
<1>4. /\ ToSet(unsettled') = ToSet(unsettled) \cup {x}
      /\ ClaimedJobs' = ClaimedJobs
      /\ x \notin ToSet(unsettled) \cup ClaimedJobs
    BY <1>1, <1>3, AbstractState, AbstractStateAfter
<1>5. Claims' = Claims
    BY <1>1, AbstractState, AbstractStateAfter
<1>6. Gone' = Gone /\ x \notin Gone
    BY <1>2, <1>4 DEF Gone
<1>7. WorkQueueOfJobs!Submit(x)
    BY <1>4, <1>5, <1>6 DEF WorkQueueOfJobs!Submit, WorkQueueOfJobs!Claimed, Gone, ClaimedJobs
<1>8. QED
    BY <1>7 DEF WorkQueueOfJobs!Next

\* The one entry of a job becomes the claim of a queue: Claim.
LEMMA Claimed ==
    ASSUME IInv, IInv', created' = created, NEW x \in Jobs, NEW w \in Queues,
           Contains(unsettled, x), \A q \in Queues : ~HasClaim(x, q),
           \A j \in Jobs : Contains(unsettled', j) <=> Contains(unsettled, j) /\ j # x,
           \A j \in Jobs, q \in Queues :
               HasClaim(j, q)' <=> HasClaim(j, q) \/ (j = x /\ q = w)
    PROVE  WorkQueueOfJobs!Next
<1>1. (TypeOK /\ RunsOK) /\ (TypeOK /\ RunsOK)'
    BY DEF IInv
<1> HIDE DEF HasClaim
<1>2. /\ ToSet(unsettled') = ToSet(unsettled) \ {x}
      /\ ClaimedJobs' = ClaimedJobs \cup {x}
      /\ x \in ToSet(unsettled) /\ x \notin ClaimedJobs
    BY <1>1, AbstractState, AbstractStateAfter
<1>3. Claims' = Claims \cup {<<x, w>>}
    BY <1>1, AbstractState, AbstractStateAfter
<1>4. Gone' = Gone
    BY <1>2 DEF Gone
<1>5. WorkQueueOfJobs!Claim(x)
    BY <1>2, <1>3, <1>4 DEF WorkQueueOfJobs!Claim, WorkQueueOfJobs!Claimed, Gone, ClaimedJobs
<1>6. QED
    BY <1>5 DEF WorkQueueOfJobs!Next

\* The one claim to a job goes, to the list or for ever: GiveBack or Finish.
LEMMA LetGo ==
    ASSUME IInv, IInv', created' = created, NEW x \in Jobs, x \in 1..created,
           NEW w \in Queues,
           ~Contains(unsettled, x), \A q \in Queues : HasClaim(x, q) <=> q = w,
           \A j \in Jobs \ {x} : Contains(unsettled', j) <=> Contains(unsettled, j),
           \A j \in Jobs, q \in Queues : HasClaim(j, q)' <=> HasClaim(j, q) /\ j # x
    PROVE  WorkQueueOfJobs!Next
<1>1. (TypeOK /\ RunsOK) /\ (TypeOK /\ RunsOK)'
    BY DEF IInv
<1> HIDE DEF HasClaim
<1>2. /\ ClaimedJobs' = ClaimedJobs \ {x}
      /\ x \notin ToSet(unsettled) /\ x \in ClaimedJobs
    BY <1>1, AbstractState, AbstractStateAfter
<1>3. Claims' = Claims \ {<<x, w>>} /\ <<x, w>> \in Claims
    <2>1. /\ Claims = {c \in Jobs \X Queues : HasClaim(c[1], c[2])}
          /\ Claims' = {c \in Jobs \X Queues : HasClaim(c[1], c[2]) /\ c[1] # x}
        BY <1>1, AbstractState, AbstractStateAfter
    <2>2. \A c \in Jobs \X Queues : HasClaim(c[1], c[2]) =>
              (c[1] # x <=> c # <<x, w>>)
        OBVIOUS
    <2>3. <<x, w>> \in Claims
        BY <2>1
    <2>4. QED
        BY <2>1, <2>2, <2>3
<1>4. CASE Contains(unsettled', x)
    <2>1. ToSet(unsettled') = ToSet(unsettled) \cup {x}
        BY <1>1, <1>4, AbstractState, AbstractStateAfter
    <2>2. Gone' = Gone
        BY <1>2, <2>1 DEF Gone
    <2>3. WorkQueueOfJobs!GiveBack(x)
        BY <1>3, <2>1, <2>2 DEF WorkQueueOfJobs!GiveBack, Gone, ClaimedJobs
    <2>4. QED
        BY <2>3 DEF WorkQueueOfJobs!Next
<1>5. CASE ~Contains(unsettled', x)
    <2>1. ToSet(unsettled') = ToSet(unsettled)
        <3>1. \A j \in Jobs : Contains(unsettled', j) <=> Contains(unsettled, j)
            BY <1>5
        <3>2. QED
            BY <1>1, <3>1, AbstractState, AbstractStateAfter
    <2>2. Gone' = Gone \cup {x}
        BY <1>2, <2>1 DEF Gone
    <2>3. WorkQueueOfJobs!Finish(x)
        BY <1>3, <2>1, <2>2 DEF WorkQueueOfJobs!Finish, Gone, ClaimedJobs
    <2>4. QED
        BY <2>3 DEF WorkQueueOfJobs!Next
<1>6. QED
    BY <1>4, <1>5

\* A loop that looks takes a job or none; if it has launched one, the claim of its
\* hand is that of the run now.
LEMMA LoopRefines ==
    ASSUME IInv, IInv', Custody, SilentJobs = Jobs, NEW q \in Queues, created' = created,
           \A j \in Jobs : Looks(q, j),
           held'[q] \in Jobs \cup {NoJob},
           \A j \in Jobs, k \in Queues :
               HasClaim(j, k)' <=> HasClaim(j, k) \/ (k = q /\ held'[q] = j)
    PROVE  \/ WorkQueueOfJobs!Next
           \/ UNCHANGED <<ToSet(unsettled), Claims, Gone>>
<1>0. \A j \in Jobs : j # NoJob
    BY DEF Jobs, NoJob
<1>1. CASE held'[q] = NoJob
    <2>1. \A j \in Jobs : held'[q] # j
        BY <1>0, <1>1
    <2>2. \A j \in Jobs : Contains(unsettled', j) <=> Contains(unsettled, j)
        BY <2>1 DEF Looks
    <2>3. \A j \in Jobs, k \in Queues : HasClaim(j, k)' <=> HasClaim(j, k)
        BY <2>1
    <2>4. QED
        BY <2>2, <2>3, NothingMoves
<1>2. CASE held'[q] \in Jobs
    <2> DEFINE x == held'[q]
    <2>1. x \in Jobs /\ JobOK(x)
        BY <1>2 DEF Custody
    <2>2. Contains(unsettled, x) /\ ~Contains(unsettled', x)
        BY <2>1 DEF Looks, JobOK, OnePlace
    <2>3. \A k \in Queues : ~HasClaim(x, k)
        BY <2>1, <2>2 DEF JobOK, OnePlace, HasClaim
    <2>4. \A j \in Jobs : Contains(unsettled', j) <=> Contains(unsettled, j) /\ j # x
        BY <2>2 DEF Looks
    <2>5. \A j \in Jobs, k \in Queues :
              HasClaim(j, k)' <=> HasClaim(j, k) \/ (j = x /\ k = q)
        OBVIOUS
    <2> HIDE DEF x
    <2>6. QED
        BY <2>1, <2>2, <2>3, <2>4, <2>5, Claimed
<1>3. QED
    BY <1>1, <1>2

\* The runs that keep a job go on keeping it for their queue.
LEMMA SameClaims ==
    ASSUME UNCHANGED held,
           \A r \in Runs : /\ Holding(r)' <=> Holding(r)
                           /\ Holding(r) => /\ runs'[r].job = runs[r].job
                                            /\ runs'[r].queue = runs[r].queue
    PROVE  \A j \in Jobs, q \in Queues : HasClaim(j, q)' <=> HasClaim(j, q)
BY DEF HasClaim, HeldBy

\* Every step of this module is a step of the WorkQueue or none.
LEMMA StepRefines ==
    ASSUME IInv, IInv', Custody, Next, ReportingJobs = {}
    PROVE  [WorkQueueOfJobs!Next]_(WorkQueueOfJobs!vars)
<1> USE DEF clientVars, adapterVars, loopVars
<1>0. /\ TypeOK /\ RunsOK /\ Known /\ SilentJobs = Jobs
      /\ \A j \in Jobs : JobOK(j) /\ j # NoJob
      /\ runs \in [Runs -> RunRecord]
      /\ held \in [Queues -> Jobs \cup {NoJob}]
      /\ held' \in [Queues -> Jobs \cup {NoJob}]
    BY DEF IInv, TypeOK, Custody, SilentJobs, Jobs, NoJob
<1> DEFINE Refines == \/ WorkQueueOfJobs!Next
                      \/ UNCHANGED <<ToSet(unsettled), Claims, Gone>>
<1> SUFFICES Refines
    BY AbstractStep
<1>1. ASSUME UNCHANGED <<created, unsettled, held>>,
             \A r \in Runs : /\ Holding(r)' <=> Holding(r)
                             /\ Holding(r) => /\ runs'[r].job = runs[r].job
                                              /\ runs'[r].queue = runs[r].queue
      PROVE  Refines
    BY <1>1, NothingMoves, SameClaims
<1>2. ASSUME NEW r \in Runs, NEW new \in RunRecord,
             UNCHANGED <<created, unsettled, held>>,
             runs' = [runs EXCEPT ![r] = new],
             \/ /\ Holding(r)
                /\ new.phase \in {"racing", "resolved", "handled", "abandoned", "leaked"}
                /\ new.job = runs[r].job /\ new.queue = runs[r].queue
             \/ /\ ~Holding(r)
                /\ new.phase \in {"idle", "updating", "closed"}
      PROVE  Refines
    BY <1>0, <1>1, <1>2 DEF Holding
<1>3. ASSUME NEW n \in RetryCounts, Add(n)
      PROVE  Refines
    <2> DEFINE x == created + 1
    <2>1. /\ x \in Jobs /\ created' = x /\ unsettled' = Append(unsettled, x)
          /\ UNCHANGED <<held, runs>>
        BY <1>3 DEF Add
    <2>2. \A j \in Jobs : Contains(unsettled', j) <=> Contains(unsettled, j) \/ j = x
        BY <1>0, <2>1, AppendEntry DEF TypeOK
    <2>3. \A j \in Jobs, q \in Queues : HasClaim(j, q)' <=> HasClaim(j, q)
        BY <2>1, SameClaims DEF Holding
    <2>4. x = created + 1
        OBVIOUS
    <2> HIDE DEF x
    <2>5. QED
        BY <1>0, <2>1, <2>2, <2>3, <2>4, Submits
<1>4. ASSUME \/ \E j \in Jobs : CancelJobBegin(j) \/ CancelJobFinish(j)
             \/ RemoveSettledJobs \/ EvictSettledJobs
             \/ \E q \in Queues : StopDrained(q) \/ StopTimedOut(q)
      PROVE  Refines
    <2>1. UNCHANGED <<created, unsettled, held, runs>>
        BY <1>4 DEF CancelJobBegin, CancelJobFinish, RemoveSettledJobs, EvictSettledJobs,
                    StopDrained, StopTimedOut
    <2>2. QED
        BY <1>1, <2>1 DEF Holding
<1>5. ASSUME NEW p \in Processes, StopQueue(p)
      PROVE  Refines
    <2>1. UNCHANGED <<created, unsettled, held>>
        BY <1>5 DEF StopQueue, StopActiveQueue
    <2>2. \A r \in Runs : \/ runs'[r] = runs[r]
                          \/ /\ runs[r].phase = "racing" /\ runs'[r].phase = "resolved"
                             /\ runs'[r].job = runs[r].job
                             /\ runs'[r].queue = runs[r].queue
        BY <1>0, <1>5 DEF StopQueue, StopActiveQueue, RunRecord
    <2>3. QED
        BY <1>1, <2>1, <2>2 DEF Holding
<1>6. ASSUME NEW q \in Queues, held[q] = NoJob,
             CallNext(q, 0) \/ (\E n \in Nat : CallNext(q, n)) \/ EndPass(q),
             UNCHANGED <<created, runs>>
      PROVE  Refines
    <2>1. \A j \in Jobs : Looks(q, j)
        BY <1>0, <1>6, CallNextLooks, EndPassLooks
    <2>2. \A k \in Queues \ {q} : held'[k] = held[k]
        BY <1>0, <1>6 DEF CallNext, EndPass
    <2>3. \A j \in Jobs, k \in Queues :
              HasClaim(j, k)' <=> HasClaim(j, k) \/ (k = q /\ held'[q] = j)
        BY <1>0, <1>6, <2>2 DEF HasClaim, HeldBy, Holding
    <2>4. QED
        BY <1>0, <1>6, <2>1, <2>3, LoopRefines
<1>7. ASSUME NEW p \in Processes, StartQueue(p)
      PROVE  Refines
    <2>1. PICK q \in Queues : loop[q] = "unused" /\ CallNext(q, 0) /\ UNCHANGED <<created, runs>>
        BY <1>7 DEF StartQueue, StartActiveQueue
    <2>2. held[q] = NoJob
        BY <1>0, <2>1 DEF Known
    <2>3. QED
        BY <1>6, <2>1, <2>2
<1>8. ASSUME NEW q \in Queues, PollTimer(q) \/ NothingToDo(q)
      PROVE  Refines
    <2>1. held[q] = NoJob /\ UNCHANGED <<created, runs>>
        BY <1>0, <1>8 DEF PollTimer, NothingToDo, Known
    <2>2. Len(active[q]) \in Nat /\ index[q] + 1 \in Nat
        BY <1>0, LenProperties, ConcurrencyAssumption DEF TypeOK
    <2>3. (\E n \in Nat : CallNext(q, n)) \/ EndPass(q)
        BY <1>8, <2>2 DEF PollTimer, NothingToDo, Continue
    <2>4. QED
        BY <1>6, <2>1, <2>3
<1>9. ASSUME NEW q \in Queues, Launch(q) \/ LaunchThrows(q)
      PROVE  Refines
    <2>0. PICK new : \E r \in Runs :
              /\ runs[r].phase = "idle"
              /\ runs' = [runs EXCEPT ![r] = new]
              /\ new.job = held[q] /\ new.queue = q /\ new.phase \in {"racing", "leaked"}
        <3>1. CASE Launch(q)
            <4> DEFINE new == [job |-> held[q], queue |-> q, phase |-> "racing",
                               outcome |-> "none", working |-> TRUE]
            <4>1. PICK r \in Runs :
                      runs[r].phase = "idle" /\ runs' = [runs EXCEPT ![r] = new]
                BY <3>1 DEF Launch
            <4>2. new.job = held[q] /\ new.queue = q /\ new.phase = "racing"
                OBVIOUS
            <4> HIDE DEF new
            <4>3. QED
                BY <4>1, <4>2
        <3>2. CASE LaunchThrows(q)
            <4> DEFINE new == [job |-> held[q], queue |-> q, phase |-> "leaked",
                               outcome |-> "error", working |-> FALSE]
            <4>1. PICK r \in Runs :
                      runs[r].phase = "idle" /\ runs' = [runs EXCEPT ![r] = new]
                BY <3>2 DEF LaunchThrows
            <4>2. new.job = held[q] /\ new.queue = q /\ new.phase = "leaked"
                OBVIOUS
            <4> HIDE DEF new
            <4>3. QED
                BY <4>1, <4>2
        <3>3. QED
            BY <1>9, <3>1, <3>2
    <2>1. PICK r \in Runs :
              /\ runs[r].phase = "idle"
              /\ runs' = [runs EXCEPT ![r] = new]
              /\ new.job = held[q] /\ new.queue = q /\ new.phase \in {"racing", "leaked"}
        BY <2>0
    <2>2. Continue(q) \/ EndPass(q)
        BY <1>9 DEF Launch, LaunchThrows
    <2>3. \A j \in Jobs : Looks(q, j)
        BY <1>0, <2>2, ContinueLooks, EndPassLooks
    <2>4. \A k \in Queues \ {q} : held'[k] = held[k]
        BY <1>0, <2>2 DEF Continue, CallNext, EndPass
    <2>5. /\ runs'[r] = new /\ \A s \in Runs \ {r} : runs'[s] = runs[s]
          /\ ~Holding(r) /\ Holding(r)'
        BY <1>0, <2>1 DEF Holding
    <2>6. ASSUME NEW j \in Jobs, NEW k \in Queues
          PROVE  (\E s \in Runs : HeldBy(j, s)' /\ runs'[s].queue = k)
                   <=> \/ \E s \in Runs : HeldBy(j, s) /\ runs[s].queue = k
                       \/ j = held[q] /\ k = q
        BY <2>1, <2>5 DEF HeldBy, Holding
    <2>7. ASSUME NEW j \in Jobs, NEW k \in Queues
          PROVE  HasClaim(j, k)' <=> HasClaim(j, k) \/ (k = q /\ held'[q] = j)
        <3>1. HasClaim(j, k)' <=> \/ held'[k] = j
                                  \/ \E s \in Runs : HeldBy(j, s)' /\ runs'[s].queue = k
            BY DEF HasClaim
        <3>2. HasClaim(j, k) <=> \/ held[k] = j
                                 \/ \E s \in Runs : HeldBy(j, s) /\ runs[s].queue = k
            BY DEF HasClaim
        <3>3. QED
            BY <2>4, <2>6, <3>1, <3>2
    <2>8. created' = created
        BY <1>9 DEF Launch, LaunchThrows
    <2>9. QED
        BY <1>0, <2>3, <2>7, <2>8, LoopRefines
<1>10. ASSUME NEW q \in Queues, Accept(q)
       PROVE  Refines
    <2>1. held[q] \in Jobs /\ Update(held[q]) /\ UNCHANGED <<created, held, runs>>
        BY <1>0, <1>10 DEF Accept
    <2>2. jobs[held[q]].state \notin Waiting
        BY <1>0, <2>1 DEF JobOK, StateFits, Taken, Waiting
    <2>3. unsettled' = unsettled
        BY <2>1, <2>2 DEF Update
    <2>4. QED
        BY <1>1, <2>1, <2>3 DEF Holding
<1>11. ASSUME NEW r \in Runs, FinallyUpdates(r)
       PROVE  Refines
    <2>0. runs[r].job \in Jobs /\ runs[r].queue \in Queues
        BY <1>0, <1>11 DEF FinallyUpdates, RunsOK
    <2> PICK x \in Jobs, w \in Queues : x = runs[r].job /\ w = runs[r].queue
        BY <2>0
    <2>1. /\ runs[r].phase = "handled"
          /\ Update(x)
          /\ runs' = [runs EXCEPT ![r].phase = "updating"]
          /\ UNCHANGED <<created, held>>
        BY <1>11 DEF FinallyUpdates
    <2>2. x \in 1..created
        BY <1>0, <2>1 DEF Known, Jobs
    <2>3. HeldBy(x, r)
        BY <2>1 DEF HeldBy, Holding
    <2>4. /\ ~Contains(unsettled, x) /\ \A q \in Queues : held[q] # x
          /\ \A s \in Runs : HeldBy(x, s) => s = r
        BY <1>0, <2>1, <2>3 DEF JobOK, OnePlace
    <2>5. \A q \in Queues : HasClaim(x, q) <=> q = w
        BY <2>3, <2>4 DEF HasClaim
    <2>6. \A j \in Jobs \ {x} : Contains(unsettled', j) <=> Contains(unsettled, j)
        BY <1>0, <2>1, PrependEntry DEF Update, TypeOK
    <2>7. /\ runs'[r] = [runs[r] EXCEPT !.phase = "updating"]
          /\ \A s \in Runs \ {r} : runs'[s] = runs[s]
        BY <1>0, <2>1
    <2>8. ~Holding(r)' /\ \A s \in Runs \ {r} : Holding(s)' <=> Holding(s)
        <3>1. runs'[r].phase = "updating"
            BY <1>0, <2>7 DEF RunRecord
        <3>2. QED
            BY <2>7, <3>1 DEF Holding
    <2>9. ASSUME NEW j \in Jobs, NEW q \in Queues
          PROVE  HasClaim(j, q)' <=> HasClaim(j, q) /\ j # x
        <3>1. CASE j = x
            <4>1. \A s \in Runs : ~HeldBy(x, s)'
                BY <2>4, <2>7, <2>8 DEF HeldBy
            <4>2. QED
                BY <2>1, <2>4, <3>1, <4>1 DEF HasClaim
        <3>2. CASE j # x
            <4>1. ~HeldBy(j, r) /\ ~HeldBy(j, r)'
                BY <1>0, <2>7, <2>8, <3>2 DEF HeldBy
            <4>2. \A s \in Runs \ {r} : /\ HeldBy(j, s)' <=> HeldBy(j, s)
                                        /\ runs'[s].queue = runs[s].queue
                BY <2>7, <2>8 DEF HeldBy
            <4>3. QED
                BY <2>1, <3>2, <4>1, <4>2 DEF HasClaim
        <3>3. QED
            BY <3>1, <3>2
    <2>10. QED
        BY <2>1, <2>2, <2>4, <2>5, <2>6, <2>9, LetGo
<1>12. ASSUME NEW r \in Runs, Settle(r) \/ FinallyReturns(r)
       PROVE  Refines
    <2>1. PICK phase \in {"handled", "abandoned"} :
              runs' = [runs EXCEPT ![r] = [runs[r] EXCEPT !.phase = phase]]
        BY <1>12 DEF Settle, FinallyReturns
    <2> DEFINE new == [runs[r] EXCEPT !.phase = phase]
    <2>2. /\ new \in RunRecord /\ new.phase = phase
          /\ new.job = runs[r].job /\ new.queue = runs[r].queue
        BY <1>0 DEF RunRecord, Phase
    <2>3. Holding(r) /\ UNCHANGED <<created, unsettled, held>>
        BY <1>12 DEF Settle, FinallyReturns, Holding
    <2>4. runs' = [runs EXCEPT ![r] = new]
        BY <2>1
    <2> HIDE DEF new
    <2>5. QED
        BY <1>2, <2>2, <2>3, <2>4 DEF Phase
<1>13. ASSUME NEW r \in Runs, RemoveFromActive(r)
       PROVE  Refines
    <2> DEFINE closed == [runs[r] EXCEPT !.phase = "closed"]
    <2>1. closed \in RunRecord /\ closed.phase = "closed"
        BY <1>0 DEF RunRecord, Phase
    <2>2. runs' = [runs EXCEPT ![r] = Recycled(closed)]
        BY <1>13 DEF RemoveFromActive
    <2> HIDE DEF closed
    <2>3. Recycled(closed) \in RunRecord /\ Recycled(closed).phase \in {"idle", "closed"}
        BY <2>1, RecycledOK
    <2>4. ~Holding(r) /\ UNCHANGED <<created, unsettled, held>>
        BY <1>13 DEF RemoveFromActive, Holding
    <2>5. QED
        BY <1>2, <2>2, <2>3, <2>4 DEF Phase
<1>14. ASSUME NEW r \in Runs, CancellationTick(r) \/ (ProcessEnds(r) /\ runs[r].phase = "racing")
       PROVE  Refines
    <2>1. PICK o \in {"value", "error", "cancelled"}, b \in BOOLEAN :
              runs' = [runs EXCEPT ![r] = [runs[r] EXCEPT !.phase = "resolved",
                                                          !.outcome = o, !.working = b]]
        <3>1. CASE CancellationTick(r)
            <4>1. [runs[r] EXCEPT !.phase = "resolved", !.outcome = "cancelled"]
                    = [runs[r] EXCEPT !.phase = "resolved", !.outcome = "cancelled",
                                      !.working = runs[r].working]
                BY <1>0 DEF RunRecord
            <4>2. runs' = [runs EXCEPT ![r] = [runs[r] EXCEPT !.phase = "resolved",
                                                              !.outcome = "cancelled"]]
                BY <1>0, <3>1 DEF CancellationTick
            <4>3. runs[r].working \in BOOLEAN
                BY <1>0 DEF RunRecord
            <4>4. QED
                BY <4>1, <4>2, <4>3
        <3>2. CASE ProcessEnds(r) /\ runs[r].phase = "racing"
            BY <1>0, <3>2 DEF ProcessEnds
        <3>3. QED
            BY <1>14, <3>1, <3>2
    <2> DEFINE new == [runs[r] EXCEPT !.phase = "resolved", !.outcome = o, !.working = b]
    <2>2. /\ new \in RunRecord /\ new.phase = "resolved"
          /\ new.job = runs[r].job /\ new.queue = runs[r].queue
        BY <1>0 DEF RunRecord, Phase, Outcome
    <2>3. Holding(r) /\ UNCHANGED <<created, unsettled, held>>
        BY <1>14 DEF CancellationTick, ProcessEnds, Holding
    <2>4. runs' = [runs EXCEPT ![r] = new]
        BY <2>1
    <2> HIDE DEF new
    <2>5. QED
        BY <1>2, <2>2, <2>3, <2>4 DEF Phase
<1>15. ASSUME NEW r \in Runs, ProcessEnds(r), runs[r].phase # "racing"
       PROVE  Refines
    <2> DEFINE ended == [runs[r] EXCEPT !.working = FALSE]
    <2>1. /\ ended \in RunRecord /\ ended.phase = runs[r].phase
          /\ ended.job = runs[r].job /\ ended.queue = runs[r].queue
        BY <1>0 DEF RunRecord
    <2>2. runs' = [runs EXCEPT ![r] = Recycled(ended)]
        BY <1>15 DEF ProcessEnds
    <2> HIDE DEF ended
    <2>3. /\ Recycled(ended) \in RunRecord
          /\ Recycled(ended) = ended \/ (ended.phase = "closed" /\ Recycled(ended) = IdleRun)
        BY <2>1, RecycledOK DEF Recycled
    <2>4. UNCHANGED <<created, unsettled, held>> /\ IdleRun.phase = "idle"
        BY <1>15 DEF ProcessEnds, IdleRun
    <2>5. runs[r].phase \in Phase
        BY <1>0 DEF RunRecord
    <2>6. QED
        BY <1>2, <2>1, <2>2, <2>3, <2>4, <2>5 DEF Phase, Holding
<1>16. ~ \E r \in Runs : ReportProgress(r)
    BY DEF ReportProgress
<1>17. QED
    BY <1>3, <1>4, <1>5, <1>7, <1>8, <1>9, <1>10, <1>11, <1>12, <1>13, <1>14, <1>15, <1>16
       DEF Next, Client, Microtask, Timer, Work

\* The queue gives its jobs out as a WorkQueue does, for any number of jobs,
\* ActiveQueues and process functions, if none of these reports progress.
THEOREM QueueIsWorkQueue ==
    ASSUME ReportingJobs = {}
    PROVE  Spec => ImplementsWorkQueue
<1>1. Init => WorkQueueOfJobs!Init
    <2> SUFFICES ASSUME Init PROVE WorkQueueOfJobs!Init
        OBVIOUS
    <2>1. /\ created = 0 /\ unsettled = <<>>
          /\ \A q \in Queues : held[q] = NoJob
          /\ \A r \in Runs : ~Holding(r)
        BY DEF Init, InitAdapter, InitStrategy, InitActiveQueues, Holding, IdleRun
    <2>2. ToSet(unsettled) = {}
        BY <2>1 DEF ToSet
    <2>3. Claims = {}
        BY <2>1 DEF Claims
    <2>4. (1..created) = {}
        BY <2>1
    <2>5. QED
        BY <2>2, <2>3, <2>4 DEF WorkQueueOfJobs!Init
<1>2. IInv /\ Custody /\ IInv' /\ [Next]_vars =>
          [WorkQueueOfJobs!Next]_(WorkQueueOfJobs!vars)
    <2>1. CASE UNCHANGED vars
        BY <2>1 DEF vars, clientVars, adapterVars, loopVars, WorkQueueOfJobs!vars, Claims,
                    Holding
    <2>2. QED
        BY <2>1, StepRefines
<1>3. QED
    BY <1>1, <1>2, CustodyCorrect, PTL DEF Spec, ImplementsWorkQueue, WorkQueueOfJobs!Spec

=============================================================================
