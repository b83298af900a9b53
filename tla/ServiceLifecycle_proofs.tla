---------------------- MODULE ServiceLifecycle_proofs ----------------------
(***************************************************************************)
(* Proofs about ServiceLifecycle, for every finite set of queues, every    *)
(* choice of activeQueues and any number of calls.                         *)
(***************************************************************************)
EXTENDS ServiceLifecycle, SequenceTheorems, FiniteSetTheorems,
        WellFoundedInduction, TLAPS

-----------------------------------------------------------------------------
(* The inductive invariant.                                                *)

\* No entry of a list occurs twice.
Distinct(s) == \A i, k \in DOMAIN s : s[i] = s[k] => i = k

Types ==
    /\ awaited \in Awaiting
    /\ isStarted \in BOOLEAN
    /\ queues \in Seq(Queues)
    /\ creating \in [Queues -> {"no", "starting", "created"}]
    /\ starting \in [Calls -> {"no", "initializing", "arming", "looping", "done"}]
    /\ at \in [Calls -> Nat \ {0}]
    /\ stopping \in [Calls -> {"no", "draining", "clearing", "done"}]
    /\ running \in SUBSET Queues
    /\ initialized \in BOOLEAN
    /\ started \in Seq(Queues)
    /\ active \in SUBSET Queues
    /\ timers \in SUBSET Calls
    /\ timer \in Calls \cup {NoTimer}

\* Both lists hold a queue at most once, so that no loop goes further than the
\* number of queues; a start() that has not come to its loop is at its beginning.
Bounds ==
    /\ Distinct(queues)
    /\ Distinct(started)
    /\ \A c \in Calls : /\ at[c] <= Cardinality(Queues) + 1
                        /\ starting[c] \in {"no", "arming"} => at[c] = 1

\* createQueue() registers a queue at its end, and until then stop() does not
\* reach the queue.
Created ==
    \A q \in Queues :
        /\ creating[q] # "created" => \A i \in DOMAIN queues : queues[i] # q
        /\ creating[q] = "starting" => q \in running

\* A registered queue of a started service runs, or some start() has not come
\* to it yet.
StartedOrAhead ==
    isStarted =>
        \A i \in DOMAIN queues :
            ShouldStartQueue(queues[i]) =>
                \/ queues[i] \in running
                \/ \E c \in Calls : starting[c] \in {"initializing", "arming"}
                \/ \E c \in Calls : starting[c] = "looping" /\ at[c] <= i

\* With start() and stop() awaited one call is in progress at most, start() only
\* while the service is started and stop() only while it is not.
OneCall ==
    awaited =>
        /\ active = running
        /\ started = <<>>
        /\ initialized <=> \/ isStarted
                           \/ \E c \in Calls : stopping[c] = "draining"
        /\ \A c \in Calls :
              /\ starting[c] # "initializing"
              /\ starting[c] \in {"arming", "looping"} => isStarted
              /\ stopping[c] \in {"draining", "clearing"} => ~isStarted
        /\ \A c, d \in Calls :
              /\ starting[c] = "arming" /\ starting[d] = "arming" => c = d
              /\ /\ stopping[c] \in {"draining", "clearing"}
                 /\ stopping[d] \in {"draining", "clearing"}
                 => c = d

\* Then there is one eviction timer, from the moment init() arms it until destroy()
\* clears it.
Armed ==
    /\ isStarted \/ \E c \in Calls : stopping[c] \in {"draining", "clearing"}
    /\ \A c \in Calls : starting[c] # "arming"

OneTimer == awaited => timers = IF Armed THEN {timer} ELSE {}

IInv == Types /\ Bounds /\ Created /\ StartedOrAhead /\ OneCall /\ OneTimer

-----------------------------------------------------------------------------
(* Facts about lists and sets.                                             *)

\* A set of natural numbers that is not empty has a least element, and Min is it.
LEMMA MinIsLeast ==
    ASSUME NEW S, S \subseteq Nat, S # {}
    PROVE  Min(S) \in S /\ \A y \in S : Min(S) <= y
<1> DEFINE Less == {ss \in Nat \X Nat : ss[1] < ss[2]}
<1>1. Less = OpToRel(<, Nat)
    BY DEF OpToRel
<1>2. PICK x \in S : \A y \in S : ~ (<<y, x>> \in Less)
    <2>1. IsWellFoundedOn(Less, Nat)
        BY <1>1, NatLessThanWellFounded
    <2> HIDE DEF Less
    <2>2. QED
        BY <2>1, WFMin
<1>3. ASSUME NEW y \in S PROVE x <= y
    <2>1. ~ (y < x)
        BY <1>2
    <2>2. QED
        BY <2>1
<1>4. QED
    BY <1>3 DEF Min

\* A list without repetition is no longer than the number of queues.
LEMMA DistinctIsShort ==
    ASSUME NEW s \in Seq(Queues), Distinct(s)
    PROVE  Len(s) <= Cardinality(Queues) /\ Cardinality(Queues) \in Nat
<1>1. s \in Injection(1..Len(s), Queues)
    <2>1. s \in [1..Len(s) -> Queues]
        OBVIOUS
    <2>2. \A i, k \in 1..Len(s) : s[i] = s[k] => i = k
        BY DEF Distinct
    <2>3. QED
        BY <2>1, <2>2 DEF Injection, IsInjective
<1>2. /\ Cardinality(1..Len(s)) <= Cardinality(Queues)
      /\ Cardinality(Queues) \in Nat
    BY <1>1, FS_Injection, FS_CardinalityType, QueuesAssumption
<1>3. Cardinality(1..Len(s)) = Len(s)
    <2>1. Len(s) \in Nat /\ 1 \in Int
        OBVIOUS
    <2>2. Cardinality(1..Len(s)) = IF 1 > Len(s) THEN 0 ELSE Len(s) - 1 + 1
        BY <2>1, FS_Interval
    <2>3. QED
        BY <2>1, <2>2
<1>4. QED
    BY <1>2, <1>3

\* An entry that is new to a list without repetition leaves it so.
LEMMA AppendDistinct ==
    ASSUME NEW s \in Seq(Queues), Distinct(s), NEW q \in Queues,
           \A i \in DOMAIN s : s[i] # q
    PROVE  Append(s, q) \in Seq(Queues) /\ Distinct(Append(s, q))
<1> DEFINE t == Append(s, q)
<1>1. /\ t \in Seq(Queues) /\ Len(t) = Len(s) + 1
      /\ \A i \in 1..Len(s) : t[i] = s[i]
      /\ t[Len(s) + 1] = q
    BY AppendProperties
<1>2. DOMAIN t = 1..(Len(s) + 1) /\ DOMAIN s = 1..Len(s) /\ Len(s) \in Nat
    BY <1>1
<1> HIDE DEF t
<1>3. ASSUME NEW i \in DOMAIN t, NEW k \in DOMAIN t, t[i] = t[k]
      PROVE  i = k
    <2>1. CASE i \in DOMAIN s /\ k \in DOMAIN s
        BY <1>1, <1>2, <1>3, <2>1 DEF Distinct
    <2>2. CASE i = Len(s) + 1 \/ k = Len(s) + 1
        BY <1>1, <1>2, <1>3, <2>2
    <2>3. QED
        BY <1>2, <2>1, <2>2
<1>4. QED
    BY <1>1, <1>3 DEF Distinct, t

\* AdapterStart adds the queue to the adapter, as one that is served or one that
\* is noted down, and keeps the list of these without repetition.
LEMMA AdapterStartOK ==
    ASSUME Types, Distinct(started), NEW q \in Queues, AdapterStart(q)
    PROVE  /\ active' \in SUBSET Queues
           /\ started' \in Seq(Queues)
           /\ Distinct(started')
           /\ initialized => active' = active \cup {q} /\ started' = started
<1>1. CASE initialized
    BY <1>1 DEF AdapterStart, Types
<1>2. CASE ~initialized /\ Contains(started, q)
    BY <1>2 DEF AdapterStart, Types
<1>3. CASE ~initialized /\ ~Contains(started, q)
    <2>1. started' = Append(started, q) /\ active' = active
        BY <1>3 DEF AdapterStart
    <2>2. \A i \in DOMAIN started : started[i] # q
        BY <1>3 DEF Contains, Types
    <2>3. QED
        BY <1>3, <2>1, <2>2, AppendDistinct DEF Types
<1>4. QED
    BY <1>1, <1>2, <1>3

-----------------------------------------------------------------------------
(* The invariant holds in the initial state.                               *)

\* No queue, no call, an adapter that is not initialized.
LEMMA InitIInv == Init => IInv
<1> SUFFICES ASSUME Init PROVE IInv
    OBVIOUS
<1>1. Types
    <2>1. /\ awaited \in Awaiting
          /\ isStarted \in BOOLEAN
          /\ initialized \in BOOLEAN
        BY DEF Init
    <2>2. /\ queues \in Seq(Queues)
          /\ started \in Seq(Queues)
        BY DEF Init
    <2>3. /\ creating \in [Queues -> {"no", "starting", "created"}]
          /\ starting \in [Calls -> {"no", "initializing", "arming", "looping", "done"}]
          /\ stopping \in [Calls -> {"no", "draining", "clearing", "done"}]
        BY DEF Init
    <2>4. at \in [Calls -> Nat \ {0}]
        BY DEF Init
    <2>5. QED
        BY <2>1, <2>2, <2>3, <2>4 DEF Init, Types
<1>2. Bounds
    <2>1. Distinct(<<>>)
        BY DEF Distinct
    <2>2. Cardinality(Queues) \in Nat
        BY FS_CardinalityType, QueuesAssumption
    <2>3. QED
        BY <2>1, <2>2 DEF Init, Bounds
<1>3. QED
    BY <1>1, <1>2 DEF Init, IInv, Created, StartedOrAhead, OneCall, OneTimer, Armed

-----------------------------------------------------------------------------
(* createQueue().                                                          *)

\* createQueue() up to its first await, of a service that is or is not started.
LEMMA CreateQueueIInv ==
    ASSUME IInv, NEW q \in Queues, CreateQueue(q)
    PROVE  IInv'
<1> USE DEF IInv
<1>0. \A i \in DOMAIN queues : queues[i] # q
    BY DEF CreateQueue, Created
<1>1. CASE isStarted /\ ShouldStartQueue(q)
    <2>0. /\ AdapterStart(q)
          /\ running' = running \cup {q}
          /\ creating' = [creating EXCEPT ![q] = "starting"]
          /\ UNCHANGED <<awaited, isStarted, queues, starting, at, stopping,
                         initialized, timers, timer>>
        BY <1>1 DEF CreateQueue, StartQueue, timerVars
    <2>1. Types' /\ Distinct(started')
        BY <2>0, AdapterStartOK DEF Types, Bounds
    <2>2. Bounds'
        BY <2>0, <2>1 DEF Bounds
    <2>3. Created'
        BY <2>0, <1>0 DEF Created, Types
    <2>4. StartedOrAhead'
        BY <2>0 DEF StartedOrAhead, ShouldStartQueue
    <2>5. OneCall'
        BY <1>1, <2>0, AdapterStartOK DEF OneCall, Types, Bounds
    <2>6. OneTimer'
        BY <2>0 DEF OneTimer, Armed
    <2>7. QED
        BY <2>1, <2>2, <2>3, <2>4, <2>5, <2>6
<1>2. CASE ~(isStarted /\ ShouldStartQueue(q))
    <2>0. /\ queues' = Append(queues, q)
          /\ creating' = [creating EXCEPT ![q] = "created"]
          /\ UNCHANGED <<awaited, isStarted, starting, at, stopping, running,
                         initialized, started, active, timers, timer>>
        BY <1>2 DEF CreateQueue, timerVars
    <2>1. queues' \in Seq(Queues) /\ Distinct(queues')
        BY <2>0, <1>0, AppendDistinct DEF Types, Bounds
    <2>a. /\ Len(queues') = Len(queues) + 1
          /\ \A i \in DOMAIN queues : queues'[i] = queues[i]
          /\ queues'[Len(queues) + 1] = q
          /\ DOMAIN queues' = 1..(Len(queues) + 1)
          /\ DOMAIN queues = 1..Len(queues)
        BY <2>0, <2>1, AppendProperties DEF Types
    <2>2. Types' /\ Bounds'
        BY <2>0, <2>1 DEF Types, Bounds
    <2>3. Created'
        BY <2>0, <2>a DEF Created, Types
    <2>4. StartedOrAhead'
        <3> SUFFICES ASSUME isStarted, NEW i \in DOMAIN queues',
                            ShouldStartQueue(queues'[i])
                     PROVE  \/ queues'[i] \in running
                            \/ \E c \in Calls : starting[c] \in {"initializing", "arming"}
                            \/ \E c \in Calls : starting[c] = "looping" /\ at[c] <= i
            BY <2>0 DEF StartedOrAhead, ShouldStartQueue
        <3>1. i # Len(queues) + 1
            BY <1>2, <2>a
        <3>2. i \in DOMAIN queues /\ queues'[i] = queues[i]
            BY <2>a, <3>1 DEF Types
        <3>3. QED
            BY <3>2 DEF StartedOrAhead
    <2>5. OneCall' /\ OneTimer'
        BY <2>0 DEF OneCall, OneTimer, Armed
    <2>6. QED
        BY <2>2, <2>3, <2>4, <2>5
<1>3. QED
    BY <1>1, <1>2

\* The queue is registered when it is started.
LEMMA CreateQueueEndsIInv ==
    ASSUME IInv, NEW q \in Queues, CreateQueueEnds(q)
    PROVE  IInv'
<1> USE DEF IInv
<1>0. \A i \in DOMAIN queues : queues[i] # q
    BY DEF CreateQueueEnds, Created
<1>1. /\ queues' = Append(queues, q)
      /\ creating' = [creating EXCEPT ![q] = "created"]
      /\ UNCHANGED <<awaited, isStarted, starting, at, stopping, running,
                     initialized, started, active, timers, timer>>
    BY DEF CreateQueueEnds, timerVars
<1>2. queues' \in Seq(Queues) /\ Distinct(queues')
    BY <1>0, <1>1, AppendDistinct DEF Types, Bounds
<1>3. /\ Len(queues') = Len(queues) + 1
      /\ \A i \in DOMAIN queues : queues'[i] = queues[i]
      /\ queues'[Len(queues) + 1] = q
      /\ DOMAIN queues' = 1..(Len(queues) + 1)
      /\ DOMAIN queues = 1..Len(queues)
    BY <1>1, <1>2, AppendProperties DEF Types
<1>4. Types' /\ Bounds'
    BY <1>1, <1>2 DEF Types, Bounds
<1>5. Created'
    BY <1>1, <1>3 DEF Created, Types
<1>6. StartedOrAhead'
    <2>1. q \in running
        BY DEF CreateQueueEnds, Created
    <2>2. QED
        BY <1>1, <1>3, <2>1 DEF StartedOrAhead, ShouldStartQueue, Types
<1>7. OneCall' /\ OneTimer'
    BY <1>1 DEF OneCall, OneTimer, Armed
<1>8. QED
    BY <1>4, <1>5, <1>6, <1>7

-----------------------------------------------------------------------------
(* start().                                                                *)

\* start() up to its first await: a call appears that has every queue ahead.
LEMMA StartIInv ==
    ASSUME IInv, NEW c \in Calls, Start(c)
    PROVE  IInv'
<1> USE DEF IInv
<1>0. /\ ~isStarted /\ isStarted' /\ initialized' = TRUE
      /\ starting[c] = "no" /\ at[c] = 1
      /\ UNCHANGED <<awaited, queues, creating, stopping, running, timers, timer>>
    BY DEF Start, NextCall, Bounds, timerVars
<1>a. awaited => /\ started = <<>> /\ ~initialized /\ timers = {}
                 /\ \A d \in Calls : /\ starting[d] \in {"no", "done"}
                                     /\ stopping[d] \in {"no", "done"}
    BY <1>0 DEF OneCall, OneTimer, Armed, Start, MayCall
<1>1. CASE initialized \/ started = <<>>
    <2>0. /\ starting' = [starting EXCEPT
                            ![c] = IF initialized THEN "looping" ELSE "arming"]
          /\ UNCHANGED <<at, started, active>>
        BY <1>1 DEF Start
    <2>1. Types'
        BY <1>0, <2>0 DEF Types
    <2>2. Bounds' /\ Created'
        BY <1>0, <2>0 DEF Types, Bounds, Created
    <2>3. StartedOrAhead'
        <3>1. starting'[c] \in {"looping", "arming"} /\ at'[c] = 1
            BY <1>0, <2>0 DEF Types
        <3>2. \A i \in DOMAIN queues' : at'[c] <= i
            BY <1>0, <3>1 DEF Types
        <3>3. QED
            BY <3>1, <3>2 DEF StartedOrAhead
    <2>4. awaited => /\ starting'[c] = "arming"
                     /\ \A d \in Calls \ {c} : starting'[d] \in {"no", "done"}
        BY <1>a, <2>0 DEF Types
    <2>5. OneCall'
        BY <1>0, <1>a, <2>0, <2>4 DEF OneCall
    <2>6. OneTimer'
        BY <1>0, <1>a, <2>4 DEF OneTimer, Armed
    <2>7. QED
        BY <2>1, <2>2, <2>3, <2>5, <2>6
<1>2. CASE ~(initialized \/ started = <<>>)
    <2>0. /\ starting' = [starting EXCEPT ![c] = "initializing"]
          /\ at' = [at EXCEPT ![c] = 2]
          /\ active' = active \cup {Head(started)}
          /\ UNCHANGED started
        BY <1>2 DEF Start
    <2>1. Types'
        BY <1>0, <1>2, <2>0 DEF Types
    <2>2. Bounds'
        <3>1. Len(started) <= Cardinality(Queues) /\ Cardinality(Queues) \in Nat
            BY DistinctIsShort DEF Types, Bounds
        <3>2. Len(started) \in Nat \ {0}
            BY <1>2 DEF Types
        <3>3. QED
            BY <1>0, <2>0, <3>1, <3>2 DEF Types, Bounds
    <2>3. Created'
        BY <1>0, <2>0 DEF Types, Created
    <2>4. StartedOrAhead'
        <3>1. starting'[c] = "initializing"
            BY <1>0, <2>0 DEF Types
        <3>2. QED
            BY <3>1 DEF StartedOrAhead
    <2>5. OneCall' /\ OneTimer'
        BY <1>0, <1>2, <1>a DEF OneCall, OneTimer
    <2>6. QED
        BY <2>1, <2>2, <2>3, <2>4, <2>5
<1>3. QED
    BY <1>1, <1>2

\* doInit() goes on: the call keeps every registered queue ahead of it.
LEMMA InitializingIInv ==
    ASSUME IInv, NEW c \in Calls, Initializing(c)
    PROVE  IInv'
<1> USE DEF IInv
<1>0. /\ starting[c] = "initializing" /\ ~awaited /\ DoInit(c, at[c])
      /\ UNCHANGED <<awaited, isStarted, queues, creating, stopping, running,
                     initialized, timers, timer>>
    BY DEF Initializing, OneCall, timerVars
<1>1. OneCall' /\ OneTimer'
    BY <1>0 DEF OneCall, OneTimer
<1>2. CASE at[c] <= Len(started)
    <2>0. /\ AdapterStart(started[at[c]])
          /\ starting' = [starting EXCEPT ![c] = "initializing"]
          /\ at' = [at EXCEPT ![c] = at[c] + 1]
        BY <1>0, <1>2 DEF DoInit
    <2>1. started[at[c]] \in Queues
        BY <1>2 DEF Types
    <2>2. Types' /\ Distinct(started')
        BY <1>0, <2>0, <2>1, AdapterStartOK DEF Types, Bounds
    <2>3. Bounds'
        <3>1. Len(started) <= Cardinality(Queues) /\ Cardinality(Queues) \in Nat
            BY DistinctIsShort DEF Types, Bounds
        <3>2. QED
            BY <1>0, <1>2, <2>0, <2>2, <3>1 DEF Types, Bounds
    <2>4. Created'
        BY <1>0 DEF Created
    <2>5. StartedOrAhead'
        <3>1. starting'[c] = "initializing"
            BY <2>0 DEF Types
        <3>2. QED
            BY <3>1 DEF StartedOrAhead
    <2>6. QED
        BY <1>1, <2>2, <2>3, <2>4, <2>5
<1>3. CASE ~(at[c] <= Len(started))
    <2>0. /\ started' = <<>>
          /\ starting' = [starting EXCEPT ![c] = "arming"]
          /\ at' = [at EXCEPT ![c] = 1]
          /\ UNCHANGED active
        BY <1>0, <1>3 DEF DoInit
    <2>1. Types'
        BY <1>0, <2>0 DEF Types
    <2>2. Bounds'
        BY <1>0, <2>0, FS_CardinalityType, QueuesAssumption
        DEF Types, Bounds, Distinct
    <2>3. Created'
        BY <1>0 DEF Created
    <2>4. StartedOrAhead'
        <3>1. starting'[c] = "arming"
            BY <2>0 DEF Types
        <3>2. QED
            BY <3>1 DEF StartedOrAhead
    <2>5. QED
        BY <1>1, <2>1, <2>2, <2>3, <2>4
<1>4. QED
    BY <1>2, <1>3

\* doInit() arms the eviction timer: the call has every queue ahead of it.
LEMMA ArmTimerIInv ==
    ASSUME IInv, NEW c \in Calls, ArmTimer(c)
    PROVE  IInv'
<1> USE DEF IInv
<1>0. /\ starting[c] = "arming"
      /\ timers' = timers \cup {c} /\ timer' = c
      /\ starting' = [starting EXCEPT ![c] = "looping"]
      /\ at[c] = 1
      /\ UNCHANGED <<awaited, isStarted, queues, creating, at, stopping, running,
                     initialized, started, active>>
    BY DEF ArmTimer, Bounds
<1>1. Types' /\ Bounds' /\ Created'
    BY <1>0 DEF Types, Bounds, Created
<1>2. StartedOrAhead'
    <2>1. starting'[c] = "looping" /\ at'[c] = 1
        BY <1>0 DEF Types
    <2>2. \A i \in DOMAIN queues' : at'[c] <= i
        BY <1>0, <2>1 DEF Types
    <2>3. QED
        BY <2>1, <2>2 DEF StartedOrAhead
<1>3. OneCall'
    BY <1>0 DEF OneCall, Types
<1>4. OneTimer'
    <2> SUFFICES ASSUME awaited PROVE timers' = {timer'} /\ Armed'
        BY <1>0 DEF OneTimer
    <2>1. timers = {}
        BY <1>0 DEF OneTimer, Armed
    <2>2. isStarted /\ \A d \in Calls : starting'[d] # "arming"
        BY <1>0 DEF OneCall, Types
    <2>3. QED
        BY <1>0, <2>1, <2>2 DEF Armed
<1>5. QED
    BY <1>1, <1>2, <1>3, <1>4

\* The timer fires and arms itself again.
LEMMA EvictionTimerIInv ==
    ASSUME IInv, NEW c \in Calls, EvictionTimer(c)
    PROVE  IInv'
<1> USE DEF IInv
<1>0. /\ c \in timers /\ timer' = c
      /\ UNCHANGED <<awaited, isStarted, queues, creating, starting, at, stopping,
                     running, initialized, started, active, timers>>
    BY DEF EvictionTimer
<1>1. Types' /\ Bounds' /\ Created' /\ StartedOrAhead' /\ OneCall'
    BY <1>0 DEF Types, Bounds, Created, StartedOrAhead, ShouldStartQueue, OneCall
<1>2. OneTimer'
    BY <1>0 DEF OneTimer, Armed
<1>3. QED
    BY <1>1, <1>2

\* A place of the list that is not before n and is not n comes after it.
LEMMA NextIsBeyond ==
    ASSUME NEW n \in Nat, NEW i \in Nat, n <= i, i # n
    PROVE  n + 1 <= i
    OBVIOUS

\* The loop of start() starts the next queue: those it passes over run already,
\* or are not to be started.
LEMMA StartNextIInv ==
    ASSUME IInv, NEW c \in Calls, StartNext(c)
    PROVE  IInv'
<1> USE DEF IInv
<1> DEFINE n == Min(ToStart(c))
<1>0. n \in ToStart(c) /\ \A i \in ToStart(c) : n <= i
    <2>1. ToStart(c) \subseteq Nat
        BY DEF ToStart, Types
    <2>2. ToStart(c) # {}
        BY DEF StartNext
    <2>3. QED
        BY <2>1, <2>2, MinIsLeast
<1>1. /\ n \in DOMAIN queues /\ n \in Nat /\ n <= Len(queues) /\ at[c] <= n
      /\ queues[n] \in Queues
    BY <1>0 DEF ToStart, Types
<1> HIDE DEF n
<1>2. /\ starting[c] = "looping"
      /\ AdapterStart(queues[n])
      /\ running' = running \cup {queues[n]}
      /\ at' = [at EXCEPT ![c] = n + 1]
      /\ UNCHANGED <<awaited, isStarted, queues, creating, starting, stopping,
                     initialized, timers, timer>>
    BY DEF StartNext, StartQueue, n, timerVars
<1>3. Types' /\ Distinct(started')
    BY <1>1, <1>2, AdapterStartOK DEF Types, Bounds
<1>4. Bounds'
    <2>1. Len(queues) <= Cardinality(Queues) /\ Cardinality(Queues) \in Nat
        BY DistinctIsShort DEF Types, Bounds
    <2>2. QED
        BY <1>1, <1>2, <1>3, <2>1 DEF Types, Bounds
<1>5. Created'
    BY <1>2 DEF Created
<1>6. StartedOrAhead'
    <2> SUFFICES ASSUME isStarted, NEW i \in DOMAIN queues,
                        ShouldStartQueue(queues[i]), queues[i] \notin running'
                 PROVE  \/ \E d \in Calls : starting[d] \in {"initializing", "arming"}
                        \/ \E d \in Calls : starting[d] = "looping" /\ at'[d] <= i
        BY <1>2 DEF StartedOrAhead, ShouldStartQueue
    <2>1. queues[i] \notin running /\ i # n
        BY <1>2
    <2>2. CASE \E d \in Calls : starting[d] \in {"initializing", "arming"}
        BY <2>2
    <2>3. CASE \E d \in Calls : starting[d] = "looping" /\ at[d] <= i
        <3>1. PICK d \in Calls : starting[d] = "looping" /\ at[d] <= i
            BY <2>3
        <3>2. CASE d # c
            BY <1>2, <3>1, <3>2 DEF Types
        <3>3. CASE d = c
            <4>1. i \in ToStart(c)
                BY <2>1, <3>1, <3>3 DEF ToStart, Types
            <4>2. n + 1 <= i
                <5>1. n <= i
                    BY <1>0, <4>1
                <5>2. i \in Nat
                    BY DEF Types
                <5>3. QED
                    BY <1>1, <2>1, <5>1, <5>2, NextIsBeyond
            <4>3. QED
                BY <1>2, <4>2 DEF Types
        <3>4. QED
            BY <3>2, <3>3
    <2>4. QED
        BY <2>1, <2>2, <2>3 DEF StartedOrAhead
<1>7. OneCall'
    BY <1>1, <1>2, AdapterStartOK DEF OneCall, Types, Bounds
<1>8. OneTimer'
    BY <1>2 DEF OneTimer, Armed
<1>9. QED
    BY <1>3, <1>4, <1>5, <1>6, <1>7, <1>8

\* start() ends when no queue is left ahead of it.
LEMMA StartEndsIInv ==
    ASSUME IInv, NEW c \in Calls, StartEnds(c)
    PROVE  IInv'
<1> USE DEF IInv
<1>0. /\ starting[c] = "looping" /\ ToStart(c) = {}
      /\ starting' = [starting EXCEPT ![c] = "done"]
      /\ at' = [at EXCEPT ![c] = 1]
      /\ UNCHANGED <<awaited, isStarted, queues, creating, stopping, running,
                     initialized, started, active, timers, timer>>
    BY DEF StartEnds, timerVars
<1>1. Types'
    BY <1>0 DEF Types
<1>2. Bounds'
    BY <1>0, FS_CardinalityType, QueuesAssumption DEF Types, Bounds
<1>3. Created'
    BY <1>0 DEF Created
<1>4. StartedOrAhead'
    <2> SUFFICES ASSUME isStarted, NEW i \in DOMAIN queues,
                        ShouldStartQueue(queues[i]), queues[i] \notin running
                 PROVE  \/ \E d \in Calls : starting'[d] \in {"initializing", "arming"}
                        \/ \E d \in Calls : starting'[d] = "looping" /\ at'[d] <= i
        BY <1>0 DEF StartedOrAhead, ShouldStartQueue
    <2>1. \A d \in Calls : starting[d] = "looping" /\ at[d] <= i => d # c
        <3> SUFFICES ASSUME at[c] <= i PROVE FALSE
            BY <1>0
        <3>1. i \in at[c]..Len(queues)
            BY DEF Types
        <3>2. i \in ToStart(c)
            BY <1>0, <3>1 DEF ToStart
        <3>3. QED
            BY <1>0, <3>2
    <2>2. \/ \E d \in Calls : starting[d] \in {"initializing", "arming"}
          \/ \E d \in Calls : starting[d] = "looping" /\ at[d] <= i
        BY <1>0 DEF StartedOrAhead
    <2>3. QED
        BY <1>0, <2>1, <2>2 DEF Types
<1>5. OneCall'
    BY <1>0 DEF OneCall, Types
<1>6. OneTimer'
    BY <1>0 DEF OneTimer, Armed, Types
<1>7. QED
    BY <1>1, <1>2, <1>3, <1>4, <1>5, <1>6

-----------------------------------------------------------------------------
(* stop().                                                                 *)

\* stop() up to its first await: it takes out the registered queues only.
LEMMA StopIInv ==
    ASSUME IInv, NEW c \in Calls, Stop(c)
    PROVE  IInv'
<1> USE DEF IInv
<1> DEFINE stopped == {q \in running : Contains(queues, q)}
<1>0. /\ isStarted /\ isStarted' = FALSE /\ MayCall
      /\ running' = running \ stopped
      /\ active' = active \ stopped
      /\ stopping' = [stopping EXCEPT ![c] = "draining"]
      /\ UNCHANGED <<awaited, queues, creating, starting, at, initialized,
                     started, timers, timer>>
    BY DEF Stop, timerVars
<1>1. Types'
    BY <1>0 DEF Types
<1>2. Bounds'
    BY <1>0 DEF Bounds
<1>3. Created'
    BY <1>0 DEF Created, Contains, Types
<1>4. StartedOrAhead'
    BY <1>0 DEF StartedOrAhead
<1>5. awaited => \A d \in Calls : /\ starting[d] \in {"no", "done"}
                                 /\ stopping[d] \in {"no", "done"}
    BY <1>0 DEF MayCall
<1>6. OneCall'
    <2> HIDE DEF stopped
    <2>1. QED
        BY <1>0, <1>5 DEF OneCall, Types
<1>7. OneTimer'
    <2>1. stopping'[c] = "draining"
        BY <1>0 DEF Types
    <2>2. QED
        BY <1>0, <1>5, <2>1 DEF OneTimer, Armed
<1>8. QED
    BY <1>1, <1>2, <1>3, <1>4, <1>6, <1>7

\* The adapter is destroyed: the flag goes down, the timer is still armed.
LEMMA DestroyIInv ==
    ASSUME IInv, NEW c \in Calls, Destroy(c)
    PROVE  IInv'
<1> USE DEF IInv
<1>0. /\ stopping[c] = "draining"
      /\ stopping' = [stopping EXCEPT
                        ![c] = IF initialized THEN "clearing" ELSE "done"]
      /\ initialized' = FALSE
      /\ UNCHANGED <<awaited, isStarted, queues, creating, starting, at, running,
                     started, active, timers, timer>>
    BY DEF Destroy, timerVars
<1>1. Types' /\ Bounds' /\ Created' /\ StartedOrAhead'
    BY <1>0 DEF Types, Bounds, Created, StartedOrAhead, ShouldStartQueue
<1>2. awaited => stopping'[c] = "clearing" /\ ~isStarted
    BY <1>0 DEF OneCall, Types
<1>3. \A d \in Calls \ {c} : stopping'[d] = stopping[d]
    BY <1>0 DEF Types
<1>4. OneCall'
    BY <1>0, <1>2, <1>3 DEF OneCall
<1>5. OneTimer'
    BY <1>0, <1>2, <1>3 DEF OneTimer, Armed
<1>6. QED
    BY <1>1, <1>4, <1>5

\* stop() ends when the timer is cleared.
LEMMA StopEndsIInv ==
    ASSUME IInv, NEW c \in Calls, StopEnds(c)
    PROVE  IInv'
<1> USE DEF IInv
<1>0. /\ stopping[c] = "clearing"
      /\ stopping' = [stopping EXCEPT ![c] = "done"]
      /\ timers' = timers \ {timer}
      /\ UNCHANGED <<awaited, isStarted, queues, creating, starting, at, running,
                     initialized, started, active, timer>>
    BY DEF StopEnds
<1>1. Types' /\ Bounds' /\ Created' /\ StartedOrAhead'
    BY <1>0 DEF Types, Bounds, Created, StartedOrAhead, ShouldStartQueue
<1>2. OneCall'
    BY <1>0 DEF OneCall, Types
<1>3. OneTimer'
    <2> SUFFICES ASSUME awaited PROVE timers' = {} /\ ~Armed'
        BY <1>0 DEF OneTimer
    <2>1. ~isStarted /\ \A d \in Calls \ {c} : stopping[d] \notin {"draining", "clearing"}
        BY <1>0 DEF OneCall
    <2>2. timers' = {}
        BY <1>0 DEF OneTimer
    <2>3. QED
        BY <1>0, <2>1, <2>2 DEF Armed, Types
<1>4. QED
    BY <1>1, <1>2, <1>3

-----------------------------------------------------------------------------
(* The theorems.                                                           *)

\* Every step of the service preserves the invariant.
LEMMA StepIInv == IInv /\ [Next]_vars => IInv'
<1> SUFFICES ASSUME IInv, [Next]_vars PROVE IInv'
    OBVIOUS
<1>1. CASE \E q \in Queues : CreateQueue(q) \/ CreateQueueEnds(q)
    BY <1>1, CreateQueueIInv, CreateQueueEndsIInv
<1>2. CASE \E c \in Calls : \/ Start(c) \/ Initializing(c)
                            \/ ArmTimer(c) \/ EvictionTimer(c)
                            \/ StartNext(c) \/ StartEnds(c)
    BY <1>2, StartIInv, InitializingIInv, ArmTimerIInv, EvictionTimerIInv,
       StartNextIInv, StartEndsIInv
<1>3. CASE \E c \in Calls : Stop(c) \/ Destroy(c) \/ StopEnds(c)
    BY <1>3, StopIInv, DestroyIInv, StopEndsIInv
<1>4. CASE UNCHANGED vars
    BY <1>4 DEF vars, timerVars, IInv, Types, Bounds, Created, StartedOrAhead,
                OneCall, OneTimer, Armed, ShouldStartQueue
<1>5. QED
    BY <1>1, <1>2, <1>3, <1>4 DEF Next

\* The invariant holds in every state of every behaviour.
LEMMA IInvCorrect == Spec => []IInv
BY InitIInv, StepIInv, PTL DEF Spec

\* The state of the service, the queues and the adapter is well-formed; no loop
\* of start() or init() runs past the lists it goes through.
THEOREM TypeCorrect == Spec => []TypeOK
<1>1. IInv => TypeOK
    BY FS_CardinalityType, QueuesAssumption DEF IInv, Types, Bounds, TypeOK
<1>2. QED
    BY <1>1, IInvCorrect, PTL

\* When every call is over a started service runs every queue it registered and
\* may run, however createQueue(), start() and stop() overlapped.
THEOREM StartedRunsAllCorrect == Spec => []StartedRunsAll
<1>1. IInv => StartedRunsAll
    <2> SUFFICES ASSUME IInv, Quiescent, isStarted,
                        NEW i \in DOMAIN queues, ShouldStartQueue(queues[i])
                 PROVE  queues[i] \in running
        BY DEF StartedRunsAll, GetJobQueues
    <2>1. \A c \in Calls : starting[c] \notin {"initializing", "arming", "looping"}
        BY DEF Quiescent
    <2>2. QED
        BY <2>1 DEF IInv, StartedOrAhead
<1>2. QED
    BY <1>1, IInvCorrect, PTL

\* When start() and stop() are awaited the adapter serves the queues that report
\* to be running and no other.
THEOREM RunningIsServedCorrect == Spec => []RunningIsServed
<1>1. IInv => RunningIsServed
    BY DEF IInv, OneCall, RunningIsServed
<1>2. QED
    BY <1>1, IInvCorrect, PTL

\* When start() and stop() are awaited the adapter is initialized as long as the
\* service is started or being stopped.
THEOREM AdapterFollowsServiceCorrect == Spec => []AdapterFollowsService
<1>1. IInv => AdapterFollowsService
    BY DEF IInv, OneCall, AdapterFollowsService
<1>2. QED
    BY <1>1, IInvCorrect, PTL

\* When start() and stop() are awaited a started service has one eviction timer and
\* a stopped one has none, however often it was restarted.
THEOREM OneEvictionTimerCorrect == Spec => []OneEvictionTimer
<1>1. IInv => OneEvictionTimer
    <2> SUFFICES ASSUME IInv, awaited, Quiescent
                 PROVE  timers = IF isStarted THEN {timer} ELSE {}
        BY DEF OneEvictionTimer
    <2>1. Armed <=> isStarted
        BY DEF Quiescent, Armed
    <2>2. QED
        BY <2>1 DEF IInv, OneTimer
<1>2. QED
    BY <1>1, IInvCorrect, PTL

=============================================================================
