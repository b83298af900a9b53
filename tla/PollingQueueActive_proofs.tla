---------------------- MODULE PollingQueueActive_proofs ----------------------
(***************************************************************************)
(* Proof that activeJobs of an ActiveQueue lists exactly the jobs of its   *)
(* loop and of its runs that did not end, and, from that, that one         *)
(* ActiveQueue with one job at a time keeps the order of creation.  The    *)
(* first rests on the invariant of PollingQueue_proofs, the second also on *)
(* that of PollingQueueCustody_proofs.                                     *)
(***************************************************************************)
EXTENDS PollingQueueCustody_proofs, FunctionTheorems

-----------------------------------------------------------------------------
(* How often an item is in a list.                                         *)

Occurrences(s, j) == {i \in DOMAIN s : s[i] = j}

Count(s, j) == Cardinality(Occurrences(s, j))

\* The count is a number, and not 0 for an item that is there.
LEMMA CountIsNat ==
    ASSUME NEW s \in Seq(Jobs), NEW j
    PROVE  /\ IsFiniteSet(Occurrences(s, j))
           /\ Count(s, j) \in Nat
           /\ Count(s, j) # 0 => Contains(s, j)
<1>1. Len(s) \in Nat /\ DOMAIN s = 1..Len(s)
    BY LenProperties
<1>2. IsFiniteSet(1..Len(s))
    BY <1>1, FS_Interval
<1>3. IsFiniteSet(Occurrences(s, j))
    BY <1>1, <1>2, FS_Subset DEF Occurrences
<1>4. Count(s, j) # 0 => Occurrences(s, j) # {}
    BY FS_EmptySet DEF Count
<1>5. QED
    BY <1>1, <1>3, <1>4, FS_CardinalityType DEF Count, Occurrences, Contains

\* push adds one.
LEMMA CountAppend ==
    ASSUME NEW s \in Seq(Jobs), NEW x \in Jobs, NEW j \in Jobs
    PROVE  Count(Append(s, x), j) = Count(s, j) + (IF j = x THEN 1 ELSE 0)
<1> DEFINE t == Append(s, x)
           n == Len(s)
<1>1. /\ n \in Nat /\ DOMAIN s = 1..n /\ DOMAIN t = 1..(n + 1)
      /\ \A i \in 1..n : t[i] = s[i]
      /\ t[n + 1] = x
    BY AppendProperties, LenProperties
<1> HIDE DEF t, n
<1>2. \A i \in 1..(n + 1) : i \in 1..n \/ i = n + 1
    BY <1>1
<1>3. Occurrences(t, j) = IF j = x THEN Occurrences(s, j) \cup {n + 1} ELSE Occurrences(s, j)
    BY <1>1, <1>2 DEF Occurrences
<1>4. n + 1 \notin Occurrences(s, j)
    BY <1>1 DEF Occurrences
<1>5. Count(s, j) \in Nat /\ IsFiniteSet(Occurrences(s, j))
    BY CountIsNat
<1>6. CASE j = x
    BY <1>3, <1>4, <1>5, <1>6, FS_AddElement DEF Count, t
<1>7. CASE j # x
    BY <1>3, <1>5, <1>7 DEF Count, t
<1>8. QED
    BY <1>6, <1>7

\* A list without the place m, element by element.
LEMMA WithoutPlace ==
    ASSUME NEW s \in Seq(Jobs), NEW m \in 1..Len(s)
    PROVE  LET t == SubSeq(s, 1, m - 1) \o SubSeq(s, m + 1, Len(s))
           IN  /\ Len(t) = Len(s) - 1
               /\ DOMAIN t = 1..(Len(s) - 1)
               /\ \A i \in 1..(Len(s) - 1) : t[i] = IF i < m THEN s[i] ELSE s[i + 1]
<1> DEFINE n == Len(s)
           a == SubSeq(s, 1, m - 1)
           b == SubSeq(s, m + 1, n)
<1>0. n \in Nat /\ m \in Int /\ 1 <= m /\ m <= n /\ s \in [1..n -> Jobs]
    BY LenProperties
<1> HIDE DEF n
<1>1. /\ a \in Seq(Jobs)
      /\ Len(a) = IF 1 <= m - 1 THEN m - 1 - 1 + 1 ELSE 0
      /\ \A i \in 1..(m - 1 - 1 + 1) : a[i] = s[1 + i - 1]
    <2>1. 1 \in Int /\ m - 1 \in Int /\ \A i \in 1..(m - 1) : s[i] \in Jobs
        BY <1>0
    <2>2. QED
        BY <2>1, SubSeqProperties
<1>2. /\ b \in Seq(Jobs)
      /\ Len(b) = IF m + 1 <= n THEN n - (m + 1) + 1 ELSE 0
      /\ \A i \in 1..(n - (m + 1) + 1) : b[i] = s[m + 1 + i - 1]
    <2>1. m + 1 \in Int /\ n \in Int /\ \A i \in (m + 1)..n : s[i] \in Jobs
        BY <1>0
    <2>2. QED
        BY <2>1, SubSeqProperties
<1> HIDE DEF a, b
<1>3. Len(a) = m - 1 /\ Len(b) = n - m
    BY <1>0, <1>1, <1>2
<1>4. /\ a \o b \in Seq(Jobs)
      /\ Len(a \o b) = n - 1
      /\ \A i \in 1..(n - 1) : (a \o b)[i] = IF i <= m - 1 THEN a[i] ELSE b[i - (m - 1)]
    <2>1. /\ a \o b \in Seq(Jobs)
          /\ Len(a \o b) = Len(a) + Len(b)
          /\ \A i \in 1..(Len(a) + Len(b)) :
                 (a \o b)[i] = IF i <= Len(a) THEN a[i] ELSE b[i - Len(a)]
        BY <1>1, <1>2, ConcatProperties
    <2>2. m - 1 + (n - m) = n - 1
        BY <1>0
    <2>3. QED
        BY <1>3, <2>1, <2>2
<1>5. ASSUME NEW i \in 1..(n - 1)
      PROVE  (a \o b)[i] = IF i < m THEN s[i] ELSE s[i + 1]
    <2>1. CASE i < m
        <3>1. i \in 1..(m - 1 - 1 + 1) /\ i <= m - 1 /\ 1 + i - 1 = i
            BY <1>0, <2>1
        <3>2. QED
            BY <1>1, <1>4, <2>1, <3>1
    <2>2. CASE ~(i < m)
        <3>1. /\ i - (m - 1) \in 1..(n - (m + 1) + 1)
              /\ ~(i <= m - 1)
              /\ m + 1 + (i - (m - 1)) - 1 = i + 1
            BY <1>0, <2>2
        <3>2. QED
            BY <1>2, <1>4, <2>2, <3>1
    <2>3. QED
        BY <2>1, <2>2
<1>6. DOMAIN (a \o b) = 1..(n - 1)
    BY <1>4, LenProperties
<1>7. QED
    BY <1>4, <1>5, <1>6 DEF a, b, n

\* splice takes away one.
LEMMA CountRemove ==
    ASSUME NEW s \in Seq(Jobs), NEW x, Contains(s, x), NEW j
    PROVE  Count(RemoveJobFromActive(s, x), j)
             = Count(s, j) - (IF j = x THEN 1 ELSE 0)
<1> DEFINE n == Len(s)
           P == {i \in 1..n : s[i] = x}
           m == Min(P)
           t == SubSeq(s, 1, m - 1) \o SubSeq(s, m + 1, n)
<1>1. n \in Nat /\ DOMAIN s = 1..n
    BY LenProperties
<1>2. P # {} /\ P \subseteq Nat
    BY <1>1 DEF Contains
<1>3. m \in 1..n /\ s[m] = x
    BY <1>2, LeastElement
<1>4. RemoveJobFromActive(s, x) = t
    BY <1>2 DEF RemoveJobFromActive, RemoveFirst, RemoveAt, SelectInSeq, Contains
<1> HIDE DEF m
<1>5. /\ DOMAIN t = 1..(n - 1)
      /\ \A i \in 1..(n - 1) : t[i] = IF i < m THEN s[i] ELSE s[i + 1]
    BY <1>3, WithoutPlace
<1> HIDE DEF t, n
<1> DEFINE S == Occurrences(s, j)
           T == Occurrences(t, j)
           f == [i \in T |-> IF i < m THEN i ELSE i + 1]
<1>6. T = {i \in 1..(n - 1) : t[i] = j} /\ S = {i \in 1..n : s[i] = j}
    BY <1>1, <1>5 DEF Occurrences
<1>7. f \in [T -> S \ {m}]
    <2> SUFFICES ASSUME NEW i \in T PROVE f[i] \in S \ {m}
        OBVIOUS
    <2>1. i \in 1..(n - 1) /\ t[i] = j
        BY <1>6
    <2>2. CASE i < m
        BY <1>1, <1>5, <1>6, <2>1, <2>2
    <2>3. CASE ~(i < m)
        <3>1. i + 1 \in 1..n /\ i + 1 # m
            BY <1>1, <1>3, <2>1, <2>3
        <3>2. QED
            BY <1>5, <1>6, <2>1, <2>3, <3>1
    <2>4. QED
        BY <2>2, <2>3
<1>8. \A i, k \in T : f[i] = f[k] => i = k
    BY <1>1, <1>3, <1>6
<1>9. ASSUME NEW k \in S \ {m} PROVE \E i \in T : f[i] = k
    <2>1. k \in 1..n /\ s[k] = j /\ k # m
        BY <1>6
    <2>2. CASE k < m
        <3>1. k \in 1..(n - 1)
            BY <1>1, <1>3, <2>1, <2>2
        <3>2. QED
            BY <1>5, <1>6, <2>1, <2>2, <3>1
    <2>3. CASE ~(k < m)
        <3>1. k - 1 \in 1..(n - 1) /\ ~(k - 1 < m) /\ k - 1 + 1 = k
            BY <1>1, <1>3, <2>1, <2>3
        <3>2. k - 1 \in T
            BY <1>5, <1>6, <2>1, <3>1
        <3>3. QED
            BY <3>1, <3>2
    <2>4. QED
        BY <2>2, <2>3
<1>10. f \in Bijection(T, S \ {m})
    <2> HIDE DEF f, S, T
    <2>1. QED
        BY <1>7, <1>8, <1>9, Fun_IsBij
<1>11. IsFiniteSet(S) /\ Cardinality(S) \in Nat
    BY CountIsNat DEF Count
<1>12. IsFiniteSet(T) /\ Cardinality(T) = Cardinality(S \ {m})
    <2>1. ExistsBijection(T, S \ {m})
        BY <1>10 DEF ExistsBijection
    <2>2. T \subseteq 1..(n - 1) /\ IsFiniteSet(1..(n - 1))
        BY <1>1, <1>6, FS_Interval
    <2>3. IsFiniteSet(T)
        BY <2>2, FS_Subset
    <2> HIDE DEF S, T
    <2>4. QED
        BY <2>1, <2>3, FS_Bijection
<1>13. m \in S <=> j = x
    BY <1>3, <1>6
<1>14. Cardinality(S \ {m}) = IF m \in S THEN Cardinality(S) - 1 ELSE Cardinality(S)
    BY <1>11, FS_RemoveElement
<1>15. QED
    BY <1>4, <1>11, <1>12, <1>13, <1>14 DEF Count

-----------------------------------------------------------------------------
(* The account: every entry of a list of active jobs belongs to a run that *)
(* is to remove it, or to the loop that is about to start such a run.      *)

Counted == {"racing", "resolved", "handled", "abandoned", "leaked", "updating"}

On(run, q, j) == run.queue = q /\ run.job = j /\ run.phase \in Counted

RunsOn(q, j) == {r \in Runs : On(runs[r], q, j)}

Due(q, j) == IF loop[q] = "update" /\ held[q] = j THEN 1 ELSE 0

Account ==
    \A q \in Queues, j \in Jobs :
        Count(active[q], j) = Due(q, j) + Cardinality(RunsOn(q, j))

\* There are finitely many runs, so the account is one of numbers.
LEMMA RunsAreFinite ==
    ASSUME NEW q, NEW j
    PROVE  IsFiniteSet(RunsOn(q, j)) /\ Cardinality(RunsOn(q, j)) \in Nat
<1>1. IsFiniteSet(Runs)
    BY FS_Interval, BoundAssumption DEF Runs
<1>2. RunsOn(q, j) \subseteq Runs
    BY DEF RunsOn
<1>3. QED
    BY <1>1, <1>2, FS_Subset, FS_CardinalityType

\* The account says what ActiveAccounting says.
LEMMA AccountIsActive ==
    ASSUME Account
    PROVE  ActiveAccounting
<1> SUFFICES ASSUME NEW q \in Queues, NEW j \in Jobs
             PROVE  Cardinality(Occurrences(active[q], j))
                      = Cardinality({k \in {q} : loop[k] = "update" /\ held[k] = j})
                        + Cardinality({r \in Runs :
                              /\ runs[r].queue = q
                              /\ runs[r].job = j
                              /\ Holding(r) \/ runs[r].phase = "updating"})
    BY DEF ActiveAccounting, Occurrences
<1>1. RunsOn(q, j) = {r \in Runs : /\ runs[r].queue = q
                                   /\ runs[r].job = j
                                   /\ Holding(r) \/ runs[r].phase = "updating"}
    BY DEF RunsOn, On, Counted, Holding
<1>2. Cardinality({k \in {q} : loop[k] = "update" /\ held[k] = j}) = Due(q, j)
    <2>1. CASE loop[q] = "update" /\ held[q] = j
        <3>1. {k \in {q} : loop[k] = "update" /\ held[k] = j} = {q}
            BY <2>1
        <3>2. QED
            BY <2>1, <3>1, FS_Singleton DEF Due
    <2>2. CASE ~(loop[q] = "update" /\ held[q] = j)
        <3>1. {k \in {q} : loop[k] = "update" /\ held[k] = j} = {}
            BY <2>2
        <3>2. QED
            BY <2>2, <3>1, FS_EmptySet DEF Due
    <2>3. QED
        BY <2>1, <2>2
<1>3. QED
    BY <1>1, <1>2 DEF Account, Count

\* A step that leaves the lists, that moves no loop to or from the second of its
\* awaits, and after which the same runs count, leaves the account.
LEMMA NothingCounted ==
    ASSUME Account, UNCHANGED active,
           \A q \in Queues : "update" \in {loop[q], loop'[q]} =>
               loop'[q] = loop[q] /\ held'[q] = held[q],
           \A r \in Runs, q \in Queues, j \in Jobs :
               On(runs'[r], q, j) <=> On(runs[r], q, j)
    PROVE  Account'
<1> SUFFICES ASSUME NEW q \in Queues, NEW j \in Jobs
             PROVE  Count(active'[q], j)
                      = (IF loop'[q] = "update" /\ held'[q] = j THEN 1 ELSE 0)
                        + Cardinality({r \in Runs : On(runs'[r], q, j)})
    BY DEF Account, Due, RunsOn
<1>1. {r \in Runs : On(runs'[r], q, j)} = RunsOn(q, j)
    BY DEF RunsOn
<1>2. (IF loop'[q] = "update" /\ held'[q] = j THEN 1 ELSE 0) = Due(q, j)
    BY DEF Due
<1>3. QED
    BY <1>1, <1>2 DEF Account

\* The same with one run replaced.
LEMMA OneRunUncounted ==
    ASSUME TypeOK, Account, UNCHANGED <<active, loop, held>>,
           NEW r \in Runs, NEW run, runs' = [runs EXCEPT ![r] = run],
           \A q \in Queues, j \in Jobs : On(run, q, j) <=> On(runs[r], q, j)
    PROVE  Account'
<1>1. ASSUME NEW k \in Runs, NEW q \in Queues, NEW j \in Jobs
      PROVE  On(runs'[k], q, j) <=> On(runs[k], q, j)
    <2>1. runs'[k] = IF k = r THEN run ELSE runs[k]
        BY DEF TypeOK
    <2>2. QED
        BY <2>1
<1>2. QED
    BY <1>1, NothingCounted

\* A loop that goes to its first await, or ends its pass, leaves the second.
LEMMA LoopMoves ==
    ASSUME TypeOK, NEW q \in Queues, NEW n, AtNext(q, n) \/ PassEnded(q)
    PROVE  /\ loop'[q] # "update"
           /\ \A k \in Queues : k # q => loop'[k] = loop[k] /\ held'[k] = held[k]
BY DEF AtNext, PassEnded, TypeOK

LEMMA ContinueMoves ==
    ASSUME TypeOK, NEW q \in Queues, Continue(q)
    PROVE  /\ loop'[q] # "update"
           /\ \A k \in Queues : k # q => loop'[k] = loop[k] /\ held'[k] = held[k]
BY ContinueStep, LoopMoves

\* The loop that reaches or repeats its first await counts nothing.
LEMMA LoopUncounted ==
    ASSUME TypeOK, Account, UNCHANGED <<active, runs>>, NEW q \in Queues,
           loop[q] # "update", loop'[q] # "update",
           \A k \in Queues : k # q => loop'[k] = loop[k] /\ held'[k] = held[k]
    PROVE  Account'
BY NothingCounted

-----------------------------------------------------------------------------
(* The three steps that change the account.                                *)

\* Accept: the job enters the list and is due.
LEMMA AcceptAccount ==
    ASSUME IInv, Account, NEW q \in Queues, Accept(q)
    PROVE  Account'
<1> DEFINE x == held[q]
<1>1. /\ x \in Jobs /\ active \in [Queues -> Seq(Jobs)]
      /\ loop[q] = "next"
      /\ active' = [active EXCEPT ![q] = Append(active[q], x)]
      /\ \A k \in Queues : loop'[k] = IF k = q THEN "update" ELSE loop[k]
      /\ held' = held /\ runs' = runs
    BY DEF Accept, IInv, TypeOK
<1> SUFFICES ASSUME NEW k \in Queues, NEW j \in Jobs
             PROVE  Count(active'[k], j)
                      = (IF loop'[k] = "update" /\ held'[k] = j THEN 1 ELSE 0)
                        + Cardinality({r \in Runs : On(runs'[r], k, j)})
    BY DEF Account, Due, RunsOn
<1>2. {r \in Runs : On(runs'[r], k, j)} = RunsOn(k, j)
    BY <1>1 DEF RunsOn
<1>3. Count(active[k], j) = Due(k, j) + Cardinality(RunsOn(k, j))
    BY DEF Account
<1>4. CASE k # q
    BY <1>1, <1>2, <1>3, <1>4 DEF Due
<1>5. CASE k = q
    <2>1. Count(active'[q], j) = Count(active[q], j) + (IF j = x THEN 1 ELSE 0)
        <3>1. active[q] \in Seq(Jobs) /\ active'[q] = Append(active[q], x)
            BY <1>1
        <3> HIDE DEF x
        <3>2. QED
            BY <1>1, <3>1, CountAppend
    <2>2. Due(q, j) = 0
        BY <1>1 DEF Due
    <2>3. Cardinality(RunsOn(q, j)) \in Nat
        BY RunsAreFinite
    <2>4. loop'[q] = "update" /\ held'[q] = x
        BY <1>1
    <2>5. /\ Count(active[q], j) = Cardinality(RunsOn(q, j))
          /\ (IF loop'[q] = "update" /\ held'[q] = j THEN 1 ELSE 0)
               = (IF j = x THEN 1 ELSE 0)
        BY <1>3, <1>5, <2>2, <2>3, <2>4
    <2> HIDE DEF x
    <2>6. Cardinality({r \in Runs : On(runs'[r], k, j)}) = Cardinality(RunsOn(q, j))
        BY <1>2, <1>5
    <2>7. QED
        BY <1>5, <2>1, <2>3, <2>5, <2>6
<1>6. QED
    BY <1>4, <1>5

\* Launch, with or without a race: what was due is a run.
LEMMA LaunchAccount ==
    ASSUME IInv, Account, NEW q \in Queues, Launch(q) \/ LaunchThrows(q)
    PROVE  Account'
<1> DEFINE x == held[q]
<1>0. PICK run : \E r \in Runs :
          /\ runs[r].phase = "idle"
          /\ runs' = [runs EXCEPT ![r] = run]
          /\ run.job = x /\ run.queue = q /\ run.phase \in Counted
    <2>1. CASE Launch(q)
        <3> DEFINE new == [job |-> held[q], queue |-> q, phase |-> "racing",
                           outcome |-> "none", working |-> TRUE]
        <3>1. new.job = x /\ new.queue = q /\ new.phase \in Counted
            BY DEF Counted
        <3>2. PICK r \in Runs : /\ runs[r].phase = "idle"
                                /\ runs' = [runs EXCEPT ![r] = new]
            BY <2>1 DEF Launch
        <3> HIDE DEF new, x
        <3>3. QED
            BY <3>1, <3>2
    <2>2. CASE LaunchThrows(q)
        <3> DEFINE new == [job |-> held[q], queue |-> q, phase |-> "leaked",
                           outcome |-> "error", working |-> FALSE]
        <3>1. new.job = x /\ new.queue = q /\ new.phase \in Counted
            BY DEF Counted
        <3>2. PICK r \in Runs : /\ runs[r].phase = "idle"
                                /\ runs' = [runs EXCEPT ![r] = new]
            BY <2>2 DEF LaunchThrows
        <3> HIDE DEF new, x
        <3>3. QED
            BY <3>1, <3>2
    <2>3. QED
        BY <2>1, <2>2
<1>1. PICK r \in Runs :
          /\ runs[r].phase = "idle"
          /\ runs' = [runs EXCEPT ![r] = run]
          /\ run.job = x /\ run.queue = q /\ run.phase \in Counted
    BY <1>0
<1>2. /\ loop[q] = "update" /\ loop'[q] # "update"
      /\ \A k \in Queues : k # q => loop'[k] = loop[k] /\ held'[k] = held[k]
      /\ active' = active
    <2>1. CASE Launch(q)
        BY <2>1, ContinueMoves DEF Launch, IInv
    <2>2. CASE LaunchThrows(q)
        BY <2>2, EndPassStep, LoopMoves DEF LaunchThrows, IInv
    <2>3. QED
        BY <2>1, <2>2
<1> SUFFICES ASSUME NEW k \in Queues, NEW j \in Jobs
             PROVE  Count(active'[k], j)
                      = (IF loop'[k] = "update" /\ held'[k] = j THEN 1 ELSE 0)
                        + Cardinality({s \in Runs : On(runs'[s], k, j)})
    BY DEF Account, Due, RunsOn
<1>3. Count(active[k], j) = Due(k, j) + Cardinality(RunsOn(k, j))
    BY DEF Account
<1>4. \A s \in Runs : runs'[s] = IF s = r THEN run ELSE runs[s]
    BY <1>1 DEF IInv, TypeOK
<1>5. r \notin RunsOn(k, j)
    BY <1>1 DEF RunsOn, On, Counted
<1>6. CASE k = q /\ j = x
    <2>1. {s \in Runs : On(runs'[s], k, j)} = RunsOn(k, j) \cup {r}
        BY <1>1, <1>4, <1>6 DEF RunsOn, On
    <2>2. Cardinality(RunsOn(k, j) \cup {r}) = Cardinality(RunsOn(k, j)) + 1
        BY <1>5, RunsAreFinite, FS_AddElement
    <2>3. Due(k, j) = 1
        BY <1>2, <1>6 DEF Due
    <2>4. Cardinality(RunsOn(k, j)) \in Nat
        BY RunsAreFinite
    <2>5. Cardinality({s \in Runs : On(runs'[s], k, j)})
            = Cardinality(RunsOn(k, j)) + 1
        BY <2>1, <2>2
    <2>6. (IF loop'[k] = "update" /\ held'[k] = j THEN 1 ELSE 0) = 0
        BY <1>2, <1>6
    <2>7. Count(active'[k], j) = 1 + Cardinality(RunsOn(k, j))
        BY <1>2, <1>3, <2>3
    <2>8. QED
        BY <2>4, <2>5, <2>6, <2>7
<1>7. CASE ~(k = q /\ j = x)
    <2>1. {s \in Runs : On(runs'[s], k, j)} = RunsOn(k, j)
        BY <1>1, <1>4, <1>5, <1>7 DEF RunsOn, On
    <2>2. Due(k, j) = (IF loop'[k] = "update" /\ held'[k] = j THEN 1 ELSE 0)
        BY <1>2, <1>7 DEF Due
    <2>3. QED
        BY <1>2, <1>3, <2>1, <2>2
<1>8. QED
    BY <1>6, <1>7

\* RemoveFromActive: the run is over, and because it counted, indexOf finds the
\* job and splice takes one entry of it.
LEMMA RemoveAccount ==
    ASSUME IInv, Account, NEW r \in Runs, RemoveFromActive(r)
    PROVE  Account'
<1> DEFINE q == runs[r].queue
           x == runs[r].job
           list == RemoveJobFromActive(active[q], x)
           run == Recycled([runs[r] EXCEPT !.phase = "closed"])
<1>1. /\ runs[r].phase = "updating" /\ q \in Queues /\ x \in Jobs
      /\ active \in [Queues -> Seq(Jobs)]
      /\ active' = [active EXCEPT ![q] = list]
      /\ runs' = [runs EXCEPT ![r] = run]
      /\ loop' = loop /\ held' = held
    BY DEF RemoveFromActive, IInv, TypeOK, RunsOK, loopVars
<1>2. run.phase \notin Counted
    <2> DEFINE new == [runs[r] EXCEPT !.phase = "closed"]
    <2>1. new.phase = "closed" /\ IdleRun.phase = "idle"
        BY DEF IInv, TypeOK, RunRecord, IdleRun
    <2> HIDE DEF new
    <2>2. Recycled(new).phase \in {"closed", "idle"}
        BY <2>1 DEF Recycled
    <2>3. QED
        BY <2>2 DEF Counted, new
<1>3. On(runs[r], q, x)
    BY <1>1 DEF On, Counted
<1> HIDE DEF run
<1>4. \A s \in Runs : runs'[s] = IF s = r THEN run ELSE runs[s]
    BY <1>1 DEF IInv, TypeOK
<1>5. Contains(active[q], x)
    <2>1. r \in RunsOn(q, x)
        BY <1>3 DEF RunsOn
    <2>2. Cardinality(RunsOn(q, x)) \in Nat /\ Cardinality(RunsOn(q, x)) # 0
        BY <2>1, RunsAreFinite, FS_EmptySet
    <2>3. Due(q, x) \in {0, 1}
        BY DEF Due
    <2>4. Count(active[q], x) = Due(q, x) + Cardinality(RunsOn(q, x))
        BY <1>1 DEF Account
    <2>5. Count(active[q], x) # 0
        BY <2>2, <2>3, <2>4
    <2>6. QED
        BY <1>1, <2>5, CountIsNat
<1> SUFFICES ASSUME NEW k \in Queues, NEW j \in Jobs
             PROVE  Count(active'[k], j)
                      = (IF loop'[k] = "update" /\ held'[k] = j THEN 1 ELSE 0)
                        + Cardinality({s \in Runs : On(runs'[s], k, j)})
    BY DEF Account, Due, RunsOn
<1>6. Count(active[k], j) = Due(k, j) + Cardinality(RunsOn(k, j))
    BY DEF Account
<1>7. Due(k, j) = (IF loop'[k] = "update" /\ held'[k] = j THEN 1 ELSE 0)
    BY <1>1 DEF Due
<1>8. {s \in Runs : On(runs'[s], k, j)} = RunsOn(k, j) \ {r}
    BY <1>2, <1>4 DEF RunsOn, On
<1>9. r \in RunsOn(k, j) <=> k = q /\ j = x
    BY <1>3 DEF RunsOn, On
<1>10. Cardinality(RunsOn(k, j) \ {r})
         = Cardinality(RunsOn(k, j)) - (IF k = q /\ j = x THEN 1 ELSE 0)
    <2>1. CASE r \in RunsOn(k, j)
        BY <1>9, <2>1, RunsAreFinite, FS_RemoveElement
    <2>2. CASE r \notin RunsOn(k, j)
        <3>1. RunsOn(k, j) \ {r} = RunsOn(k, j)
            BY <2>2
        <3>2. Cardinality(RunsOn(k, j)) \in Nat
            BY RunsAreFinite
        <3>3. QED
            BY <1>9, <2>2, <3>1, <3>2
    <2>3. QED
        BY <2>1, <2>2
<1>11. Count(active'[k], j) = Count(active[k], j) - (IF k = q /\ j = x THEN 1 ELSE 0)
    <2> HIDE DEF q, x
    <2>1. active[k] \in Seq(Jobs) /\ active[q] \in Seq(Jobs)
        BY <1>1
    <2>2. CASE k = q
        <3>1. active'[k] = RemoveJobFromActive(active[q], x)
            BY <1>1, <2>2
        <3>2. Count(RemoveJobFromActive(active[q], x), j)
                = Count(active[q], j) - (IF j = x THEN 1 ELSE 0)
            BY <1>5, <2>1, CountRemove
        <3>3. QED
            BY <2>2, <3>1, <3>2
    <2>3. CASE k # q
        <3>1. active'[k] = active[k]
            BY <1>1, <2>3
        <3>2. Count(active[k], j) \in Nat
            BY <2>1, CountIsNat
        <3>3. QED
            BY <2>3, <3>1, <3>2
    <2>4. QED
        BY <2>2, <2>3
<1>12. /\ Cardinality(RunsOn(k, j)) \in Nat
       /\ Due(k, j) \in {0, 1}
    BY RunsAreFinite DEF Due
<1>13. Cardinality({s \in Runs : On(runs'[s], k, j)})
         = Cardinality(RunsOn(k, j)) - (IF k = q /\ j = x THEN 1 ELSE 0)
    BY <1>8, <1>10
<1>14. Count(active'[k], j)
         = (Due(k, j) + Cardinality(RunsOn(k, j))) - (IF k = q /\ j = x THEN 1 ELSE 0)
    BY <1>6, <1>11
<1> HIDE DEF q, x
<1>15. QED
    BY <1>7, <1>12, <1>13, <1>14

-----------------------------------------------------------------------------
(* All the steps.                                                          *)

\* A run that goes on keeps its place in the account; one that is over when its
\* process function returns had none.
LEMMA RunAccount ==
    ASSUME IInv, Account, NEW r \in Runs,
           \/ Settle(r) \/ FinallyReturns(r) \/ FinallyUpdates(r)
           \/ ProcessEnds(r) \/ CancellationTick(r)
    PROVE  Account'
<1> USE DEF clientVars, adapterVars, loopVars
<1>1. PICK run :
          /\ runs' = [runs EXCEPT ![r] = run]
          /\ \/ /\ run.job = runs[r].job /\ run.queue = runs[r].queue
                /\ run.phase \in Counted /\ runs[r].phase \in Counted
             \/ run.phase = runs[r].phase /\ run.job = runs[r].job
                  /\ run.queue = runs[r].queue
             \/ run.phase \notin Counted /\ runs[r].phase \notin Counted
    <2>0. runs \in [Runs -> RunRecord] /\ runs[r] \in RunRecord
        BY DEF IInv, TypeOK
    <2>1. CASE Settle(r) \/ FinallyReturns(r) \/ FinallyUpdates(r)
        <3>1. PICK ph \in {"handled", "abandoned", "updating"} :
                  runs' = [runs EXCEPT ![r] = [runs[r] EXCEPT !.phase = ph]]
            BY <2>1 DEF Settle, FinallyReturns, FinallyUpdates
        <3>2. runs[r].phase \in {"resolved", "handled"}
            BY <2>1 DEF Settle, FinallyReturns, FinallyUpdates
        <3> DEFINE new == [runs[r] EXCEPT !.phase = ph]
        <3>3. new.job = runs[r].job /\ new.queue = runs[r].queue /\ new.phase = ph
            BY <2>0 DEF RunRecord
        <3> HIDE DEF new
        <3>4. runs' = [runs EXCEPT ![r] = new]
            BY <3>1 DEF new
        <3>5. QED
            BY <3>2, <3>3, <3>4 DEF Counted
    <2>2. CASE /\ ProcessEnds(r) \/ CancellationTick(r)
               /\ runs[r].phase = "racing"
        <3>1. PICK o, w :
                  runs' = [runs EXCEPT ![r] = [runs[r] EXCEPT !.phase = "resolved",
                                                              !.outcome = o,
                                                              !.working = w]]
            <4>1. CASE CancellationTick(r)
                <5>1. runs' = [runs EXCEPT ![r] =
                                  [runs[r] EXCEPT !.phase = "resolved",
                                                  !.outcome = "cancelled",
                                                  !.working = runs[r].working]]
                    BY <2>0, <4>1 DEF CancellationTick, RunRecord
                <5>2. QED
                    BY <5>1
            <4>2. CASE ProcessEnds(r)
                <5>1. PICK o \in {"value", "error"} :
                          runs' = [runs EXCEPT ![r] =
                                      [runs[r] EXCEPT !.phase = "resolved",
                                                      !.outcome = o,
                                                      !.working = FALSE]]
                    BY <2>0, <2>2, <4>2 DEF ProcessEnds
                <5>2. QED
                    BY <5>1
            <4>3. QED
                BY <2>2, <4>1, <4>2
        <3> DEFINE new == [runs[r] EXCEPT !.phase = "resolved",
                                          !.outcome = o, !.working = w]
        <3>2. /\ new.job = runs[r].job /\ new.queue = runs[r].queue
              /\ new.phase = "resolved"
            BY <2>0 DEF RunRecord
        <3> HIDE DEF new
        <3>3. runs' = [runs EXCEPT ![r] = new]
            BY <3>1 DEF new
        <3>4. QED
            BY <2>2, <3>2, <3>3 DEF Counted
    <2>3. CASE ProcessEnds(r) /\ runs[r].phase # "racing"
        <3> DEFINE over == [runs[r] EXCEPT !.working = FALSE]
                   new == Recycled(over)
        <3>1. runs' = [runs EXCEPT ![r] = new]
            BY <2>3 DEF ProcessEnds
        <3>2. /\ over.job = runs[r].job /\ over.queue = runs[r].queue
              /\ over.phase = runs[r].phase /\ IdleRun.phase = "idle"
            BY <2>0 DEF RunRecord, IdleRun
        <3> HIDE DEF over
        <3>3. new = over \/ (new.phase = "idle" /\ over.phase = "closed")
            BY <3>2 DEF Recycled
        <3> HIDE DEF new
        <3>4. QED
            BY <3>1, <3>2, <3>3 DEF Counted
    <2>4. QED
        BY <2>1, <2>2, <2>3 DEF CancellationTick
<1>2. UNCHANGED <<active, loop, held>>
    BY DEF Settle, FinallyReturns, FinallyUpdates, ProcessEnds, CancellationTick
<1>3. \A q \in Queues, j \in Jobs : On(run, q, j) <=> On(runs[r], q, j)
    BY <1>1 DEF On
<1>4. QED
    BY <1>1, <1>2, <1>3, OneRunUncounted DEF IInv

\* stop() decides the open races and disarms a timer, and counts nothing.
LEMMA StopAccount ==
    ASSUME IInv, Account, NEW q, StopActiveQueue(q)
    PROVE  Account'
<1> USE DEF clientVars, adapterVars, loopVars
<1>1. ASSUME NEW k \in Queues
      PROVE  "update" \in {loop[k], loop'[k]} =>
                 loop'[k] = loop[k] /\ held'[k] = held[k]
    <2>1. loop'[k] = loop[k] \/ (loop[k] = "timer" /\ loop'[k] = "ended")
        BY DEF StopActiveQueue, IInv, TypeOK
    <2>2. held' = held
        BY DEF StopActiveQueue
    <2>3. QED
        BY <2>1, <2>2
<1>2. ASSUME NEW r \in Runs, NEW k \in Queues, NEW j \in Jobs
      PROVE  On(runs'[r], k, j) <=> On(runs[r], k, j)
    <2> DEFINE new == [runs[r] EXCEPT !.phase = "resolved", !.outcome = "stop"]
    <2>1. runs'[r] = IF runs[r].queue = q /\ runs[r].phase = "racing"
                     THEN new ELSE runs[r]
        BY DEF StopActiveQueue
    <2>2. /\ new.job = runs[r].job /\ new.queue = runs[r].queue
          /\ new.phase = "resolved"
        BY DEF IInv, TypeOK, RunRecord
    <2> HIDE DEF new
    <2>3. QED
        BY <2>1, <2>2 DEF On, Counted
<1>3. active' = active
    BY DEF StopActiveQueue
<1>4. QED
    BY <1>1, <1>2, <1>3, NothingCounted

\* next() called by a loop that is not between update() and process().
LEMMA CallNextAccount ==
    ASSUME IInv, Account, NEW q \in Queues, NEW n, loop[q] # "update",
           CallNext(q, n), UNCHANGED <<active, runs>>
    PROVE  Account'
<1>1. AtNext(q, n)
    BY CallNextStep DEF IInv
<1>2. QED
    BY <1>1, LoopMoves, LoopUncounted DEF IInv

\* Every step keeps the account.
LEMMA StepAccount == IInv /\ Account /\ [Next]_vars => Account'
<1> SUFFICES ASSUME IInv, Account, [Next]_vars PROVE Account'
    OBVIOUS
<1> USE DEF clientVars, adapterVars, loopVars
<1>1. ASSUME UNCHANGED <<active, loop, held, runs>>
      PROVE  Account'
    BY <1>1, NothingCounted
<1>2. CASE Client
    <2>1. ASSUME NEW n \in RetryCounts, Add(n)
          PROVE  Account'
        BY <1>1, <2>1 DEF Add
    <2>2. ASSUME NEW j \in Jobs, CancelJobBegin(j)
          PROVE  Account'
        BY <1>1, <2>2 DEF CancelJobBegin
    <2>3. CASE RemoveSettledJobs
        BY <1>1, <2>3 DEF RemoveSettledJobs
    <2>4. ASSUME NEW p \in Processes, StartQueue(p)
          PROVE  Account'
        <3>1. PICK q \in Queues : loop[q] = "unused" /\ StartActiveQueue(q)
            BY <2>4 DEF StartQueue
        <3>2. QED
            BY <3>1, CallNextAccount DEF StartActiveQueue
    <2>5. ASSUME NEW p \in Processes, StopQueue(p)
          PROVE  Account'
        BY <2>5, StopAccount DEF StopQueue
    <2>6. QED
        BY <1>2, <2>1, <2>2, <2>3, <2>4, <2>5 DEF Client
<1>3. CASE Microtask
    <2>1. ASSUME NEW j \in Jobs, CancelJobFinish(j)
          PROVE  Account'
        BY <1>1, <2>1 DEF CancelJobFinish
    <2>2. ASSUME NEW q \in Queues, NothingToDo(q)
          PROVE  Account'
        <3>1. /\ loop[q] # "update" /\ Continue(q) /\ UNCHANGED <<active, runs>>
            BY <2>2 DEF NothingToDo
        <3>2. QED
            BY <3>1, ContinueMoves, LoopUncounted DEF IInv
    <2>3. QED
        BY <1>3, <2>1, <2>2, AcceptAccount, LaunchAccount, RunAccount, RemoveAccount
           DEF Microtask
<1>4. CASE Timer
    <2>1. CASE EvictSettledJobs
        BY <1>1, <2>1 DEF EvictSettledJobs
    <2>2. ASSUME NEW q \in Queues, PollTimer(q)
          PROVE  Account'
        BY <2>2, CallNextAccount DEF PollTimer
    <2>3. ASSUME NEW q \in Queues, StopDrained(q) \/ StopTimedOut(q)
          PROVE  Account'
        BY <1>1, <2>3 DEF StopDrained, StopTimedOut
    <2>4. QED
        BY <1>4, <2>1, <2>2, <2>3, RunAccount DEF Timer
<1>5. CASE Work
    <2>1. ASSUME NEW r \in Runs, ReportProgress(r)
          PROVE  Account'
        BY <1>1, <2>1 DEF ReportProgress
    <2>2. QED
        BY <1>5, <2>1, RunAccount DEF Work
<1>6. CASE UNCHANGED vars
    BY <1>1, <1>6 DEF vars
<1>7. QED
    BY <1>2, <1>3, <1>4, <1>5, <1>6 DEF Next

LEMMA InitAccount == Init => Account
<1> SUFFICES ASSUME Init, NEW q \in Queues, NEW j \in Jobs
             PROVE  Count(active[q], j) = Due(q, j) + Cardinality(RunsOn(q, j))
    BY DEF Account
<1>1. active[q] = <<>> /\ loop[q] # "update" /\ \A r \in Runs : runs[r] = IdleRun
    BY DEF Init, InitActiveQueues
<1>2. RunsOn(q, j) = {}
    BY <1>1 DEF RunsOn, On, IdleRun, Counted
<1>3. Occurrences(active[q], j) = {}
    <2>1. DOMAIN active[q] = {}
        BY <1>1
    <2>2. QED
        BY <2>1 DEF Occurrences
<1>4. QED
    BY <1>1, <1>2, <1>3, FS_EmptySet DEF Count, Due

\* For any number of queues, runs and jobs, and whatever clients cancel, stop
\* and start: activeJobs of an ActiveQueue lists exactly the jobs of its loop
\* and of its runs that did not end, so removeJobFromActive finds its job and
\* never takes another one out.
THEOREM ActiveAccountingCorrect == Spec => []ActiveAccounting
<1>1. Init => IInv /\ Account
    BY InitIInv, InitAccount
<1>2. IInv /\ Account /\ [Next]_vars => (IInv /\ Account)'
    BY StepIInv, StepAccount
<1>3. IInv /\ Account => ActiveAccounting
    BY AccountIsActive
<1>4. QED
    BY <1>1, <1>2, <1>3, PTL DEF Spec

-----------------------------------------------------------------------------
(* Lists in creation order.                                                *)

Increasing(s) == \A i, k \in DOMAIN s : i < k => s[i] < s[k]

Below(j, s) == \A i \in DOMAIN s : j < s[i]

\* A younger job goes to the tail.
LEMMA IncreasingAppend ==
    ASSUME NEW s \in Seq(Jobs), Increasing(s), NEW x \in Jobs,
           \A i \in DOMAIN s : s[i] < x
    PROVE  Increasing(Append(s, x))
<1>1. /\ Len(s) \in Nat /\ DOMAIN s = 1..Len(s)
      /\ DOMAIN Append(s, x) = 1..(Len(s) + 1)
      /\ \A i \in 1..Len(s) : Append(s, x)[i] = s[i]
      /\ Append(s, x)[Len(s) + 1] = x
    BY AppendProperties, LenProperties
<1>2. ASSUME NEW i \in 1..(Len(s) + 1), NEW k \in 1..(Len(s) + 1), i < k
      PROVE  Append(s, x)[i] < Append(s, x)[k]
    <2>1. i \in 1..Len(s)
        BY <1>1, <1>2
    <2>2. CASE k \in 1..Len(s)
        BY <1>1, <1>2, <2>1, <2>2 DEF Increasing
    <2>3. CASE k = Len(s) + 1
        BY <1>1, <2>1, <2>3
    <2>4. QED
        BY <1>1, <2>2, <2>3
<1>3. QED
    BY <1>1, <1>2 DEF Increasing

\* An older job goes to the head.
LEMMA IncreasingPrepend ==
    ASSUME NEW s \in Seq(Jobs), Increasing(s), NEW x \in Jobs, Below(x, s)
    PROVE  Increasing(<<x>> \o s)
<1> DEFINE t == <<x>> \o s
<1>1. /\ Len(s) \in Nat /\ DOMAIN s = 1..Len(s)
      /\ DOMAIN t = 1..(1 + Len(s))
      /\ t[1] = x
      /\ \A i \in 1..(1 + Len(s)) : i # 1 => t[i] = s[i - 1] /\ i - 1 \in 1..Len(s)
    <2>1. /\ <<x>> \in Seq(Jobs) /\ Len(<<x>>) = 1 /\ <<x>>[1] = x
        OBVIOUS
    <2>2. /\ t \in Seq(Jobs) /\ Len(t) = 1 + Len(s)
          /\ \A i \in 1..(1 + Len(s)) : t[i] = IF i <= 1 THEN <<x>>[i] ELSE s[i - 1]
        BY <2>1, ConcatProperties
    <2> HIDE DEF t
    <2>3. Len(s) \in Nat /\ DOMAIN s = 1..Len(s) /\ DOMAIN t = 1..(1 + Len(s))
        BY <2>2, LenProperties
    <2>4. QED
        BY <2>1, <2>2, <2>3
<1> HIDE DEF t
<1>2. ASSUME NEW i \in 1..(1 + Len(s)), NEW k \in 1..(1 + Len(s)), i < k
      PROVE  t[i] < t[k]
    <2>1. k # 1 /\ t[k] = s[k - 1] /\ k - 1 \in 1..Len(s)
        BY <1>1, <1>2
    <2>2. CASE i = 1
        BY <1>1, <2>1, <2>2 DEF Below
    <2>3. CASE i # 1
        <3>1. t[i] = s[i - 1] /\ i - 1 \in 1..Len(s) /\ i - 1 < k - 1
            BY <1>1, <1>2, <2>3
        <3>2. QED
            BY <1>1, <2>1, <3>1 DEF Increasing
    <2>4. QED
        BY <2>2, <2>3
<1>3. QED
    BY <1>1, <1>2 DEF Increasing, t

\* The head is older than what it leaves, which is still in order.
LEMMA IncreasingTail ==
    ASSUME NEW s \in Seq(Jobs), Increasing(s), s # <<>>
    PROVE  Increasing(Tail(s)) /\ Below(Head(s), Tail(s))
<1>1. /\ Len(s) \in Nat /\ DOMAIN s = 1..Len(s) /\ Head(s) = s[1]
      /\ Tail(s) \in Seq(Jobs) /\ Len(Tail(s)) = Len(s) - 1
      /\ \A i \in 1..(Len(s) - 1) : Tail(s)[i] = s[i + 1]
    BY LenProperties, HeadTailProperties
<1>2. DOMAIN Tail(s) = 1..(Len(s) - 1)
    BY <1>1, LenProperties
<1>3. ASSUME NEW i \in 1..(Len(s) - 1)
      PROVE  i + 1 \in 1..Len(s) /\ 1 \in 1..Len(s) /\ 1 < i + 1
    BY <1>1
<1>4. QED
    BY <1>1, <1>2, <1>3 DEF Increasing, Below

-----------------------------------------------------------------------------
(* One ActiveQueue that runs one job at a time: the job it took is the     *)
(* only one it may put back, and all that wait are younger.                *)

OneAtATime ==
    MaxStarts = 1 /\ Concurrency = 1 /\ ~Backoff /\ ReportingJobs = {}

OpenPhase == {"racing", "resolved", "handled"}

\* The jobs that may go back to the head of the list.
Out(j) ==
    \/ \E q \in Queues : held[q] = j
    \/ \E r \in Runs : runs[r].job = j /\ runs[r].phase \in OpenPhase

InPlace == InCreationOrder /\ \A j \in Jobs : Out(j) => Below(j, unsettled)

\* The job of an open race is active.
LEMMA RunIsActive ==
    ASSUME IInv, Account, NEW r \in Runs, runs[r].phase \in OpenPhase
    PROVE  /\ runs[r].queue \in Queues
           /\ Contains(active[runs[r].queue], runs[r].job)
<1> DEFINE q == runs[r].queue
           j == runs[r].job
<1>1. q \in Queues /\ j \in Jobs /\ active[q] \in Seq(Jobs)
    BY DEF IInv, RunsOK, OpenPhase, TypeOK
<1>2. r \in RunsOn(q, j)
    BY DEF RunsOn, On, Counted, OpenPhase
<1> HIDE DEF q, j
<1>3. Cardinality(RunsOn(q, j)) \in Nat /\ Cardinality(RunsOn(q, j)) # 0
    BY <1>2, RunsAreFinite, FS_EmptySet
<1>4. Count(active[q], j) = Due(q, j) + Cardinality(RunsOn(q, j)) /\ Due(q, j) \in {0, 1}
    BY <1>1 DEF Account, Due
<1>5. Count(active[q], j) # 0
    BY <1>3, <1>4
<1>6. QED
    BY <1>1, <1>5, CountIsNat DEF q, j

\* So is the job in the hand of a loop at its second await.
LEMMA HandIsActive ==
    ASSUME IInv, Account, NEW q \in Queues, loop[q] = "update"
    PROVE  Contains(active[q], held[q])
<1> DEFINE j == held[q]
<1>1. j \in Jobs /\ active[q] \in Seq(Jobs)
    BY DEF IInv, LoopOK, TypeOK
<1>2. Cardinality(RunsOn(q, j)) \in Nat /\ Due(q, j) = 1
    BY RunsAreFinite DEF Due
<1> HIDE DEF j
<1>3. Count(active[q], j) = 1 + Cardinality(RunsOn(q, j))
    BY <1>1, <1>2 DEF Account
<1>4. Count(active[q], j) # 0
    BY <1>2, <1>3
<1>5. QED
    BY <1>1, <1>4, CountIsNat DEF j

\* There is one queue, its index is 0 and it has at most one active job, none
\* at its first await.
LEMMA OneActive ==
    ASSUME IInv, OneAtATime, NEW q \in Queues
    PROVE  /\ \A k \in Queues : k = q
           /\ index[q] = 0
           /\ \A j, k : Contains(active[q], j) /\ Contains(active[q], k) => j = k
           /\ loop[q] \in {"unused", "next"} => \A j : ~Contains(active[q], j)
<1>1. \A k \in Queues : k = q
    BY DEF OneAtATime, Queues
<1>2. index[q] = 0
    BY DEF IInv, TypeOK, OneAtATime
<1>3. /\ active[q] \in Seq(Jobs) /\ Len(active[q]) \in Nat
      /\ DOMAIN active[q] = 1..Len(active[q])
    BY LenProperties DEF IInv, TypeOK
<1>4. Len(active[q]) <= 1
    BY DEF IInv, LoopOK, OneAtATime
<1>5. \A i \in DOMAIN active[q] : i = 1
    BY <1>3, <1>4
<1>6. \A j, k : Contains(active[q], j) /\ Contains(active[q], k) => j = k
    BY <1>5 DEF Contains
<1>7. ASSUME loop[q] \in {"unused", "next"} PROVE DOMAIN active[q] = {}
    <2>1. CASE loop[q] = "unused"
        BY <2>1 DEF IInv, LoopOK
    <2>2. CASE loop[q] = "next"
        <3>1. Len(active[q]) <= 0
            BY <1>2, <2>2 DEF IInv, LoopOK
        <3>2. QED
            BY <1>3, <3>1
    <2>3. QED
        BY <1>7, <2>1, <2>2
<1>8. loop[q] \in {"unused", "next"} => \A j : ~Contains(active[q], j)
    BY <1>3, <1>7 DEF Contains
<1>9. QED
    BY <1>1, <1>2, <1>6, <1>8

\* At most one job is out.
LEMMA OneOut ==
    ASSUME IInv, Custody, Account, OneAtATime, NEW j \in Jobs, NEW k \in Jobs,
           Out(j), Out(k)
    PROVE  j = k
<1>1. ASSUME NEW q \in Queues, held[q] \in Jobs
      PROVE  loop[q] = "next" \/ Contains(active[q], held[q])
    BY <1>1, HandIsActive DEF Custody, Known, Jobs, NoJob
<1>2. ASSUME NEW r \in Runs, runs[r].phase \in OpenPhase
      PROVE  \E q \in Queues : Contains(active[q], runs[r].job)
    BY <1>2, RunIsActive
<1>3. CASE \E p, q \in Queues : held[p] = j /\ held[q] = k
    BY <1>3, OneActive
<1>4. CASE /\ \E q \in Queues : Contains(active[q], j)
           /\ \E q \in Queues : Contains(active[q], k)
    BY <1>4, OneActive
<1>5. ASSUME NEW a \in Jobs, NEW b \in Jobs,
             NEW q \in Queues, held[q] = a,
             NEW r \in Runs, runs[r].job = b, runs[r].phase \in OpenPhase
      PROVE  a = b
    <2>1. PICK p \in Queues : Contains(active[p], b)
        BY <1>2, <1>5
    <2>2. p = q /\ loop[q] # "next"
        BY <2>1, OneActive
    <2>3. Contains(active[q], a)
        BY <1>1, <1>5, <2>2
    <2>4. QED
        BY <2>1, <2>2, <2>3, OneActive
<1>6. QED
    BY <1>2, <1>3, <1>4, <1>5 DEF Out

\* When the loop is to look for a job, none is out.
LEMMA NoneOut ==
    ASSUME IInv, Custody, Account, OneAtATime, NEW q \in Queues,
           loop[q] \in {"unused", "timer"}, \A j : ~Contains(active[q], j),
           NEW j \in Jobs
    PROVE  ~Out(j)
<1>1. ASSUME NEW k \in Queues, held[k] = j PROVE FALSE
    <2>1. k = q /\ held[q] # NoJob
        BY <1>1, OneActive DEF Jobs, NoJob
    <2>2. QED
        BY <2>1 DEF Custody, Known
<1>2. ASSUME NEW r \in Runs, runs[r].job = j, runs[r].phase \in OpenPhase
      PROVE  FALSE
    BY <1>2, RunIsActive, OneActive
<1>3. QED
    BY <1>1, <1>2 DEF Out

\* A step that leaves the list and lets no job out keeps the order.
LEMMA NobodyMoves ==
    ASSUME InPlace, UNCHANGED unsettled, \A j \in Jobs : Out(j)' => Out(j)
    PROVE  InPlace'
BY DEF InPlace, InCreationOrder, Below

\* So does one after which the same runs are open, or fewer.
LEMMA RunsClose ==
    ASSUME InPlace, UNCHANGED <<unsettled, held>>,
           \A r \in Runs : runs'[r].phase \in OpenPhase =>
               runs'[r].job = runs[r].job /\ runs[r].phase \in OpenPhase
    PROVE  InPlace'
<1>1. ASSUME NEW j \in Jobs, Out(j)' PROVE Out(j)
    BY <1>1 DEF Out
<1>2. QED
    BY <1>1, NobodyMoves

\* next(): the head goes out, and all that stay are younger.
LEMMA CallNextInPlace ==
    ASSUME TypeOK, InPlace, OneAtATime, NEW q \in Queues, NEW n, CallNext(q, n),
           UNCHANGED runs, \A k \in Queues : k = q, \A j \in Jobs : ~Out(j)
    PROVE  InPlace'
<1>0. unsettled \in Seq(Jobs) /\ Increasing(unsettled)
    BY DEF TypeOK, InPlace, InCreationOrder, Increasing
<1>1. CASE unsettled' = unsettled /\ held' = [held EXCEPT ![q] = NoJob]
    <2>1. \A k \in Queues : held'[k] \notin Jobs
        BY <1>1 DEF TypeOK, Jobs, NoJob
    <2>2. ASSUME NEW j \in Jobs, Out(j)' PROVE Out(j)
        BY <2>1, <2>2 DEF Out
    <2>3. QED
        BY <1>1, <2>2, NobodyMoves
<1>2. CASE /\ unsettled # <<>> /\ unsettled' = Tail(unsettled)
           /\ held' = [held EXCEPT ![q] = Head(unsettled)]
    <2>1. Increasing(unsettled') /\ Below(Head(unsettled), unsettled')
        BY <1>0, <1>2, IncreasingTail
    <2>2. \A k \in Queues : held'[k] = Head(unsettled)
        BY <1>2 DEF TypeOK
    <2>3. ASSUME NEW j \in Jobs, Out(j)' PROVE j = Head(unsettled)
        BY <2>2, <2>3 DEF Out
    <2>4. \A j \in Jobs : Out(j)' => Below(j, unsettled)'
        BY <2>1, <2>3 DEF Below
    <2>5. InCreationOrder'
        BY <2>1 DEF InCreationOrder, Increasing
    <2>6. QED
        BY <2>4, <2>5 DEF InPlace
<1>3. QED
    BY <1>1, <1>2 DEF CallNext, OneAtATime

\* update() of the one job that is out puts it back to the head.
LEMMA FinallyInPlace ==
    ASSUME IInv, Custody, Account, OneAtATime, InPlace,
           NEW r \in Runs, FinallyUpdates(r)
    PROVE  InPlace'
<1> DEFINE x == runs[r].job
           new == [runs[r] EXCEPT !.phase = "updating"]
<1>1. /\ unsettled \in Seq(Jobs) /\ Increasing(unsettled) /\ x \in Jobs
      /\ runs[r].phase = "handled" /\ Update(x) /\ held' = held
      /\ runs' = [runs EXCEPT ![r] = new]
    BY DEF IInv, TypeOK, RunsOK, InPlace, InCreationOrder, Increasing,
           FinallyUpdates, loopVars
<1>2. new.phase \notin OpenPhase
    BY DEF IInv, TypeOK, RunRecord, OpenPhase
<1>3. Out(x)
    BY <1>1 DEF Out, OpenPhase
<1>4. \A s \in Runs : runs'[s] = IF s = r THEN new ELSE runs[s]
    BY <1>1 DEF IInv, TypeOK
<1> HIDE DEF new
<1>5. ASSUME NEW j \in Jobs, Out(j)'
      PROVE  \/ \E q \in Queues : held[q] = j
             \/ \E s \in Runs : /\ s # r
                               /\ runs[s].job = j /\ runs[s].phase \in OpenPhase
    BY <1>1, <1>2, <1>4, <1>5 DEF Out
<1>6. CASE jobs[x].state \notin Waiting
    <2>1. unsettled' = unsettled
        BY <1>1, <1>6 DEF Update
    <2>2. \A j \in Jobs : Out(j)' => Out(j)
        BY <1>5 DEF Out
    <2>3. QED
        BY <2>1, <2>2, NobodyMoves
<1>7. CASE jobs[x].state \in Waiting
    <2>1. unsettled' = <<x>> \o unsettled
        BY <1>1, <1>7 DEF Update
    <2>2. Below(x, unsettled)
        BY <1>1, <1>3 DEF InPlace
    <2>3. Increasing(unsettled')
        BY <1>1, <2>1, <2>2, IncreasingPrepend
    <2>4. ASSUME NEW j \in Jobs, Out(j)' PROVE FALSE
        <3>0. Out(j)
            BY <1>5, <2>4 DEF Out
        <3>1. j = x
            BY <1>1, <1>3, <3>0, OneOut
        <3>2. JobOK(x)
            BY <1>1 DEF Custody, SilentJobs, OneAtATime
        <3>3. HeldBy(x, r)
            BY <1>1 DEF HeldBy, Holding
        <3>4. \A q \in Queues : held[q] # x
            BY <3>2, <3>3 DEF JobOK, OnePlace
        <3>5. \A s \in Runs : runs[s].job = x /\ runs[s].phase \in OpenPhase => s = r
            BY <3>2, <3>3 DEF JobOK, OnePlace, HeldBy, Holding, OpenPhase
        <3>6. QED
            BY <1>5, <2>4, <3>1, <3>4, <3>5
    <2>5. QED
        BY <2>3, <2>4 DEF InPlace, InCreationOrder, Increasing
<1>8. QED
    BY <1>6, <1>7

\* What else a process function or a callback does closes a race or leaves it.
LEMMA RunInPlace ==
    ASSUME IInv, InPlace, NEW r \in Runs,
           \/ Settle(r) \/ FinallyReturns(r) \/ RemoveFromActive(r)
           \/ ProcessEnds(r) \/ CancellationTick(r)
    PROVE  InPlace'
<1> USE DEF adapterVars, loopVars
<1>0. runs \in [Runs -> RunRecord] /\ runs[r] \in RunRecord
    BY DEF IInv, TypeOK
<1>1. PICK run : /\ runs' = [runs EXCEPT ![r] = run]
                 /\ run.phase \in OpenPhase =>
                      run.job = runs[r].job /\ runs[r].phase \in OpenPhase
    <2>1. CASE Settle(r)
        <3> DEFINE new == [runs[r] EXCEPT !.phase = "handled"]
        <3>1. new.job = runs[r].job
            BY <1>0 DEF RunRecord
        <3>2. runs' = [runs EXCEPT ![r] = new] /\ runs[r].phase \in OpenPhase
            BY <2>1 DEF Settle, OpenPhase
        <3> HIDE DEF new
        <3>3. QED
            BY <3>1, <3>2
    <2>2. CASE FinallyReturns(r)
        <3> DEFINE new == [runs[r] EXCEPT !.phase = "abandoned"]
        <3>1. new.phase \notin OpenPhase
            BY <1>0 DEF RunRecord, OpenPhase
        <3>2. runs' = [runs EXCEPT ![r] = new]
            BY <2>2 DEF FinallyReturns
        <3> HIDE DEF new
        <3>3. QED
            BY <3>1, <3>2
    <2>3. CASE RemoveFromActive(r)
        <3> DEFINE over == [runs[r] EXCEPT !.phase = "closed"]
                   new == Recycled(over)
        <3>1. over.phase = "closed" /\ IdleRun.phase = "idle"
            BY <1>0 DEF RunRecord, IdleRun
        <3>2. runs' = [runs EXCEPT ![r] = new]
            BY <2>3 DEF RemoveFromActive
        <3> HIDE DEF over
        <3>3. new.phase \notin OpenPhase
            BY <3>1 DEF Recycled, OpenPhase
        <3> HIDE DEF new
        <3>4. QED
            BY <3>2, <3>3
    <2>4. CASE CancellationTick(r)
        <3> DEFINE new == [runs[r] EXCEPT !.phase = "resolved", !.outcome = "cancelled"]
        <3>1. new.job = runs[r].job
            BY <1>0 DEF RunRecord
        <3>2. runs' = [runs EXCEPT ![r] = new] /\ runs[r].phase \in OpenPhase
            BY <1>0, <2>4 DEF CancellationTick, OpenPhase, RunRecord
        <3> HIDE DEF new
        <3>3. QED
            BY <3>1, <3>2
    <2>5. CASE ProcessEnds(r) /\ runs[r].phase = "racing"
        <3>1. PICK o \in {"value", "error"} :
                  runs' = [runs EXCEPT ![r] = [runs[r] EXCEPT !.phase = "resolved",
                                                              !.outcome = o,
                                                              !.working = FALSE]]
            BY <1>0, <2>5 DEF ProcessEnds
        <3> DEFINE new == [runs[r] EXCEPT !.phase = "resolved", !.outcome = o,
                                          !.working = FALSE]
        <3>2. new.job = runs[r].job /\ runs' = [runs EXCEPT ![r] = new]
            BY <1>0, <3>1 DEF RunRecord
        <3> HIDE DEF new
        <3>3. QED
            BY <2>5, <3>2 DEF OpenPhase
    <2>6. CASE ProcessEnds(r) /\ runs[r].phase # "racing"
        <3> DEFINE over == [runs[r] EXCEPT !.working = FALSE]
                   new == Recycled(over)
        <3>1. runs' = [runs EXCEPT ![r] = new]
            BY <2>6 DEF ProcessEnds
        <3>2. /\ over.job = runs[r].job /\ over.phase = runs[r].phase
              /\ IdleRun.phase = "idle"
            BY <1>0 DEF RunRecord, IdleRun
        <3> HIDE DEF over
        <3>3. new = over \/ new.phase \notin OpenPhase
            BY <3>2 DEF Recycled, OpenPhase
        <3> HIDE DEF new
        <3>4. QED
            BY <3>1, <3>2, <3>3
    <2>7. QED
        BY <2>1, <2>2, <2>3, <2>4, <2>5, <2>6
<1>2. UNCHANGED <<unsettled, held>>
    BY DEF Settle, FinallyReturns, RemoveFromActive, ProcessEnds, CancellationTick
<1>3. \A s \in Runs : runs'[s] = IF s = r THEN run ELSE runs[s]
    BY <1>0, <1>1
<1>4. QED
    BY <1>1, <1>2, <1>3, RunsClose

\* The loop hands the job it took to a run, or leaks it, and its pass ends.
LEMMA LoopInPlace ==
    ASSUME IInv, Custody, OneAtATime, InPlace, NEW q \in Queues,
           Accept(q) \/ NothingToDo(q) \/ Launch(q) \/ LaunchThrows(q)
    PROVE  InPlace'
<1> USE DEF loopVars
<1>0. /\ held \in [Queues -> Jobs \cup {NoJob}]
      /\ runs \in [Runs -> RunRecord]
    BY DEF IInv, TypeOK
<1>1. ASSUME Continue(q) PROVE EndPass(q)
    BY <1>1, OneActive DEF Continue, OneAtATime
<1>2. ASSUME EndPass(q)
      PROVE  unsettled' = unsettled /\ \A k \in Queues : held'[k] \in {held[k], NoJob}
    BY <1>0, <1>2 DEF EndPass
<1>3. CASE Accept(q)
    <2>1. jobs[held[q]].state \notin Waiting
        <3>1. held[q] \in Jobs
            BY <1>0, <1>3 DEF Accept
        <3>2. JobOK(held[q])
            BY <3>1 DEF Custody, SilentJobs, OneAtATime
        <3>3. QED
            BY <3>2 DEF JobOK, StateFits, Taken, Waiting
    <2>2. UNCHANGED <<unsettled, held, runs>>
        BY <1>3, <2>1 DEF Accept, Update
    <2>3. QED
        BY <2>2, RunsClose
<1>4. CASE NothingToDo(q)
    <2>1. unsettled' = unsettled /\ runs' = runs
        BY <1>1, <1>2, <1>4 DEF NothingToDo
    <2>2. ASSUME NEW j \in Jobs, Out(j)' PROVE Out(j)
        <3>1. \A k \in Queues : held'[k] = j => held[k] = j
            BY <1>1, <1>2, <1>4 DEF NothingToDo, Jobs, NoJob
        <3>2. QED
            BY <2>1, <2>2, <3>1 DEF Out
    <2>3. QED
        BY <2>1, <2>2, NobodyMoves
<1>5. CASE Launch(q) \/ LaunchThrows(q)
    <2>1. PICK r \in Runs : \E o, ph, w :
              runs' = [runs EXCEPT ![r] = [job |-> held[q], queue |-> q, phase |-> ph,
                                           outcome |-> o, working |-> w]]
        BY <1>5 DEF Launch, LaunchThrows
    <2>0. PICK o, ph, w :
              runs' = [runs EXCEPT ![r] = [job |-> held[q], queue |-> q, phase |-> ph,
                                           outcome |-> o, working |-> w]]
        BY <2>1
    <2>2. EndPass(q)
        BY <1>1, <1>5 DEF Launch, LaunchThrows
    <2> DEFINE new == [job |-> held[q], queue |-> q, phase |-> ph,
                       outcome |-> o, working |-> w]
    <2>3. new.job = held[q]
        OBVIOUS
    <2>4. \A s \in Runs : runs'[s] = IF s = r THEN new ELSE runs[s]
        BY <1>0, <2>0
    <2> HIDE DEF new
    <2>5. ASSUME NEW j \in Jobs, Out(j)' PROVE Out(j)
        <3>1. \A k \in Queues : held'[k] = j => held[k] = j
            BY <1>2, <2>2 DEF Jobs, NoJob
        <3>2. \A s \in Runs : runs'[s].job = j /\ runs'[s].phase \in OpenPhase =>
                                  held[q] = j \/ (runs[s].job = j /\ runs[s].phase \in OpenPhase)
            BY <2>3, <2>4
        <3>3. QED
            BY <2>5, <3>1, <3>2 DEF Out
    <2>6. QED
        BY <1>2, <2>2, <2>5, NobodyMoves
<1>6. QED
    BY <1>3, <1>4, <1>5

\* add(): the job is younger than all that were added.
LEMMA AddInPlace ==
    ASSUME IInv, Custody, InPlace, NEW n \in RetryCounts, Add(n)
    PROVE  InPlace'
<1> USE DEF loopVars
<1> DEFINE x == created + 1
<1>1. /\ x \in Jobs /\ unsettled' = Append(unsettled, x)
      /\ held' = held /\ runs' = runs
      /\ unsettled \in Seq(Jobs) /\ Increasing(unsettled) /\ created \in Nat
    BY DEF Add, IInv, TypeOK, InPlace, InCreationOrder, Increasing
<1>2. \A i \in DOMAIN unsettled : unsettled[i] \in Jobs /\ unsettled[i] <= created
    <2>1. \A i \in DOMAIN unsettled : unsettled[i] \in Jobs /\ Contains(unsettled, unsettled[i])
        BY <1>1, LenProperties DEF Contains
    <2>2. QED
        BY <2>1 DEF Custody, Known
<1>3. \A i \in DOMAIN unsettled : unsettled[i] < x
    BY <1>1, <1>2 DEF Jobs
<1>4. Increasing(unsettled')
    BY <1>1, <1>3, IncreasingAppend
<1>5. ASSUME NEW j \in Jobs, Out(j)' PROVE Below(j, unsettled)'
    <2>1. Out(j)
        BY <1>1, <1>5 DEF Out
    <2>2. j <= created
        BY <2>1 DEF Out, Custody, Known
    <2>3. j < x
        BY <1>1, <2>2 DEF Jobs
    <2> HIDE DEF x
    <2>4. /\ Len(unsettled) \in Nat /\ DOMAIN unsettled = 1..Len(unsettled)
          /\ DOMAIN unsettled' = 1..(Len(unsettled) + 1)
          /\ \A i \in 1..Len(unsettled) : unsettled'[i] = unsettled[i]
          /\ unsettled'[Len(unsettled) + 1] = x
        BY <1>1, AppendProperties, LenProperties
    <2>5. Below(j, unsettled)
        BY <2>1 DEF InPlace
    <2>6. \A i \in 1..(Len(unsettled) + 1) : i \in 1..Len(unsettled) \/ i = Len(unsettled) + 1
        BY <2>4
    <2>7. QED
        BY <2>3, <2>4, <2>5, <2>6 DEF Below
<1>6. QED
    BY <1>4, <1>5 DEF InPlace, InCreationOrder, Increasing

\* stop() decides open races and takes no job in hand.
LEMMA StopInPlace ==
    ASSUME IInv, InPlace, NEW q, StopActiveQueue(q)
    PROVE  InPlace'
<1>1. UNCHANGED <<unsettled, held>>
    BY DEF StopActiveQueue, adapterVars
<1>2. ASSUME NEW r \in Runs
      PROVE  runs'[r].phase \in OpenPhase =>
                 runs'[r].job = runs[r].job /\ runs[r].phase \in OpenPhase
    <2> DEFINE new == [runs[r] EXCEPT !.phase = "resolved", !.outcome = "stop"]
    <2>1. runs'[r] = runs[r] \/ (runs'[r] = new /\ runs[r].phase = "racing")
        BY DEF StopActiveQueue
    <2>2. new.job = runs[r].job
        BY DEF IInv, TypeOK, RunRecord
    <2> HIDE DEF new
    <2>3. QED
        BY <2>1, <2>2 DEF OpenPhase
<1>3. QED
    BY <1>1, <1>2, RunsClose

\* Every step keeps the order.
LEMMA StepInPlace ==
    ASSUME OneAtATime
    PROVE  IInv /\ Custody /\ Account /\ InPlace /\ [Next]_vars => InPlace'
<1> SUFFICES ASSUME IInv, Custody, Account, InPlace, [Next]_vars PROVE InPlace'
    OBVIOUS
<1> USE DEF clientVars, adapterVars, loopVars
<1>1. ASSUME UNCHANGED <<unsettled, held, runs>>
      PROVE  InPlace'
    BY <1>1, RunsClose
<1>2. CASE Client
    <2>1. ASSUME NEW j \in Jobs, CancelJobBegin(j) PROVE InPlace'
        BY <1>1, <2>1 DEF CancelJobBegin
    <2>2. CASE RemoveSettledJobs
        BY <1>1, <2>2 DEF RemoveSettledJobs
    <2>3. ASSUME NEW p \in Processes, StartQueue(p) PROVE InPlace'
        <3>1. PICK q \in Queues : loop[q] = "unused" /\ StartActiveQueue(q)
            BY <2>3 DEF StartQueue
        <3>2. /\ \A k \in Queues : k = q
              /\ \A j : ~Contains(active[q], j)
            BY <3>1, OneActive
        <3>3. \A j \in Jobs : ~Out(j)
            BY <3>1, <3>2, NoneOut
        <3>4. QED
            BY <3>1, <3>2, <3>3, CallNextInPlace DEF StartActiveQueue, IInv
    <2>4. ASSUME NEW p \in Processes, StopQueue(p) PROVE InPlace'
        BY <2>4, StopInPlace DEF StopQueue
    <2>5. QED
        BY <1>2, <2>1, <2>2, <2>3, <2>4, AddInPlace DEF Client
<1>3. CASE Microtask
    <2>1. ASSUME NEW j \in Jobs, CancelJobFinish(j) PROVE InPlace'
        BY <1>1, <2>1 DEF CancelJobFinish
    <2>2. QED
        BY <1>3, <2>1, LoopInPlace, RunInPlace, FinallyInPlace DEF Microtask
<1>4. CASE Timer
    <2>1. CASE EvictSettledJobs
        BY <1>1, <2>1 DEF EvictSettledJobs
    <2>2. ASSUME NEW q \in Queues, PollTimer(q) PROVE InPlace'
        <3>1. \A k \in Queues : k = q
            BY OneActive
        <3>2. \A j : ~Contains(active[q], j)
            <4>1. /\ Len(active[q]) \in Nat /\ DOMAIN active[q] = 1..Len(active[q])
                  /\ Len(active[q]) < 1
                BY <2>2, LenProperties DEF PollTimer, OneAtATime, IInv, TypeOK
            <4>2. QED
                BY <4>1 DEF Contains
        <3>3. \A j \in Jobs : ~Out(j)
            BY <2>2, <3>2, NoneOut DEF PollTimer
        <3>4. QED
            BY <2>2, <3>1, <3>3, CallNextInPlace DEF PollTimer, IInv
    <2>3. ASSUME NEW q \in Queues, StopDrained(q) \/ StopTimedOut(q) PROVE InPlace'
        BY <1>1, <2>3 DEF StopDrained, StopTimedOut
    <2>4. QED
        BY <1>4, <2>1, <2>2, <2>3, RunInPlace DEF Timer
<1>5. CASE Work
    BY <1>5, RunInPlace DEF Work, ReportProgress, OneAtATime
<1>6. CASE UNCHANGED vars
    BY <1>1, <1>6 DEF vars
<1>7. QED
    BY <1>2, <1>3, <1>4, <1>5, <1>6 DEF Next

LEMMA InitInPlace == Init => InPlace
BY DEF Init, InitAdapter, InitActiveQueues, InPlace, InCreationOrder, Below

\* With one ActiveQueue that runs one job at a time, no back-off and no progress
\* reports, the jobs that wait are in the order of their creation, however often
\* runs fail, are cancelled, stopped or abandoned: update() puts a job back to
\* the head, and it is older than all that wait.
THEOREM CreationOrderKept ==
    ASSUME OneAtATime
    PROVE  Spec => []InCreationOrder
<1>1. Init => IInv /\ Custody /\ Account /\ InPlace
    BY InitIInv, InitCustody, InitAccount, InitInPlace
<1>2. IInv /\ Custody /\ Account /\ InPlace /\ [Next]_vars
        => (IInv /\ Custody /\ Account /\ InPlace)'
    BY StepIInv, StepCustody, StepAccount, StepInPlace
<1>3. InPlace => InCreationOrder
    BY DEF InPlace
<1>4. QED
    BY <1>1, <1>2, <1>3, PTL DEF Spec

=============================================================================
