-------------------------- MODULE JobReads_proofs ---------------------------
(***************************************************************************)
(* Proofs about JobReads, for any number of jobs, ticks and changes: what  *)
(* the updates of a job tell, and what a walk through the pages returns.   *)
(***************************************************************************)
EXTENDS JobReads, FiniteSetTheorems, FunctionTheorems, SequenceTheorems,
        WellFoundedInduction, TLAPS

-----------------------------------------------------------------------------
(* Ranked: the elements of a finite set in an order, given as the set of   *)
(* pairs of which the first comes before the second.                       *)

StrictOrder(R, S) ==
    /\ \A x \in S : <<x, x>> \notin R
    /\ \A x, y, z \in S : <<x, y>> \in R /\ <<y, z>> \in R => <<x, z>> \in R
    /\ \A x, y \in S : x # y => <<x, y>> \in R \/ <<y, x>> \in R

Rank(x, S, R) == Cardinality({y \in S : <<y, x>> \in R})

LEMMA RankIsBelow ==
    ASSUME NEW S, IsFiniteSet(S), NEW R, StrictOrder(R, S), NEW x \in S
    PROVE  /\ Cardinality(S) \in Nat
           /\ Rank(x, S, R) \in 0..(Cardinality(S) - 1)
<1> DEFINE before == {y \in S : <<y, x>> \in R}
<1>1. before \subseteq S \ {x}
  BY DEF StrictOrder
<1>2. /\ IsFiniteSet(S \ {x})
      /\ Cardinality(S \ {x}) = Cardinality(S) - 1
      /\ Cardinality(S) \in Nat
  BY FS_RemoveElement, FS_CardinalityType
<1>3. IsFiniteSet(before) /\ Cardinality(before) <= Cardinality(S \ {x})
  BY <1>1, <1>2, FS_Subset
<1>4. Cardinality(before) \in Nat
  BY <1>3, FS_CardinalityType
<1> QED  BY <1>2, <1>3, <1>4 DEF Rank

LEMMA RankGrows ==
    ASSUME NEW S, IsFiniteSet(S), NEW R, StrictOrder(R, S),
           NEW x \in S, NEW y \in S, <<x, y>> \in R
    PROVE  Rank(x, S, R) < Rank(y, S, R)
<1> DEFINE lower == {z \in S : <<z, x>> \in R}
           higher == {z \in S : <<z, y>> \in R}
<1>1. lower \cup {x} \subseteq higher /\ x \notin lower
  BY DEF StrictOrder
<1>2. IsFiniteSet(lower) /\ IsFiniteSet(higher)
  BY FS_Subset
<1>3. /\ IsFiniteSet(lower \cup {x})
      /\ Cardinality(lower \cup {x}) = Cardinality(lower) + 1
  BY <1>1, <1>2, FS_AddElement
<1>4. Cardinality(lower \cup {x}) <= Cardinality(higher)
  BY <1>1, <1>2, FS_Subset
<1>5. Cardinality(lower) \in Nat /\ Cardinality(higher) \in Nat
  BY <1>2, FS_CardinalityType
<1> HIDE DEF lower, higher
<1>6. Cardinality(lower) < Cardinality(higher)
  BY <1>3, <1>4, <1>5
<1> QED  BY <1>6 DEF Rank, lower, higher

\* Of two elements the one of lower rank comes first.
LEMMA RankOrders ==
    ASSUME NEW S, IsFiniteSet(S), NEW R, StrictOrder(R, S), NEW x \in S, NEW y \in S
    PROVE  /\ Rank(x, S, R) < Rank(y, S, R) => <<x, y>> \in R
           /\ Rank(x, S, R) = Rank(y, S, R) => x = y
<1>1. Rank(x, S, R) \in Nat /\ Rank(y, S, R) \in Nat
  BY RankIsBelow
<1>2. <<y, x>> \in R => Rank(y, S, R) < Rank(x, S, R)
  BY RankGrows
<1>3. <<x, y>> \in R => Rank(x, S, R) < Rank(y, S, R)
  BY RankGrows
<1>4. x = y \/ <<x, y>> \in R \/ <<y, x>> \in R
  BY DEF StrictOrder
<1> QED  BY <1>1, <1>2, <1>3, <1>4

\* Every rank is taken.
LEMMA RankExists ==
    ASSUME NEW S, IsFiniteSet(S), NEW R, StrictOrder(R, S),
           NEW n \in 0..(Cardinality(S) - 1)
    PROVE  \E x \in S : Rank(x, S, R) = n
<1> DEFINE m == Cardinality(S)
           f == [x \in S |-> Rank(x, S, R)]
<1>1. m \in Nat
  BY FS_CardinalityType
<1>2. f \in [S -> 0..(m - 1)]
  BY RankIsBelow
<1>3. ASSUME NEW x \in S, NEW y \in S, f[x] = f[y] PROVE x = y
  BY <1>3, RankOrders
<1>4. IsFiniteSet(0..(m - 1)) /\ Cardinality(0..(m - 1)) = m
  <2>1. 0 \in Int /\ m - 1 \in Int
    BY <1>1
  <2>2. /\ IsFiniteSet(0..(m - 1))
        /\ Cardinality(0..(m - 1)) = IF 0 > m - 1 THEN 0 ELSE (m - 1) - 0 + 1
    BY <2>1, FS_Interval
  <2> HIDE DEF m
  <2>3. (IF 0 > m - 1 THEN 0 ELSE (m - 1) - 0 + 1) = m
    BY <1>1
  <2> QED  BY <2>2, <2>3
<1> HIDE DEF f
<1>5. f \in Injection(S, 0..(m - 1))
  BY <1>2, <1>3, Fun_IsInj
<1>6. f \in Surjection(S, 0..(m - 1))
  BY <1>4, <1>5, FS_Injection
<1>7. \E x \in S : f[x] = n
  BY <1>6 DEF Surjection
<1> QED  BY <1>7 DEF f

\* r lists the elements of S: each once, in the order R.
Lists(r, S, R) ==
    /\ r \in Seq(S)
    /\ Len(r) = Cardinality(S) /\ DOMAIN r = 1..Len(r)
    /\ \A i, k \in DOMAIN r : i < k => <<r[i], r[k]>> \in R
    /\ \A i, k \in DOMAIN r : r[i] = r[k] => i = k
    /\ \A x \in S : \E i \in DOMAIN r : r[i] = x
    /\ \A i \in DOMAIN r : Rank(r[i], S, R) = i - 1

LEMMA RankedLists ==
    ASSUME NEW S, IsFiniteSet(S), NEW R, StrictOrder(R, S), NEW f,
           f \in [1..Cardinality(S) -> S],
           \A n \in 1..Cardinality(S) : Rank(f[n], S, R) = n - 1,
           NEW r, r = f \o <<>>
    PROVE  Lists(r, S, R)
<1> DEFINE m == Cardinality(S)
<1>1. m \in Nat
  BY FS_CardinalityType
<1>2. \A n \in 1..m : f[n] \in S /\ Rank(f[n], S, R) = n - 1
  OBVIOUS
<1>3. f \in Seq(S)
  BY <1>1, <1>2
<1>4. r = f
  BY <1>3, ConcatEmptySeq
<1>5. Len(r) = m /\ DOMAIN r = 1..m
  BY <1>1, <1>3, <1>4
<1>6. \A i \in 1..m : r[i] \in S /\ Rank(r[i], S, R) = i - 1
  BY <1>2, <1>4
<1>7. ASSUME NEW i \in 1..m, NEW k \in 1..m, i < k PROVE <<r[i], r[k]>> \in R
  <2>1. Rank(r[i], S, R) < Rank(r[k], S, R)
    BY <1>1, <1>6, <1>7
  <2> QED  BY <1>6, <2>1, RankOrders
<1>8. ASSUME NEW i \in 1..m, NEW k \in 1..m, r[i] = r[k] PROVE i = k
  <2>1. i - 1 = k - 1
    BY <1>6, <1>8
  <2> QED  BY <1>1, <2>1
<1>9. ASSUME NEW x \in S PROVE \E i \in 1..m : r[i] = x
  <2>1. Rank(x, S, R) \in 0..(m - 1)
    BY RankIsBelow
  <2>2. PICK i \in 1..m : i - 1 = Rank(x, S, R)
    <3>1. Rank(x, S, R) + 1 \in 1..m /\ (Rank(x, S, R) + 1) - 1 = Rank(x, S, R)
      BY <1>1, <2>1
    <3> QED  BY <3>1
  <2>3. r[i] \in S /\ Rank(r[i], S, R) = Rank(x, S, R)
    BY <1>6, <2>2
  <2>4. r[i] = x
    BY <2>3, RankOrders, ZenonT(30)
  <2> QED  BY <2>4
<1> QED  BY <1>3, <1>4, <1>5, <1>6, <1>7, <1>8, <1>9 DEF Lists

\* The places of a sequence, or the ids of jobs, upwards.
Upwards(S) == {p \in S \X S : p[1] < p[2]}
Downwards(S) == {p \in S \X S : p[1] > p[2]}

LEMMA RankedUpwards ==
    ASSUME NEW S \in SUBSET Int, IsFiniteSet(S)
    PROVE  Lists(Ranked(S, LAMBDA p, q : p < q), S, Upwards(S))
<1> DEFINE R == Upwards(S)
<1>1. \A x, y \in S : <<x, y>> \in R <=> x < y
  BY DEF Upwards
<1> HIDE DEF R
<1>2. StrictOrder(R, S)
  BY <1>1 DEF StrictOrder
<1>3. \A x \in S : {y \in S : y < x} = {y \in S : <<y, x>> \in R}
  BY <1>1
<1>4. \A x \in S : Cardinality({y \in S : y < x}) = Rank(x, S, R)
  BY <1>3 DEF Rank
<1> DEFINE f == [n \in 1..Cardinality(S) |->
                    CHOOSE x \in S : Cardinality({y \in S : y < x}) = n - 1]
<1>5. ASSUME NEW n \in 1..Cardinality(S)
      PROVE  f[n] \in S /\ Rank(f[n], S, R) = n - 1
  <2> HIDE DEF f
  <2>0. \E x \in S : Rank(x, S, R) = n - 1
    <3>1. Cardinality(S) \in Nat
      BY FS_CardinalityType
    <3>2. n - 1 \in 0..(Cardinality(S) - 1)
      BY <3>1
    <3> QED  BY <1>2, <3>2, RankExists, ZenonT(60)
  <2>1. \E x \in S : Cardinality({y \in S : y < x}) = n - 1
    BY <1>4, <2>0
  <2>2. f[n] \in S /\ Cardinality({y \in S : y < f[n]}) = n - 1
    BY <2>1 DEF f
  <2> QED  BY <1>4, <2>2
<1>6. Ranked(S, LAMBDA p, q : p < q) = f \o <<>>
  BY DEF Ranked
<1>7. f \in [1..Cardinality(S) -> S]
  BY <1>5
<1> HIDE DEF f
<1> QED  BY <1>2, <1>5, <1>6, <1>7, RankedLists DEF R

LEMMA RankedDownwards ==
    ASSUME NEW S \in SUBSET Int, IsFiniteSet(S)
    PROVE  Lists(Ranked(S, LAMBDA i, j : i > j), S, Downwards(S))
<1> DEFINE R == Downwards(S)
<1>1. \A x, y \in S : <<x, y>> \in R <=> x > y
  BY DEF Downwards
<1> HIDE DEF R
<1>2. StrictOrder(R, S)
  BY <1>1 DEF StrictOrder
<1>3. \A x \in S : {y \in S : y > x} = {y \in S : <<y, x>> \in R}
  BY <1>1
<1>4. \A x \in S : Cardinality({y \in S : y > x}) = Rank(x, S, R)
  BY <1>3 DEF Rank
<1> DEFINE f == [n \in 1..Cardinality(S) |->
                    CHOOSE x \in S : Cardinality({y \in S : y > x}) = n - 1]
<1>5. ASSUME NEW n \in 1..Cardinality(S)
      PROVE  f[n] \in S /\ Rank(f[n], S, R) = n - 1
  <2> HIDE DEF f
  <2>0. \E x \in S : Rank(x, S, R) = n - 1
    <3>1. Cardinality(S) \in Nat
      BY FS_CardinalityType
    <3>2. n - 1 \in 0..(Cardinality(S) - 1)
      BY <3>1
    <3> QED  BY <1>2, <3>2, RankExists, ZenonT(60)
  <2>1. \E x \in S : Cardinality({y \in S : y > x}) = n - 1
    BY <1>4, <2>0
  <2>2. f[n] \in S /\ Cardinality({y \in S : y > f[n]}) = n - 1
    BY <2>1 DEF f
  <2> QED  BY <1>4, <2>2
<1>6. Ranked(S, LAMBDA i, j : i > j) = f \o <<>>
  BY DEF Ranked
<1>7. f \in [1..Cardinality(S) -> S]
  BY <1>5
<1> HIDE DEF f
<1> QED  BY <1>2, <1>5, <1>6, <1>7, RankedLists DEF R

-----------------------------------------------------------------------------
(* Sequences that are put together from the places of others.              *)

LEMMA ArrangedIs ==
    ASSUME NEW T, NEW items \in Seq(T), NEW places \in Seq(DOMAIN items)
    PROVE  /\ Arranged(items, places) \in Seq(T)
           /\ Len(Arranged(items, places)) = Len(places)
           /\ DOMAIN Arranged(items, places) = 1..Len(places)
           /\ \A n \in 1..Len(places) : Arranged(items, places)[n] = items[places[n]]
<1> DEFINE f == [n \in DOMAIN places |-> items[places[n]]]
<1>1. Len(places) \in Nat /\ DOMAIN places = 1..Len(places)
  BY LenProperties
<1>2. items \in [DOMAIN items -> T] /\ places \in [1..Len(places) -> DOMAIN items]
  BY LenProperties
<1>3. f \in Seq(T)
  BY <1>1, <1>2
<1>4. Len(f) = Len(places) /\ DOMAIN f = 1..Len(places)
  BY <1>1, <1>3
<1>5. \A n \in 1..Len(places) : f[n] = items[places[n]]
  BY <1>1
<1> HIDE DEF f
<1>6. Arranged(items, places) = f
  BY <1>3, ConcatEmptySeq DEF Arranged, f
<1> QED  BY <1>3, <1>4, <1>5, <1>6

\* rest has some elements of items in their order, ps[n] being the place of the
\* n-th of them: that place was not before n.
KeptFrom(rest, items, places, ps) ==
    /\ DOMAIN rest = 1..Len(rest) /\ Len(rest) \in Nat
    /\ ps \in [DOMAIN rest -> places]
    /\ \A n \in DOMAIN rest : ps[n] \in Nat /\ n <= ps[n] /\ rest[n] = items[ps[n]]
    /\ \A i, k \in DOMAIN rest : i < k => ps[i] < ps[k]
    /\ \A p \in places : \E n \in DOMAIN rest : ps[n] = p

LEMMA RemainingIs ==
    ASSUME NEW T, NEW items \in Seq(T), NEW places \in SUBSET DOMAIN items
    PROVE  /\ Remaining(items, places) \in Seq(T)
           /\ IsFiniteSet(places)
           /\ Len(Remaining(items, places)) = Cardinality(places)
           /\ \E ps : KeptFrom(Remaining(items, places), items, places, ps)
<1> DEFINE ps == Ranked(places, LAMBDA p, q : p < q)
<1>1. Len(items) \in Nat /\ DOMAIN items = 1..Len(items)
  BY LenProperties
<1>2. places \in SUBSET Int /\ IsFiniteSet(places)
  <2>1. IsFiniteSet(1..Len(items)) /\ places \subseteq 1..Len(items)
    BY <1>1, FS_Interval
  <2>2. IsFiniteSet(places)
    BY <2>1, FS_Subset
  <2> QED  BY <1>1, <2>1, <2>2
<1>3. Lists(ps, places, Upwards(places))
  BY <1>2, RankedUpwards
<1>4. Remaining(items, places) = Arranged(items, ps)
  BY DEF Remaining
<1> HIDE DEF ps
<1>5. ps \in Seq(places) /\ Len(ps) = Cardinality(places) /\ Cardinality(places) \in Nat
      /\ DOMAIN ps = 1..Len(ps)
  BY <1>2, <1>3, FS_CardinalityType DEF Lists
<1>6. ps \in Seq(DOMAIN items) /\ ps \in [1..Len(ps) -> places]
  BY <1>5, LenProperties
<1>7. /\ Arranged(items, ps) \in Seq(T)
      /\ Len(Arranged(items, ps)) = Len(ps)
      /\ DOMAIN Arranged(items, ps) = 1..Len(ps)
      /\ \A n \in 1..Len(ps) : Arranged(items, ps)[n] = items[ps[n]]
  BY <1>6, ArrangedIs
<1>8. ASSUME NEW n \in 1..Len(ps) PROVE ps[n] \in Nat /\ n <= ps[n]
  <2>1. ps[n] \in places /\ ps[n] \in 1..Len(items) /\ ps[n] \in Nat
    BY <1>1, <1>6
  <2>2. Rank(ps[n], places, Upwards(places)) = n - 1
    BY <1>3, <1>5 DEF Lists
  <2> DEFINE lower == {y \in places : <<y, ps[n]>> \in Upwards(places)}
  <2>3. lower \subseteq 1..(ps[n] - 1)
    <3> SUFFICES ASSUME NEW y \in lower PROVE y \in 1..(ps[n] - 1)
      OBVIOUS
    <3>1. y \in 1..Len(items) /\ y < ps[n]
      BY <1>1 DEF Upwards
    <3> QED  BY <1>1, <2>1, <3>1
  <2>4. IsFiniteSet(1..(ps[n] - 1)) /\ Cardinality(1..(ps[n] - 1)) = ps[n] - 1
    <3>1. 1 \in Int /\ ps[n] - 1 \in Int /\ ps[n] >= 1
      BY <2>1
    <3>2. /\ IsFiniteSet(1..(ps[n] - 1))
          /\ Cardinality(1..(ps[n] - 1)) =
                IF 1 > ps[n] - 1 THEN 0 ELSE (ps[n] - 1) - 1 + 1
      BY <3>1, FS_Interval
    <3>3. (IF 1 > ps[n] - 1 THEN 0 ELSE (ps[n] - 1) - 1 + 1) = ps[n] - 1
      BY <2>1, <3>1
    <3> QED  BY <3>2, <3>3
  <2>5. Cardinality(lower) <= Cardinality(1..(ps[n] - 1))
    BY <2>3, <2>4, FS_Subset
  <2>6. Cardinality(lower) = n - 1
    BY <2>2 DEF Rank
  <2> HIDE DEF lower
  <2>7. n - 1 <= ps[n] - 1
    BY <2>4, <2>5, <2>6
  <2> QED  BY <1>5, <2>1, <2>7
<1>9. ASSUME NEW i \in 1..Len(ps), NEW k \in 1..Len(ps), i < k PROVE ps[i] < ps[k]
  BY <1>3, <1>5, <1>9 DEF Lists, Upwards
<1>10. \A p \in places : \E n \in 1..Len(ps) : ps[n] = p
  BY <1>3, <1>5 DEF Lists
<1>11. KeptFrom(Arranged(items, ps), items, places, ps)
  BY <1>5, <1>6, <1>7, <1>8, <1>9, <1>10 DEF KeptFrom
<1> QED  BY <1>2, <1>4, <1>5, <1>7, <1>11

-----------------------------------------------------------------------------
(* The jobs.                                                               *)

StoreInv ==
    /\ adapter \in Adapters /\ reader \in Readers
    /\ jobs \in [Jobs -> JobRecord]
    /\ order \in Seq(Jobs) /\ IsInjective(order)
    /\ changes \in 0..MaxChanges
    /\ putBack \subseteq Jobs /\ urgent \subseteq Jobs

\* The list has the stored jobs; job 1 has been added; what has an outcome is
\* over; and BullMQ has no cancelled jobs.
JobsInv ==
    /\ \A j \in Jobs : IsStored(j) <=> \E i \in DOMAIN order : order[i] = j
    /\ jobs[1].state # "new"
    /\ \A j \in Jobs : jobs[j].state \in {"COMPLETED", "FAILED"} => jobs[j].over
    /\ adapter = "bullmq" => \A j \in Jobs : jobs[j].state # "CANCELLED"

\* The three things that happen to the list.
Changes(j) ==
    /\ IsStored(j) /\ jobs'[j].state \notin NotStored
    /\ UNCHANGED <<order, putBack>>
Enters(j) ==
    /\ ~IsStored(j) /\ jobs'[j].state \notin NotStored
    /\ order' = Append(order, j)
    /\ \/ jobs[j].state = "new" /\ putBack' = putBack
       \/ adapter = "memory" /\ putBack' = putBack \cup {j}
Drops(j) ==
    /\ IsStored(j) /\ jobs'[j].state = "removed"
    /\ order' = Remaining(order, {i \in DOMAIN order : order[i] # j})
    /\ putBack' = putBack

StoreStep(j) ==
    /\ jobs' \in [Jobs -> JobRecord] /\ \A i \in Jobs \ {j} : jobs'[i] = jobs[i]
    /\ jobs[j].over => jobs'[j].over
    /\ jobs'[j].state \in {"COMPLETED", "FAILED"} => jobs'[j].over
    /\ adapter = "bullmq" => jobs'[j].state # "CANCELLED"
    /\ Changes(j) \/ Enters(j) \/ Drops(j)

LEMMA JobOneIsAJob == 1 \in Jobs
BY JobCountAssumption DEF Jobs

\* Becomes.
LEMMA BecomesStep ==
    ASSUME StoreInv, NEW j \in Jobs, NEW state \in JobState, NEW progress \in 0..Full,
           IsStored(j), Becomes(j, state, progress),
           adapter = "bullmq" => state # "CANCELLED"
    PROVE  StoreStep(j)
<1> DEFINE v == [state |-> state, progress |-> progress,
                 over |-> jobs[j].over \/ state \in {"COMPLETED", "FAILED"}]
<1>1. jobs \in [Jobs -> JobRecord]
  BY DEF StoreInv
<1>2. jobs[j] \in [state : JobState \cup NotStored, progress : 0..Full, over : BOOLEAN]
  BY <1>1 DEF JobRecord
<1>3. v \in JobRecord
  BY <1>2 DEF JobRecord
<1>4. jobs' = [jobs EXCEPT ![j] = v]
  BY <1>1, <1>2 DEF Becomes
<1>5. v.state = state /\ (jobs[j].over => v.over)
      /\ (state \in {"COMPLETED", "FAILED"} => v.over)
  OBVIOUS
<1> HIDE DEF v
<1>6. jobs' \in [Jobs -> JobRecord] /\ jobs'[j] = v /\ \A i \in Jobs \ {j} : jobs'[i] = jobs[i]
  BY <1>1, <1>3, <1>4
<1>7. state \notin NotStored
  BY DEF JobState, Final, NotStored
<1>8. UNCHANGED <<order, putBack>>
  BY DEF Becomes
<1>9. Changes(j)
  BY <1>5, <1>6, <1>7, <1>8 DEF Changes
<1> QED  BY <1>5, <1>6, <1>9 DEF StoreStep

\* Leaves.
LEMMA LeavesStep ==
    ASSUME StoreInv, NEW j \in Jobs, IsStored(j), Leaves(j)
    PROVE  StoreStep(j)
<1> DEFINE v == [state |-> "removed", progress |-> jobs[j].progress,
                 over |-> jobs[j].over \/ adapter = "bullmq"]
<1>1. jobs \in [Jobs -> JobRecord]
  BY DEF StoreInv
<1>2. jobs[j] \in [state : JobState \cup NotStored, progress : 0..Full, over : BOOLEAN]
  BY <1>1 DEF JobRecord
<1>3. v \in JobRecord
  BY <1>2 DEF JobRecord, NotStored
<1>4. jobs' = [jobs EXCEPT ![j] = v]
  BY <1>1, <1>2 DEF Leaves
<1>5. v.state = "removed" /\ (jobs[j].over => v.over)
  OBVIOUS
<1> HIDE DEF v
<1>6. jobs' \in [Jobs -> JobRecord] /\ jobs'[j] = v /\ \A i \in Jobs \ {j} : jobs'[i] = jobs[i]
  BY <1>1, <1>3, <1>4
<1>7. Drops(j)
  BY <1>5, <1>6 DEF Leaves, Drops
<1> QED  BY <1>5, <1>6, <1>7 DEF StoreStep

\* Add, and what is stored again.
LEMMA EntersStep ==
    ASSUME StoreInv, NEW j \in Jobs, NEW v \in JobRecord, ~IsStored(j),
           jobs[j].state = "removed" => adapter = "memory",
           v.state \notin NotStored, jobs[j].over => v.over,
           v.state \in {"COMPLETED", "FAILED"} => v.over,
           adapter = "bullmq" => v.state # "CANCELLED",
           jobs' = [jobs EXCEPT ![j] = v], order' = Append(order, j),
           putBack' = IF jobs[j].state = "new" THEN putBack ELSE putBack \cup {j}
    PROVE  StoreStep(j)
<1>1. jobs \in [Jobs -> JobRecord]
  BY DEF StoreInv
<1>2. jobs' \in [Jobs -> JobRecord] /\ jobs'[j] = v /\ \A i \in Jobs \ {j} : jobs'[i] = jobs[i]
  BY <1>1
<1>3. jobs[j].state = "new" \/ jobs[j].state = "removed"
  BY DEF IsStored, NotStored
<1>4. Enters(j)
  BY <1>2, <1>3 DEF Enters
<1> QED  BY <1>2, <1>4 DEF StoreStep

\* Updates: a removed job enters once more.
LEMMA UpdatesStep ==
    ASSUME StoreInv, NEW j \in Jobs, NEW state \in JobState, NEW progress \in 0..Full,
           adapter = "memory", jobs[j].state # "new", Updates(j, state, progress)
    PROVE  StoreStep(j)
<1>0. adapter # "bullmq"
  OBVIOUS
<1>1. CASE IsStored(j)
  BY <1>0, <1>1, BecomesStep DEF Updates
<1>2. CASE ~IsStored(j)
  <2> DEFINE v == [state |-> state, progress |-> progress,
                   over |-> jobs[j].over \/ state \in {"COMPLETED", "FAILED"}]
  <2>1. jobs \in [Jobs -> JobRecord]
    BY DEF StoreInv
  <2>2. jobs[j] \in [state : JobState \cup NotStored, progress : 0..Full, over : BOOLEAN]
    BY <2>1 DEF JobRecord
  <2>3. v \in JobRecord
    BY <2>2 DEF JobRecord
  <2>4. jobs' = [jobs EXCEPT ![j] = v]
    BY <1>2, <2>1, <2>2 DEF Updates
  <2>5. v.state = state /\ (jobs[j].over => v.over)
        /\ (state \in {"COMPLETED", "FAILED"} => v.over)
    OBVIOUS
  <2> HIDE DEF v
  <2>6. order' = Append(order, j) /\ putBack' = putBack \cup {j}
    BY <1>2 DEF Updates
  <2>7. state \notin NotStored
    BY DEF JobState, Final, NotStored
  <2> QED  BY <1>0, <1>2, <2>3, <2>4, <2>5, <2>6, <2>7, EntersStep
<1> QED  BY <1>1, <1>2

\* Every change of the jobs is such a step, and is noted.
LEMMA StoreNextSteps ==
    ASSUME StoreInv, JobsInv, NEW j \in Jobs, StoreNext(j)
    PROVE  StoreStep(j) /\ \E goesBack \in BOOLEAN : Noted(j, goesBack)
<1>1. /\ Full \in 0..Full /\ 0 \in 0..Full /\ jobs[j].progress \in 0..Full
      /\ jobs[j].state \in JobState \cup NotStored
  <2>1. jobs[j] \in [state : JobState \cup NotStored, progress : 0..Full, over : BOOLEAN]
    BY DEF StoreInv, JobRecord
  <2> QED  BY <2>1 DEF Full
<1>2. {"PENDING", "RUNNING", "RETRYING", "COMPLETED", "FAILED", "CANCELLED"} = JobState
  BY DEF JobState, Final
<1>3. \A s \in JobState : s \notin NotStored
  BY DEF JobState, Final, NotStored
<1>4. jobs[j].state \in JobState => IsStored(j)
  BY <1>3 DEF IsStored
<1>5. CASE Add(j)
  <2>1. /\ jobs[j].state = "new" /\ jobs' = [jobs EXCEPT ![j].state = "PENDING"]
        /\ order' = Append(order, j) /\ putBack' = putBack /\ Noted(j, FALSE)
    BY <1>5 DEF Add
  <2>2. ~IsStored(j)
    BY <2>1 DEF IsStored, NotStored
  <2> DEFINE v == [state |-> "PENDING", progress |-> jobs[j].progress, over |-> jobs[j].over]
  <2>3. jobs \in [Jobs -> JobRecord]
    BY DEF StoreInv
  <2>4. jobs[j] \in [state : JobState \cup NotStored, progress : 0..Full, over : BOOLEAN]
    BY <2>3 DEF JobRecord
  <2>5. [jobs[j] EXCEPT !.state = "PENDING"] = v
    BY <2>4
  <2>6. jobs' = [jobs EXCEPT ![j] = v]
    <3>1. jobs' = [jobs EXCEPT ![j] = [jobs[j] EXCEPT !.state = "PENDING"]]
      BY <2>1
    <3> HIDE DEF v
    <3> QED  BY <2>5, <3>1
  <2>7. v \in JobRecord /\ v.state = "PENDING" /\ (jobs[j].over => v.over)
    BY <1>2, <2>4 DEF JobRecord
  <2> HIDE DEF v
  <2>8. "PENDING" \notin NotStored
    BY DEF NotStored
  <2> QED  BY <2>1, <2>2, <2>6, <2>7, <2>8, EntersStep
<1>6. CASE Start(j)
  <2>1. /\ jobs[j].state \in {"PENDING", "RETRYING"}
        /\ Becomes(j, "RUNNING", jobs[j].progress) /\ Noted(j, FALSE)
    BY <1>6 DEF Start
  <2> QED  BY <1>1, <1>2, <1>4, <2>1, BecomesStep
<1>7. CASE Report(j)
  <2>1. PICK progress \in 1..Full : Becomes(j, "RUNNING", progress)
    BY <1>7 DEF Report
  <2>2. jobs[j].state = "RUNNING" /\ Noted(j, FALSE)
    BY <1>7 DEF Report
  <2>3. progress \in 0..Full
    BY DEF Full
  <2> QED  BY <1>2, <1>4, <2>1, <2>2, <2>3, BecomesStep
<1>8. CASE Complete(j)
  <2>1. jobs[j].state = "RUNNING" /\ Becomes(j, "COMPLETED", Full) /\ Noted(j, FALSE)
    BY <1>8 DEF Complete
  <2> QED  BY <1>1, <1>2, <1>4, <2>1, BecomesStep
<1>9. CASE Fail(j)
  <2>1. PICK state \in {"RETRYING", "FAILED"} :
            Becomes(j, state, IF adapter = "memory" THEN 0 ELSE jobs[j].progress)
    BY <1>9 DEF Fail
  <2>2. jobs[j].state = "RUNNING" /\ Noted(j, FALSE)
    BY <1>9 DEF Fail
  <2> QED  BY <1>1, <1>2, <1>4, <2>1, <2>2, BecomesStep
<1>10. CASE Return(j)
  <2>1. /\ jobs[j].state \in {"RUNNING", "RETRYING"}
        /\ Becomes(j, "PENDING", jobs[j].progress) /\ Noted(j, TRUE)
    BY <1>10 DEF Return
  <2> QED  BY <1>1, <1>2, <1>4, <2>1, BecomesStep
<1>11. CASE Cancel(j)
  <2>1. IsStored(j) /\ Noted(j, FALSE)
    BY <1>11 DEF Cancel
  <2>2. CASE adapter = "memory"
    <3>1. Becomes(j, "CANCELLED", jobs[j].progress)
      BY <1>11, <2>2 DEF Cancel
    <3> QED  BY <1>1, <1>2, <2>1, <2>2, <3>1, BecomesStep
  <2>3. CASE adapter # "memory"
    BY <1>11, <2>1, <2>3, LeavesStep DEF Cancel
  <2> QED  BY <2>2, <2>3
<1>12. CASE LateOutcome(j)
  <2>1. GoesOnCancelled(j) /\ Noted(j, FALSE)
    BY <1>12 DEF LateOutcome
  <2>2. \/ Updates(j, "COMPLETED", Full) \/ Updates(j, "RETRYING", 0)
        \/ Updates(j, "CANCELLED", 0)
    BY <1>12 DEF LateOutcome
  <2>3. adapter = "memory" /\ jobs[j].state # "new"
    BY <2>1 DEF GoesOnCancelled
  <2> QED  BY <1>1, <1>2, <2>1, <2>2, <2>3, UpdatesStep
<1>13. CASE RemoveSettled(j)
  <2>1. jobs[j].state \in Final /\ Leaves(j) /\ Noted(j, FALSE)
    BY <1>13 DEF RemoveSettled
  <2> QED  BY <1>4, <2>1, LeavesStep DEF JobState
<1>14. CASE PutBack(j)
  <2>1. adapter = "memory" /\ jobs[j].state # "new" /\ Noted(j, FALSE)
    BY <1>14 DEF PutBack
  <2>2. PICK state \in {"CANCELLED", "COMPLETED", "FAILED"} :
            Updates(j, state, jobs[j].progress)
    BY <1>14 DEF PutBack
  <2> QED  BY <1>1, <1>2, <2>1, <2>2, UpdatesStep
<1>15. CASE LateUpdate(j)
  <2>1. adapter = "memory" /\ jobs[j].state # "new" /\ Noted(j, FALSE)
    BY <1>15 DEF LateUpdate, GoesOnCancelled
  <2>2. PICK progress \in jobs[j].progress..Full : Updates(j, "CANCELLED", progress)
    BY <1>15 DEF LateUpdate
  <2>3. progress \in 0..Full
    BY <1>1 DEF Full
  <2> QED  BY <1>2, <2>1, <2>2, <2>3, UpdatesStep
<1> QED
  BY <1>5, <1>6, <1>7, <1>8, <1>9, <1>10, <1>11, <1>12, <1>13, <1>14, <1>15
     DEF StoreNext

LEMMA AppendIs ==
    ASSUME NEW T, NEW s \in Seq(T), NEW x \in T
    PROVE  /\ Append(s, x) \in Seq(T)
           /\ Len(s) \in Nat /\ DOMAIN s = 1..Len(s)
           /\ DOMAIN Append(s, x) = 1..(Len(s) + 1)
           /\ \A i \in DOMAIN s : i \in DOMAIN Append(s, x) /\ Append(s, x)[i] = s[i]
           /\ Len(s) + 1 \in DOMAIN Append(s, x) /\ Append(s, x)[Len(s) + 1] = x
<1>1. Len(s) \in Nat /\ DOMAIN s = 1..Len(s)
  BY LenProperties
<1>2. /\ Append(s, x) \in Seq(T) /\ Len(Append(s, x)) = Len(s) + 1
      /\ \A i \in 1..Len(s) : Append(s, x)[i] = s[i]
      /\ Append(s, x)[Len(s) + 1] = x
  BY AppendProperties
<1>3. DOMAIN Append(s, x) = 1..(Len(s) + 1)
  BY <1>2, LenProperties
<1> QED  BY <1>1, <1>2, <1>3

\* What a change of job j leaves of the list.
LEMMA StoreStepKeeps ==
    ASSUME StoreInv, JobsInv, NEW j \in Jobs, StoreStep(j),
           UNCHANGED <<adapter, reader, urgent>>,
           changes' \in 0..MaxChanges
    PROVE  StoreInv' /\ JobsInv'
<1>1. \A i \in Jobs \ {j} : IsStored(i)' = IsStored(i)
  BY DEF StoreStep, IsStored
<1>2. order \in Seq(Jobs) /\ IsInjective(order) /\ putBack \subseteq Jobs
      /\ \A i \in Jobs : IsStored(i) <=> \E n \in DOMAIN order : order[n] = i
  BY DEF StoreInv, JobsInv
<1>3. /\ order' \in Seq(Jobs) /\ IsInjective(order') /\ putBack' \subseteq Jobs
      /\ \A i \in Jobs : IsStored(i)' <=> \E n \in DOMAIN order' : order'[n] = i
  <2>1. CASE Changes(j)
    <3>1. IsStored(j) /\ IsStored(j)' /\ order' = order /\ putBack' = putBack
      BY <2>1 DEF Changes, IsStored
    <3> QED  BY <1>1, <1>2, <3>1
  <2>2. CASE Enters(j)
    <3>1. IsStored(j)' /\ ~IsStored(j) /\ order' = Append(order, j)
      BY <2>2 DEF Enters, IsStored
    <3>2. /\ Append(order, j) \in Seq(Jobs)
          /\ Len(order) \in Nat /\ DOMAIN order = 1..Len(order)
          /\ DOMAIN Append(order, j) = 1..(Len(order) + 1)
          /\ \A i \in DOMAIN order : i \in DOMAIN Append(order, j) /\ Append(order, j)[i] = order[i]
          /\ Len(order) + 1 \in DOMAIN Append(order, j) /\ Append(order, j)[Len(order) + 1] = j
      BY <1>2, AppendIs
    <3>3. \A n \in DOMAIN order : order[n] # j
      BY <1>2, <3>1
    <3>4. \A n \in DOMAIN order' : n \in DOMAIN order \/ n = Len(order) + 1
      BY <3>1, <3>2
    <3>5. IsInjective(order')
      BY <1>2, <3>1, <3>2, <3>3, <3>4 DEF IsInjective
    <3>6. \A i \in Jobs \ {j} :
              (\E n \in DOMAIN order' : order'[n] = i) <=> \E n \in DOMAIN order : order[n] = i
      BY <3>1, <3>2, <3>4
    <3>7. putBack' \subseteq Jobs
      BY <1>2, <2>2 DEF Enters
    <3> QED  BY <1>1, <1>2, <3>1, <3>2, <3>5, <3>6, <3>7
  <2>3. CASE Drops(j)
    <3> DEFINE places == {i \in DOMAIN order : order[i] # j}
    <3>1. ~IsStored(j)' /\ order' = Remaining(order, places) /\ putBack' = putBack
      BY <2>3 DEF Drops, IsStored, NotStored
    <3>2. places \in SUBSET DOMAIN order
      OBVIOUS
    <3>3. \A p \in DOMAIN order : p \in places <=> order[p] # j
      OBVIOUS
    <3> HIDE DEF places
    <3>4. order' \in Seq(Jobs) /\ \E ps : KeptFrom(order', order, places, ps)
      BY <1>2, <3>1, <3>2, RemainingIs
    <3>5. PICK ps : KeptFrom(order', order, places, ps)
      BY <3>4
    <3>6. \A n \in DOMAIN order' : ps[n] \in places /\ ps[n] \in DOMAIN order
                                   /\ order'[n] = order[ps[n]] /\ order'[n] # j
      BY <3>2, <3>3, <3>5 DEF KeptFrom
    <3>7. ASSUME NEW m \in DOMAIN order', NEW n \in DOMAIN order', order'[m] = order'[n]
          PROVE  m = n
      <4>1. ps[m] = ps[n]
        BY <1>2, <3>6, <3>7 DEF IsInjective
      <4>2. m \in Nat /\ n \in Nat /\ ps[m] \in Nat
        BY <3>5 DEF KeptFrom
      <4>3. ~(m < n) /\ ~(n < m)
        BY <3>5, <4>1, <4>2 DEF KeptFrom
      <4> QED  BY <4>2, <4>3
    <3>8. ASSUME NEW i \in Jobs \ {j}, NEW p \in DOMAIN order, order[p] = i
          PROVE  \E n \in DOMAIN order' : order'[n] = i
      <4>1. p \in places
        BY <3>3, <3>8
      <4>2. PICK n \in DOMAIN order' : ps[n] = p
        BY <3>5, <4>1 DEF KeptFrom
      <4> QED  BY <3>6, <3>8, <4>2
    <3>9. \A i \in Jobs \ {j} :
              (\E n \in DOMAIN order' : order'[n] = i) <=> \E n \in DOMAIN order : order[n] = i
      BY <3>6, <3>8
    <3>10. IsInjective(order')
      BY <3>7 DEF IsInjective
    <3> QED  BY <1>1, <1>2, <3>1, <3>4, <3>6, <3>9, <3>10
  <2> QED  BY <2>1, <2>2, <2>3 DEF StoreStep
<1>4. jobs'[1].state # "new"
  <2>1. jobs'[j].state # "new"
    BY DEF StoreStep, Changes, Enters, Drops, NotStored
  <2>2. jobs[1].state # "new" /\ 1 \in Jobs
    BY JobOneIsAJob DEF JobsInv
  <2> QED  BY <2>1, <2>2 DEF StoreStep
<1>5. \A i \in Jobs : jobs'[i].state \in {"COMPLETED", "FAILED"} => jobs'[i].over
  BY DEF JobsInv, StoreStep
<1>6. adapter' = "bullmq" => \A i \in Jobs : jobs'[i].state # "CANCELLED"
  BY DEF JobsInv, StoreStep
<1>7. JobsInv'
  BY <1>3, <1>4, <1>5, <1>6 DEF JobsInv
<1> QED  BY <1>3, <1>7 DEF StoreInv, StoreStep

-----------------------------------------------------------------------------
(* The stream of updates.                                                  *)

StreamTypes ==
    /\ subject \in {1, Buffered, NoId}
    /\ errorOnFail \in BOOLEAN
    /\ stream \in {"none", "open", "completed", "failed", "timedOut", "error"}
    /\ ticks \in 0..(LastTick + 2)
    /\ stream = "open" => ticks <= LastTick + 1
    /\ pending = {} \/ \E r \in RequestRecord : pending = {r}
    /\ sent \in UpdateRecord \cup {NoUpdate}
    /\ heardSettled \in BOOLEAN

\* A call is listened to while the stream is open, and is not older than what the
\* last update tells.
UpdatesInv ==
    /\ pending # {} => stream = "open" /\ adapter = "bullmq" /\ subject # NoId
    /\ sent # NoUpdate => sent.stateAt <= changes
    /\ \A r \in pending : r.step = "getState" =>
          /\ subject = 1
          /\ sent # NoUpdate => sent.stateAt <= r.fetchedAt
    /\ stream = "completed" <=> sent.state \in Final
    /\ stream \in {"completed", "failed"} => subject = 1
    /\ OutcomeIsReal
    /\ CopiesEndStream

ReadsInv == StoreInv /\ JobsInv /\ StreamTypes /\ UpdatesInv

\* A change of a job: what the stream has told stays true.
LEMMA StoreNextReads ==
    ASSUME ReadsInv, NEW j \in Jobs, StoreNext(j)
    PROVE  ReadsInv' /\ UNCHANGED <<sent, stream>>
<1> USE DEF ReadsInv
<1>1. StoreStep(j)
  BY StoreNextSteps
<1>2. PICK goesBack \in BOOLEAN : Noted(j, goesBack)
  BY StoreNextSteps
<1>3. /\ UNCHANGED <<adapter, reader, urgent, subject, errorOnFail, stream, ticks, sent,
                     heardSettled>>
      /\ changes \in 0..MaxChanges /\ changes' = changes + 1 /\ changes' \in 0..MaxChanges
  BY <1>2, BoundAssumption DEF Noted, StoreInv
<1>4. StoreInv' /\ JobsInv'
  BY <1>1, <1>3, StoreStepKeeps
<1>5. \/ pending' = pending
      \/ pending' = {[r EXCEPT !.missable = (r.step = "getState")] : r \in pending}
  BY <1>2 DEF Noted
<1>6. \/ pending' = {} /\ pending = {}
      \/ \E r, q \in RequestRecord :
            /\ pending = {r} /\ pending' = {q}
            /\ q.step = r.step /\ q.fetchedAt = r.fetchedAt
  <2>1. CASE pending = {}
    BY <1>5, <2>1
  <2>2. CASE \E r \in RequestRecord : pending = {r}
    <3>1. PICK r \in RequestRecord : pending = {r}
      BY <2>2
    <3> DEFINE q == [r EXCEPT !.missable = (r.step = "getState")]
    <3>2. q \in RequestRecord /\ q.step = r.step /\ q.fetchedAt = r.fetchedAt
      <4> DEFINE v == [step |-> r.step, progress |-> r.progress, finished |-> r.finished,
                       fetchedAt |-> r.fetchedAt, missable |-> r.step = "getState"]
      <4>1. /\ r.step \in {"getJob", "getState"} /\ r.progress \in 0..Full
            /\ r.finished \in BOOLEAN /\ r.fetchedAt \in 0..MaxChanges
            /\ q = v
        BY DEF RequestRecord
      <4>2. (r.step = "getState") \in BOOLEAN
        OBVIOUS
      <4>3. v \in RequestRecord
        BY <4>1, <4>2, Zenon DEF RequestRecord
      <4>4. v.step = r.step /\ v.fetchedAt = r.fetchedAt
        OBVIOUS
      <4> QED  BY <4>1, <4>3, <4>4
    <3>3. pending' = {r} \/ pending' = {q}
      BY <1>5, <3>1
    <3> HIDE DEF q
    <3> QED  BY <3>1, <3>2, <3>3
  <2> QED  BY <2>1, <2>2 DEF StreamTypes
<1>7. StreamTypes'
  BY <1>3, <1>6 DEF StreamTypes
<1>8. sent # NoUpdate => sent.stateAt \in Nat /\ sent.stateAt <= changes'
  BY <1>3, BoundAssumption DEF StreamTypes, UpdateRecord, UpdatesInv
<1>9. ASSUME subject = 1
      PROVE  /\ jobs[subject].over => jobs'[subject].over
             /\ adapter = "bullmq" /\ ~IsStored(subject) => ~IsStored(subject)'
  <2>1. subject \in Jobs
    BY <1>9, JobOneIsAJob
  <2>2. CASE subject = j
    <3>1. jobs[j].state # "new"
      BY <1>9, <2>2 DEF JobsInv
    <3> QED  BY <1>1, <2>2, <3>1 DEF StoreStep, Changes, Enters, Drops, IsStored, NotStored
  <2>3. CASE subject # j
    BY <1>1, <1>3, <2>1, <2>3 DEF StoreStep, IsStored
  <2> QED  BY <2>2, <2>3
<1>10. OutcomeIsReal'
  <2>1. OutcomeIsReal /\ (stream \in {"completed", "failed"} => subject = 1)
        /\ (adapter = "memory" \/ adapter = "bullmq")
    BY ReaderAssumption DEF UpdatesInv, StoreInv
  <2> QED  BY <1>3, <1>9, <2>1 DEF OutcomeIsReal
<1>11. UpdatesInv'
  BY <1>3, <1>6, <1>8, <1>10 DEF UpdatesInv, CopiesEndStream
<1> QED  BY <1>3, <1>4, <1>7, <1>11

LEMMA InitReads == Init => ReadsInv
<1> SUFFICES ASSUME Init
             PROVE  ReadsInv
  OBVIOUS
<1>1. /\ adapter \in Adapters /\ reader \in Readers
      /\ jobs = [j \in Jobs |-> [state |-> IF j = 1 THEN "PENDING" ELSE "new",
                                 progress |-> 0, over |-> FALSE]]
      /\ order = <<1>> /\ changes = 0 /\ putBack = {} /\ urgent \subseteq Jobs
  BY UrgentAssumption DEF Init
<1>2. \A j \in Jobs : jobs[j] \in JobRecord /\ (IsStored(j) <=> j = 1)
                      /\ jobs[j].state \in {"PENDING", "new"}
  BY <1>1 DEF JobRecord, JobState, NotStored, IsStored, Full
<1>3. DOMAIN order = {1} /\ order[1] = 1 /\ order \in Seq(Jobs)
  BY <1>1, JobOneIsAJob
<1>4. StoreInv
  BY <1>1, <1>2, <1>3, BoundAssumption DEF StoreInv, IsInjective
<1>5. jobs[1].state # "new"
  BY <1>1, JobOneIsAJob
<1>6. JobsInv
  BY <1>2, <1>3, <1>5 DEF JobsInv
<1>7. /\ stream \in {"open", "none"} /\ ticks = 0 /\ pending = {} /\ sent = NoUpdate
      /\ heardSettled = FALSE /\ subject \in {1, Buffered, NoId} /\ errorOnFail \in BOOLEAN
  BY DEF Init
<1>8. StreamTypes
  <2>1. ticks \in 0..(LastTick + 2) /\ ticks <= LastTick + 1
    BY <1>7, BoundAssumption
  <2>2. heardSettled \in BOOLEAN /\ sent \in UpdateRecord \cup {NoUpdate}
    BY <1>7
  <2> QED  BY <1>7, <2>1, <2>2 DEF StreamTypes
<1>9. sent.state \notin Final
  BY <1>7 DEF NoUpdate, Final
<1>10. UpdatesInv
  BY <1>7, <1>9 DEF UpdatesInv, OutcomeIsReal, CopiesEndStream
<1> QED  BY <1>4, <1>6, <1>8, <1>10 DEF ReadsInv

\* An answer that is what it says, and no older than the last update: the stream
\* ends with it when it should.
LEMMA EmitReads ==
    ASSUME ReadsInv, stream = "open", subject = 1,
           NEW state \in JobState, NEW progress \in 0..Full,
           NEW fetchedAt \in 0..MaxChanges, NEW missable \in BOOLEAN,
           Emit(state, progress, fetchedAt, missable),
           UNCHANGED <<storeVars, subject, errorOnFail>>,
           ticks' \in 0..(LastTick + 2), ticks' <= LastTick + 1, pending' = {},
           state \in {"COMPLETED", "FAILED"} => jobs[subject].over,
           state = "CANCELLED" => adapter = "memory" \/ missable \/ ~IsStored(subject),
           adapter = "bullmq" /\ sent # NoUpdate => sent.stateAt <= fetchedAt
    PROVE  /\ ReadsInv'
           /\ sent' # sent /\ sent # NoUpdate => sent'.fetchedAt >= sent.stateAt
<1> USE DEF ReadsInv
<1> DEFINE u == [state |-> state, progress |-> progress, fetchedAt |-> fetchedAt,
                 stateAt |-> changes, missable |-> missable]
           fails == state = "FAILED" /\ errorOnFail
<1>1. /\ u \in UpdateRecord /\ u.state = state /\ u.stateAt = changes /\ u.missable = missable
      /\ u.fetchedAt = fetchedAt /\ u # NoUpdate
  <2>1. changes \in 0..MaxChanges
    BY DEF StoreInv
  <2>2. u.state = state /\ NoUpdate.state = "none" /\ "none" \notin JobState
    BY DEF NoUpdate, JobState, Final
  <2> QED  BY <2>1, <2>2 DEF UpdateRecord
<1>2. /\ heardSettled' = (heardSettled \/ state \in Final)
      /\ IF SameAsLast(state, progress)
         THEN UNCHANGED <<stream, sent>>
         ELSE /\ stream' = CASE fails -> "failed"
                             [] ~fails /\ state \in Final -> "completed"
                             [] OTHER -> stream
              /\ sent' = IF fails THEN sent ELSE u
  BY DEF Emit
<1> HIDE DEF u
<1>3. StoreInv' /\ JobsInv'
  BY DEF storeVars, StoreInv, JobsInv, IsStored
<1>4. sent.state \notin Final
  BY DEF UpdatesInv
<1>5. adapter = "memory" \/ adapter = "bullmq"
  BY ReaderAssumption DEF StoreInv
<1>6. adapter = "bullmq" => ~heardSettled
  BY DEF UpdatesInv, CopiesEndStream
<1>7. changes' = changes /\ changes \in Nat /\ adapter' = adapter
      /\ jobs' = jobs /\ subject' = subject /\ errorOnFail' = errorOnFail
  BY BoundAssumption DEF storeVars, StoreInv
<1>8. heardSettled' \in BOOLEAN
  BY <1>2 DEF StreamTypes
<1>9. CASE SameAsLast(state, progress)
  <2>1. stream' = stream /\ sent' = sent
    BY <1>2, <1>9
  <2>2. adapter = "bullmq" => state \notin Final
    BY <1>4, <1>9 DEF SameAsLast
  <2>3. StreamTypes'
    BY <1>7, <1>8, <2>1 DEF StreamTypes
  <2>4. sent # NoUpdate => sent.stateAt <= changes
    BY DEF UpdatesInv
  <2>5. UpdatesInv'
    BY <1>2, <1>4, <1>6, <1>7, <2>1, <2>2, <2>4 DEF UpdatesInv, OutcomeIsReal, CopiesEndStream
  <2> QED  BY <1>3, <2>1, <2>3, <2>5
<1>10. CASE ~SameAsLast(state, progress) /\ fails
  <2>1. stream' = "failed" /\ sent' = sent /\ state = "FAILED"
    BY <1>2, <1>10
  <2>2. StreamTypes'
    BY <1>7, <1>8, <2>1 DEF StreamTypes
  <2>3. sent # NoUpdate => sent.stateAt <= changes
    BY DEF UpdatesInv
  <2>4. UpdatesInv'
    BY <1>4, <1>7, <2>1, <2>3 DEF UpdatesInv, OutcomeIsReal, CopiesEndStream, IsStored
  <2> QED  BY <1>3, <2>1, <2>2, <2>4
<1>11. CASE ~SameAsLast(state, progress) /\ ~fails
  <2>1. sent' = u
    BY <1>2, <1>11
  <2>2. state \in Final => stream' = "completed"
    BY <1>2, <1>11
  <2>3. state \notin Final => stream' = "open"
    BY <1>2, <1>11
  <2> HIDE DEF fails
  <2>4. StreamTypes'
    BY <1>1, <1>7, <1>8, <2>1, <2>2, <2>3 DEF StreamTypes
  <2>5. state \in Final => state \in {"COMPLETED", "FAILED", "CANCELLED"}
    BY DEF Final
  <2>6. OutcomeIsReal'
    BY <1>1, <1>5, <1>7, <2>1, <2>2, <2>3, <2>5 DEF OutcomeIsReal, IsStored
  <2>7. CopiesEndStream'
    BY <1>2, <1>6, <1>7, <2>2 DEF CopiesEndStream
  <2>8. stream' = "completed" <=> sent'.state \in Final
    BY <1>1, <2>1, <2>2, <2>3
  <2>9. UpdatesInv'
    BY <1>1, <1>7, <2>1, <2>2, <2>3, <2>6, <2>7, <2>8 DEF UpdatesInv
  <2>10. sent # NoUpdate => adapter = "bullmq"
    BY <1>5, <1>11 DEF SameAsLast
  <2>11. sent # NoUpdate => sent.stateAt \in Nat /\ fetchedAt >= sent.stateAt
    <3>1. sent # NoUpdate => sent.stateAt \in 0..MaxChanges
      BY DEF StreamTypes, UpdateRecord
    <3> QED  BY <2>10, <3>1, BoundAssumption
  <2> QED  BY <1>1, <1>3, <2>1, <2>4, <2>9, <2>11
<1> QED  BY <1>9, <1>10, <1>11

\* What leaves the jobs and the last update as they are.
LEMMA SameJobs ==
    ASSUME ReadsInv, UNCHANGED <<storeVars, subject, errorOnFail, sent, heardSettled>>,
           stream' = stream \/ (stream = "open" /\ stream' \in {"timedOut", "error"}
                                /\ ~(heardSettled /\ adapter = "bullmq")),
           ticks' \in 0..(LastTick + 2), stream' = "open" => ticks' <= LastTick + 1,
           pending' = {} \/ \E r \in RequestRecord : pending' = {r},
           pending' # {} => stream' = "open" /\ adapter = "bullmq" /\ subject # NoId,
           \A r \in pending' : r.step = "getState" =>
               /\ subject = 1
               /\ sent # NoUpdate => sent.stateAt <= r.fetchedAt
    PROVE  ReadsInv'
<1> USE DEF ReadsInv
<1>1. /\ adapter' = adapter /\ reader' = reader /\ jobs' = jobs /\ order' = order
      /\ changes' = changes /\ putBack' = putBack /\ urgent' = urgent /\ subject' = subject
      /\ errorOnFail' = errorOnFail /\ sent' = sent /\ heardSettled' = heardSettled
  BY DEF storeVars
<1>2. StoreInv' /\ JobsInv'
  BY <1>1 DEF StoreInv, JobsInv, IsStored
<1>3. stream' \in {"none", "open", "completed", "failed", "timedOut", "error"}
  BY DEF StreamTypes
<1>4. StreamTypes'
  BY <1>1, <1>3 DEF StreamTypes
<1>5. UpdatesInv'
  <2>1. stream' \in {"completed", "failed"} <=> stream \in {"completed", "failed"}
    OBVIOUS
  <2>2. (stream' = "completed" <=> stream = "completed") /\ (stream' = "failed" <=> stream = "failed")
    OBVIOUS
  <2>3. OutcomeIsReal'
    BY <1>1, <2>2 DEF UpdatesInv, OutcomeIsReal, IsStored
  <2>4. CopiesEndStream'
    BY <1>1, <2>1 DEF UpdatesInv, CopiesEndStream
  <2>5. sent' # NoUpdate => sent'.stateAt <= changes'
    BY <1>1 DEF UpdatesInv
  <2>6. stream' = "completed" <=> sent'.state \in Final
    BY <1>1, <2>2 DEF UpdatesInv
  <2>7. stream' \in {"completed", "failed"} => subject' = 1
    BY <1>1, <2>1 DEF UpdatesInv
  <2> QED  BY <1>1, <2>3, <2>4, <2>5, <2>6, <2>7 DEF UpdatesInv
<1> QED  BY <1>2, <1>4, <1>5

\* The steps of the stream.
LEMMA StreamNextReads ==
    ASSUME ReadsInv, StreamNext
    PROVE  /\ ReadsInv'
           /\ sent' # sent /\ sent # NoUpdate => sent'.fetchedAt >= sent.stateAt
<1>1. /\ adapter = "memory" \/ adapter = "bullmq"
      /\ jobs \in [Jobs -> JobRecord] /\ changes \in 0..MaxChanges /\ 1 \in Jobs
  BY ReaderAssumption, JobOneIsAJob DEF ReadsInv, StoreInv
<1>2. /\ ticks \in 0..(LastTick + 2) /\ (stream = "open" => ticks <= LastTick + 1)
      /\ subject \in {1, Buffered, NoId}
      /\ pending = {} \/ \E r \in RequestRecord : pending = {r}
  BY DEF ReadsInv, StreamTypes
<1>3. stream = "open" => ~(heardSettled /\ adapter = "bullmq")
  BY DEF ReadsInv, UpdatesInv, CopiesEndStream
<1>4. /\ pending # {} => stream = "open" /\ adapter = "bullmq" /\ subject # NoId
      /\ \A r \in pending : r.step = "getState" =>
           subject = 1 /\ (sent # NoUpdate => sent.stateAt <= r.fetchedAt)
      /\ sent # NoUpdate => sent.stateAt <= changes
  BY DEF ReadsInv, UpdatesInv
<1>5. ASSUME Tick
      PROVE  /\ stream = "open" /\ ticks' \in 0..(LastTick + 2)
             /\ ticks <= LastTick => ticks' <= LastTick + 1
             /\ UNCHANGED <<storeVars, subject, errorOnFail>>
  BY <1>2, <1>5, BoundAssumption DEF Tick
<1>6. subject \in Jobs <=> subject = 1
  BY <1>1, <1>2, JobCountAssumption DEF Jobs, Buffered, NoId
<1>7. CASE TickTimesOut
  <2>1. Tick /\ stream' = "timedOut" /\ pending' = {} /\ UNCHANGED <<sent, heardSettled>>
    BY <1>7 DEF TickTimesOut
  <2>2. stream = "open" /\ stream' # "open"
    BY <1>5, <2>1
  <2> QED  BY <1>3, <1>5, <2>1, <2>2, SameJobs
<1>8. CASE TickThrows
  <2>1. /\ Tick /\ subject = NoId /\ stream' = "error" /\ UNCHANGED <<pending, sent, heardSettled>>
    BY <1>8 DEF TickThrows
  <2>2. pending' = {}
    BY <1>4, <2>1
  <2> QED  BY <1>3, <1>5, <2>1, <2>2, SameJobs
<1>9. CASE TickReads
  <2>1. /\ Tick /\ ticks <= LastTick /\ adapter = "memory" /\ UNCHANGED pending
    BY <1>9 DEF TickReads
  <2>2. pending' = {}
    BY <1>4, <2>1
  <2>3. CASE subject \in Jobs /\ IsStored(subject)
    <3>1. Emit(jobs[subject].state, jobs[subject].progress, changes, FALSE)
      BY <1>9, <2>3 DEF TickReads
    <3>2. jobs[subject] \in JobRecord
      BY <1>1, <2>3
    <3>3. jobs[subject].state \in JobState /\ jobs[subject].progress \in 0..Full
      BY <2>3, <3>2 DEF JobRecord, IsStored
    <3>4. jobs[subject].state \in {"COMPLETED", "FAILED"} => jobs[subject].over
      BY <2>3 DEF ReadsInv, JobsInv
    <3> QED  BY <1>1, <1>5, <1>6, <2>1, <2>2, <2>3, <3>1, <3>3, <3>4, EmitReads
  <2>4. CASE ~(subject \in Jobs /\ IsStored(subject))
    <3>1. UNCHANGED <<stream, sent, heardSettled>>
      BY <1>9, <2>4 DEF TickReads
    <3> QED  BY <1>5, <2>1, <2>2, <3>1, SameJobs
  <2> QED  BY <2>3, <2>4
<1>10. CASE TickAsks
  <2>1. /\ Tick /\ ticks <= LastTick /\ adapter = "bullmq" /\ subject # NoId
        /\ pending' = {NewRequest}
        /\ UNCHANGED <<stream, sent, heardSettled>>
    BY <1>10 DEF TickAsks
  <2>2. NewRequest \in RequestRecord /\ NewRequest.step = "getJob"
    BY BoundAssumption DEF NewRequest, RequestRecord, Full
  <2> QED  BY <1>5, <2>1, <2>2, SameJobs
<1>11. ASSUME NEW r \in pending, stream = "open", GetJob(r)
       PROVE  ReadsInv' /\ sent' = sent
  <2>1. /\ r.step = "getJob"
        /\ UNCHANGED <<storeVars, subject, errorOnFail, stream, ticks, sent, heardSettled>>
    BY <1>11 DEF GetJob
  <2>2. r \in RequestRecord /\ pending = {r} /\ adapter = "bullmq"
    BY <1>2, <1>4, <1>11
  <2>3. CASE subject \in Jobs /\ IsStored(subject)
    <3> DEFINE v == [step |-> "getState", progress |-> jobs[subject].progress,
                     finished |-> jobs[subject].state \in Final,
                     fetchedAt |-> changes, missable |-> IsHidden(subject)]
    <3>1. jobs[subject].progress \in 0..Full
      BY <1>1, <2>3 DEF JobRecord
    <3>2. v \in RequestRecord
      <4>1. (jobs[subject].state \in Final) \in BOOLEAN /\ IsHidden(subject) \in BOOLEAN
        BY DEF IsHidden
      <4> QED  BY <1>1, <3>1, <4>1, Zenon DEF RequestRecord
    <3>3. pending' = {v}
      BY <1>11, <2>2, <2>3 DEF GetJob
    <3>4. v.fetchedAt = changes
      OBVIOUS
    <3> HIDE DEF v
    <3> QED  BY <1>2, <1>4, <1>6, <1>11, <2>1, <2>2, <2>3, <3>2, <3>3, <3>4, SameJobs
  <2>4. CASE ~(subject \in Jobs /\ IsStored(subject))
    <3>1. pending' = {}
      BY <1>11, <2>2, <2>4 DEF GetJob
    <3> QED  BY <1>2, <1>11, <2>1, <3>1, SameJobs
  <2> QED  BY <2>1, <2>3, <2>4
<1>12. ASSUME NEW r \in pending, stream = "open", GetState(r)
       PROVE  /\ ReadsInv'
              /\ sent' # sent /\ sent # NoUpdate => sent'.fetchedAt >= sent.stateAt
  <2>1. /\ r.step = "getState"
        /\ UNCHANGED <<storeVars, subject, errorOnFail, ticks>>
    BY <1>12 DEF GetState
  <2>2. r \in RequestRecord /\ pending = {r} /\ adapter = "bullmq" /\ subject = 1
        /\ (sent # NoUpdate => sent.stateAt <= r.fetchedAt)
    BY <1>2, <1>4, <1>12, <2>1
  <2>3. pending' = {}
    BY <1>12, <2>2 DEF GetState
  <2>4. r.progress \in 0..Full /\ r.fetchedAt \in 0..MaxChanges /\ r.missable \in BOOLEAN
    BY <2>2 DEF RequestRecord
  <2>5. ticks' \in 0..(LastTick + 2) /\ ticks' <= LastTick + 1
    BY <1>2, <1>12, <2>1
  <2>6. CASE IsStored(subject) /\ Emit(jobs[subject].state, r.progress, r.fetchedAt, r.missable)
    <3>1. jobs[subject] \in JobRecord /\ subject \in Jobs
      BY <1>1, <2>2
    <3>2. jobs[subject].state \in JobState
      BY <2>6, <3>1 DEF JobRecord, IsStored
    <3>3. /\ jobs[subject].state \in {"COMPLETED", "FAILED"} => jobs[subject].over
          /\ jobs[subject].state # "CANCELLED"
      BY <2>2, <3>1 DEF ReadsInv, JobsInv
    <3> QED  BY <1>12, <2>1, <2>2, <2>3, <2>4, <2>5, <2>6, <3>2, <3>3, EmitReads
  <2>7. CASE (~IsStored(subject) \/ r.missable)
             /\ Emit("CANCELLED", r.progress, r.fetchedAt, r.missable)
    <3>1. "CANCELLED" \in JobState /\ "CANCELLED" \notin {"COMPLETED", "FAILED"}
      BY DEF JobState, Final
    <3> QED  BY <1>12, <2>1, <2>2, <2>3, <2>4, <2>5, <2>7, <3>1, EmitReads
  <2> QED  BY <1>12, <2>6, <2>7 DEF GetState, Reported
<1>13. ASSUME NEW r \in pending, stream = "open", FindOneThrows(r)
       PROVE  ReadsInv' /\ sent' = sent
  <2>1. /\ stream' = "error" /\ pending' = {}
        /\ UNCHANGED <<storeVars, subject, errorOnFail, ticks, sent, heardSettled>>
    BY <1>13 DEF FindOneThrows
  <2> QED  BY <1>2, <1>3, <1>13, <2>1, SameJobs
<1> QED
  <2>1. CASE TickTimesOut \/ TickThrows \/ TickAsks
    <3>1. sent' = sent
      BY <2>1 DEF TickTimesOut, TickThrows, TickAsks
    <3> QED  BY <1>7, <1>8, <1>10, <2>1, <3>1
  <2> QED  BY <1>9, <1>11, <1>12, <1>13, <2>1 DEF StreamNext

\* The steps of a walk concern neither the jobs nor the stream.
LEMMA WalkNextReads ==
    ASSUME ReadsInv, WalkNext \/ UNCHANGED vars
    PROVE  ReadsInv' /\ UNCHANGED <<storeVars, streamVars>>
<1>1. UNCHANGED <<storeVars, streamVars>>
  BY DEF WalkNext, WalkBegins, PageFromMemory, Script, FromId, CreateJoborJob,
         FindManyThrows, vars
<1>2. UNCHANGED <<adapter, reader, urgent, jobs, order, changes, putBack, subject, errorOnFail,
                  stream, ticks, pending, sent, heardSettled>>
  BY <1>1 DEF storeVars, streamVars
<1>3. StoreInv' /\ JobsInv' /\ StreamTypes'
  BY <1>2 DEF ReadsInv, StoreInv, JobsInv, IsStored, StreamTypes
<1>4. UpdatesInv'
  BY <1>2 DEF ReadsInv, UpdatesInv, OutcomeIsReal, CopiesEndStream, IsStored
<1> QED  BY <1>1, <1>3, <1>4 DEF ReadsInv

LEMMA NextReads ==
    ASSUME ReadsInv, [Next]_vars
    PROVE  /\ ReadsInv'
           /\ sent' # sent /\ sent # NoUpdate => sent'.fetchedAt >= sent.stateAt
<1>1. CASE \E j \in Jobs : StoreNext(j)
  BY <1>1, StoreNextReads
<1>2. CASE StreamNext
  BY <1>2, StreamNextReads
<1>3. CASE WalkNext \/ UNCHANGED vars
  BY <1>3, WalkNextReads DEF streamVars
<1> QED  BY <1>1, <1>2, <1>3 DEF Next

LEMMA ReadsInvariant == Spec => []ReadsInv
<1>1. ReadsInv /\ [Next]_vars => ReadsInv'
  BY NextReads
<1> QED  BY InitReads, <1>1, PTL DEF Spec

\* A stream completes with the settled job as its last update, and a settled job
\* never is an update that others follow (subscribable-job.ts, updates()).
THEOREM CompletedTellsOutcomeCorrect == Spec => []CompletedTellsOutcome
<1>1. ReadsInv => CompletedTellsOutcome
  BY DEF ReadsInv, UpdatesInv, CompletedTellsOutcome
<1> QED  BY ReadsInvariant, <1>1, PTL

\* What a stream reports as the end is the end (findOne() and getState()).
THEOREM OutcomeIsRealCorrect == Spec => []OutcomeIsReal
<1>1. ReadsInv => OutcomeIsReal
  BY DEF ReadsInv, UpdatesInv
<1> QED  BY ReadsInvariant, <1>1, PTL

\* On BullMQ a stream that hears of the settled job ends with it.
THEOREM CopiesEndStreamCorrect == Spec => []CopiesEndStream
<1>1. ReadsInv => CopiesEndStream
  BY DEF ReadsInv, UpdatesInv
<1> QED  BY ReadsInvariant, <1>1, PTL

\* The updates of a stream follow the history of the job: no update tells anything
\* older than what the update before it told (switchMap() in updates()).
THEOREM UpdatesMoveForwardCorrect == Spec => UpdatesMoveForward
<1>1. ReadsInv /\ [Next]_vars =>
          [sent' # sent /\ sent # NoUpdate => sent'.fetchedAt >= sent.stateAt]_vars
  BY NextReads
<1> QED  BY ReadsInvariant, <1>1, PTL DEF Spec, UpdatesMoveForward

-----------------------------------------------------------------------------
(* What a query finds.                                                     *)

LEMMA LeastOf ==
    ASSUME NEW S \in SUBSET Nat, S # {}
    PROVE  \E x \in S : \A y \in S : x <= y
<1>1. PICK x \in S : \A y \in S : ~(<<y, x>> \in OpToRel(<, Nat))
  BY NatLessThanWellFounded, WFMin
<1>2. \A y \in S : ~(y < x)
  BY <1>1 DEF OpToRel
<1> QED  BY <1>2

\* The stages of applySorts(): the n-th of them is sorted on the n-th property.
LEMMA StepsExist ==
    ASSUME NEW items, NEW sort, NEW m \in Nat
    PROVE  \E f : f = [n \in 0..m |-> IF n = 0 THEN items ELSE SortOn(f[n - 1], sort[n])]
<1> DEFINE Done(k) == \E f : f = [n \in 0..k |->
                         IF n = 0 THEN items ELSE SortOn(f[n - 1], sort[n])]
           Open == {k \in Nat : ~Done(k)}
<1>1. Done(0)
  <2> DEFINE f == [n \in 0..0 |-> items]
  <2>1. f = [n \in 0..0 |-> IF n = 0 THEN items ELSE SortOn(f[n - 1], sort[n])]
    OBVIOUS
  <2> HIDE DEF f
  <2> QED  BY <2>1
<1>2. ASSUME NEW k \in Nat, Done(k) PROVE Done(k + 1)
  <2>1. PICK f : f = [n \in 0..k |-> IF n = 0 THEN items ELSE SortOn(f[n - 1], sort[n])]
    BY <1>2
  <2> DEFINE g == [n \in 0..(k + 1) |-> IF n \in 0..k THEN f[n] ELSE SortOn(f[k], sort[k + 1])]
             h == [n \in 0..(k + 1) |-> IF n = 0 THEN items ELSE SortOn(g[n - 1], sort[n])]
  <2>2. ASSUME NEW n \in 0..(k + 1) PROVE g[n] = h[n]
    <3>1. CASE n = 0
      BY <2>1, <3>1
    <3>2. CASE n \in 1..k
      <4>1. n \in 0..k /\ n - 1 \in 0..k /\ n - 1 \in 0..(k + 1) /\ n # 0
        BY <3>2
      <4>2. g[n] = f[n] /\ g[n - 1] = f[n - 1]
        BY <4>1
      <4>3. f[n] = SortOn(f[n - 1], sort[n])
        BY <2>1, <4>1
      <4> HIDE DEF g
      <4> QED  BY <4>1, <4>2, <4>3
    <3>3. CASE n = k + 1
      <4>1. n \notin 0..k /\ n # 0 /\ n - 1 = k /\ k \in 0..k /\ k \in 0..(k + 1)
        BY <3>3
      <4>2. g[n] = SortOn(f[k], sort[n]) /\ g[k] = f[k]
        BY <3>3, <4>1
      <4> HIDE DEF g
      <4> QED  BY <4>1, <4>2
    <3> QED  BY <3>1, <3>2, <3>3
  <2>3. g = h
    <3> HIDE DEF SortOn
    <3>1. DOMAIN g = 0..(k + 1) /\ DOMAIN h = 0..(k + 1)
      OBVIOUS
    <3>2. g = [n \in 0..(k + 1) |-> g[n]] /\ h = [n \in 0..(k + 1) |-> h[n]]
      OBVIOUS
    <3> HIDE DEF g, h
    <3> QED  BY <2>2, <3>2
  <2>4. g = [n \in 0..(k + 1) |-> IF n = 0 THEN items ELSE SortOn(g[n - 1], sort[n])]
    BY <2>3
  <2> HIDE DEF g
  <2> QED  BY <2>4
<1> HIDE DEF Done
<1>3. ASSUME Open # {} PROVE FALSE
  <2>1. PICK k \in Open : \A i \in Open : k <= i
    <3>1. Open \in SUBSET Nat
      OBVIOUS
    <3> HIDE DEF Open
    <3> QED  BY <1>3, <3>1, LeastOf
  <2>2. k # 0
    BY <1>1, <2>1
  <2>3. k - 1 \in Nat /\ ~(k <= k - 1) /\ (k - 1) + 1 = k
    BY <2>2
  <2>4. Done(k - 1)
    BY <2>1, <2>3
  <2> QED  BY <1>2, <2>1, <2>3, <2>4
<1>4. Done(m)
  BY <1>3
<1> QED  BY <1>4 DEF Done

LEMMA ApplySortIs ==
    ASSUME NEW items, NEW sort, Len(sort) \in Nat
    PROVE  \E sorted :
              /\ sorted[0] = items
              /\ \A n \in 1..Len(sort) : sorted[n] = SortOn(sorted[n - 1], sort[n])
              /\ ApplySort(items, sort) = sorted[Len(sort)]
<1> DEFINE sorted == CHOOSE f : f = [n \in 0..Len(sort) |->
                        IF n = 0 THEN items ELSE SortOn(f[n - 1], sort[n])]
<1>1. sorted = [n \in 0..Len(sort) |->
                        IF n = 0 THEN items ELSE SortOn(sorted[n - 1], sort[n])]
  BY StepsExist
<1>2. ApplySort(items, sort) = sorted[Len(sort)]
  BY DEF ApplySort
<1> HIDE DEF sorted
<1>3. sorted[0] = items
  BY <1>1
<1>4. ASSUME NEW n \in 1..Len(sort) PROVE sorted[n] = SortOn(sorted[n - 1], sort[n])
  BY <1>1
<1> QED  BY <1>2, <1>3, <1>4

\* The places of items in the order of a sort property.
SortOrder(items, prop) ==
    {p \in (DOMAIN items) \X (DOMAIN items) : ComesBefore(items, prop, p[1], p[2])}

Sortable(items, prop) == \A i \in DOMAIN items : SortValue(items[i], prop.key) \in Int

LEMMA SortOnIs ==
    ASSUME NEW T, NEW items \in Seq(T), NEW prop, Sortable(items, prop)
    PROVE  \E places : /\ Lists(places, DOMAIN items, SortOrder(items, prop))
                       /\ SortOn(items, prop) = Arranged(items, places)
<1> DEFINE S == DOMAIN items
           R == SortOrder(items, prop)
           f == [n \in 1..Cardinality(S) |->
                    CHOOSE x \in S :
                        Cardinality({y \in S : ComesBefore(items, prop, y, x)}) = n - 1]
<1>1. Len(items) \in Nat /\ S = 1..Len(items)
  BY LenProperties
<1>2. IsFiniteSet(S) /\ Cardinality(S) \in Nat
  BY <1>1, FS_Interval, FS_CardinalityType
<1>3. \A x, y \in S : <<x, y>> \in R <=> ComesBefore(items, prop, x, y)
  BY DEF SortOrder
<1>4. StrictOrder(R, S)
  <2>1. \A x \in S : x \in Int /\ SortValue(items[x], prop.key) \in Int
    <3>1. \A x \in S : x \in Int
      BY <1>1
    <3>2. \A x \in S : SortValue(items[x], prop.key) \in Int
      BY DEF Sortable
    <3> QED  BY <3>1, <3>2
  <2> HIDE DEF S, R
  <2>2. \A x, y \in S :
            <<x, y>> \in R <=>
                LET a == SortValue(items[x], prop.key)
                    b == SortValue(items[y], prop.key)
                IN  IF prop.order = "ASC" THEN a < b \/ (a = b /\ x < y)
                    ELSE a > b \/ (a = b /\ x > y)
    BY <1>3 DEF ComesBefore
  <2> DEFINE value(x) == SortValue(items[x], prop.key)
  <2>3. \A x \in S : value(x) \in Int
    BY <2>1
  <2>4. CASE prop.order = "ASC"
    <3>1. \A x, y \in S : <<x, y>> \in R <=>
              value(x) < value(y) \/ (value(x) = value(y) /\ x < y)
      BY <2>2, <2>4
    <3> HIDE DEF value
    <3>2. \A x \in S : x \in Int /\ value(x) \in Int
      BY <2>1, <2>3
    <3>3. \A x \in S : <<x, x>> \notin R
      BY <3>1, <3>2
    <3>4. ASSUME NEW x \in S, NEW y \in S, NEW z \in S, <<x, y>> \in R, <<y, z>> \in R
          PROVE  <<x, z>> \in R
      BY <3>1, <3>2, <3>4
    <3>5. ASSUME NEW x \in S, NEW y \in S, x # y
          PROVE  <<x, y>> \in R \/ <<y, x>> \in R
      BY <3>1, <3>2, <3>5
    <3> QED  BY <3>3, <3>4, <3>5 DEF StrictOrder
  <2>5. CASE prop.order # "ASC"
    <3>1. \A x, y \in S : <<x, y>> \in R <=>
              value(x) > value(y) \/ (value(x) = value(y) /\ x > y)
      BY <2>2, <2>5
    <3> HIDE DEF value
    <3>2. \A x \in S : x \in Int /\ value(x) \in Int
      BY <2>1, <2>3
    <3>3. \A x \in S : <<x, x>> \notin R
      BY <3>1, <3>2
    <3>4. ASSUME NEW x \in S, NEW y \in S, NEW z \in S, <<x, y>> \in R, <<y, z>> \in R
          PROVE  <<x, z>> \in R
      BY <3>1, <3>2, <3>4
    <3>5. ASSUME NEW x \in S, NEW y \in S, x # y
          PROVE  <<x, y>> \in R \/ <<y, x>> \in R
      BY <3>1, <3>2, <3>5
    <3> QED  BY <3>3, <3>4, <3>5 DEF StrictOrder
  <2> QED  BY <2>4, <2>5
<1> HIDE DEF S, R
<1>5. ASSUME NEW x \in S
      PROVE  Cardinality({y \in S : ComesBefore(items, prop, y, x)}) = Rank(x, S, R)
  <2>1. {y \in S : ComesBefore(items, prop, y, x)} = {y \in S : <<y, x>> \in R}
    BY <1>3
  <2> QED  BY <2>1 DEF Rank
<1>6. ASSUME NEW n \in 1..Cardinality(S)
      PROVE  f[n] \in S /\ Rank(f[n], S, R) = n - 1
  <2> HIDE DEF f
  <2>1. n - 1 \in 0..(Cardinality(S) - 1)
    BY <1>2
  <2>2. \E x \in S : Rank(x, S, R) = n - 1
    BY <1>2, <1>4, <2>1, RankExists
  <2>3. \E x \in S : Cardinality({y \in S : ComesBefore(items, prop, y, x)}) = n - 1
    BY <1>5, <2>2
  <2>4. f[n] \in S /\ Cardinality({y \in S : ComesBefore(items, prop, y, f[n])}) = n - 1
    BY <2>3 DEF f
  <2> QED  BY <1>5, <2>4
<1> DEFINE r == Ranked(S, LAMBDA i, j : ComesBefore(items, prop, i, j))
<1>7. r = f \o <<>>
  BY DEF Ranked
<1>8. f \in [1..Cardinality(S) -> S]
  BY <1>6
<1>9. SortOn(items, prop) = Arranged(items, r)
  BY DEF SortOn, S
<1> HIDE DEF f, r
<1>10. Lists(r, S, R)
  BY <1>2, <1>4, <1>6, <1>7, <1>8, RankedLists
<1> QED  BY <1>9, <1>10 DEF S, R

\* The same elements, and as different as before.
Shuffled(list, items) ==
    /\ Range(list) = Range(items)
    /\ IsInjective(items) => IsInjective(list)

\* No later element comes before an earlier one.
InOrder(list, prop) ==
    \A i, k \in DOMAIN list : i < k =>
        IF prop.order = "ASC"
        THEN SortValue(list[i], prop.key) <= SortValue(list[k], prop.key)
        ELSE SortValue(list[i], prop.key) >= SortValue(list[k], prop.key)

LEMMA SortOnShuffles ==
    ASSUME NEW T, NEW items \in Seq(T), NEW prop, Sortable(items, prop)
    PROVE  /\ SortOn(items, prop) \in Seq(T)
           /\ Shuffled(SortOn(items, prop), items)
           /\ InOrder(SortOn(items, prop), prop)
<1> DEFINE list == SortOn(items, prop)
<1>1. PICK places : /\ Lists(places, DOMAIN items, SortOrder(items, prop))
                    /\ list = Arranged(items, places)
  BY SortOnIs
<1> HIDE DEF list
<1>2. places \in Seq(DOMAIN items) /\ DOMAIN places = 1..Len(places)
  BY <1>1 DEF Lists
<1>3. /\ list \in Seq(T) /\ DOMAIN list = 1..Len(places)
      /\ \A n \in 1..Len(places) : list[n] = items[places[n]]
  BY <1>1, <1>2, ArrangedIs
<1>4. \A n \in 1..Len(places) : places[n] \in DOMAIN items
  BY <1>2, LenProperties
<1>5. \A p \in DOMAIN items : \E n \in 1..Len(places) : places[n] = p
  BY <1>1, <1>2 DEF Lists
<1>6. Range(list) = Range(items)
  <2>1. \A n \in DOMAIN list : \E p \in DOMAIN items : list[n] = items[p]
    BY <1>3, <1>4
  <2>2. \A p \in DOMAIN items : \E n \in DOMAIN list : list[n] = items[p]
    BY <1>3, <1>5
  <2> QED  BY <2>1, <2>2 DEF Range
<1>7. \A m, n \in 1..Len(places) : places[m] = places[n] => m = n
  BY <1>1, <1>2 DEF Lists
<1>8. IsInjective(items) => IsInjective(list)
  BY <1>3, <1>4, <1>7 DEF IsInjective
<1>9. ASSUME NEW i \in DOMAIN list, NEW k \in DOMAIN list, i < k
      PROVE  IF prop.order = "ASC"
             THEN SortValue(list[i], prop.key) <= SortValue(list[k], prop.key)
             ELSE SortValue(list[i], prop.key) >= SortValue(list[k], prop.key)
  <2> DEFINE p == places[i]
             q == places[k]
             a == SortValue(items[p], prop.key)
             b == SortValue(items[q], prop.key)
  <2>1. <<p, q>> \in SortOrder(items, prop)
    BY <1>1, <1>2, <1>3, <1>9 DEF Lists
  <2>2. ComesBefore(items, prop, p, q)
    BY <2>1 DEF SortOrder
  <2>3. a \in Int /\ b \in Int
    BY <1>3, <1>4, <1>9 DEF Sortable
  <2>4. IF prop.order = "ASC" THEN a < b \/ (a = b /\ p < q)
        ELSE a > b \/ (a = b /\ p > q)
    BY <2>2 DEF ComesBefore
  <2>5. list[i] = items[p] /\ list[k] = items[q]
    BY <1>3, <1>9
  <2> HIDE DEF p, q
  <2> QED  BY <2>3, <2>4, <2>5
<1>10. InOrder(list, prop)
  BY <1>9 DEF InOrder
<1> QED  BY <1>3, <1>6, <1>8, <1>10 DEF Shuffled, list

SortableOn(T, sort) ==
    \A k \in 1..Len(sort) : \A x \in T : SortValue(x, sort[k].key) \in Int

LEMMA ApplySortShuffles ==
    ASSUME NEW T, NEW items \in Seq(T), NEW sort, Len(sort) \in Nat, SortableOn(T, sort)
    PROVE  /\ ApplySort(items, sort) \in Seq(T)
           /\ Shuffled(ApplySort(items, sort), items)
           /\ Len(sort) > 0 => InOrder(ApplySort(items, sort), sort[Len(sort)])
           /\ Len(sort) = 0 => ApplySort(items, sort) = items
<1>1. PICK sorted :
          /\ sorted[0] = items
          /\ \A n \in 1..Len(sort) : sorted[n] = SortOn(sorted[n - 1], sort[n])
          /\ ApplySort(items, sort) = sorted[Len(sort)]
  BY ApplySortIs
<1> DEFINE Good(n) == sorted[n] \in Seq(T) /\ Shuffled(sorted[n], items)
           Bad == {n \in 0..Len(sort) : ~Good(n)}
<1>2. Good(0)
  BY <1>1 DEF Shuffled
<1>3. ASSUME NEW n \in 1..Len(sort), Good(n - 1)
      PROVE  Good(n) /\ InOrder(sorted[n], sort[n])
  <2>1. sorted[n] = SortOn(sorted[n - 1], sort[n])
    BY <1>1
  <2>2. sorted[n - 1] \in Seq(T) /\ Shuffled(sorted[n - 1], items)
    BY <1>3
  <2>3. Sortable(sorted[n - 1], sort[n])
    <3>1. \A i \in DOMAIN sorted[n - 1] : sorted[n - 1][i] \in T
      BY <2>2, LenProperties
    <3> QED  BY <3>1 DEF Sortable, SortableOn
  <2>4. /\ sorted[n] \in Seq(T) /\ Shuffled(sorted[n], sorted[n - 1])
        /\ InOrder(sorted[n], sort[n])
    BY <2>1, <2>2, <2>3, SortOnShuffles
  <2> QED  BY <2>2, <2>4 DEF Shuffled
<1> HIDE DEF Good
<1>4. ASSUME Bad # {} PROVE FALSE
  <2>1. PICK n \in Bad : \A m \in Bad : n <= m
    <3>1. Bad \in SUBSET Nat
      OBVIOUS
    <3> HIDE DEF Bad
    <3> QED  BY <1>4, <3>1, LeastOf
  <2>2. n \in 1..Len(sort) /\ n - 1 \in 0..Len(sort) /\ ~(n <= n - 1)
    BY <1>2, <2>1
  <2>3. Good(n - 1)
    BY <2>1, <2>2
  <2> QED  BY <1>3, <2>1, <2>2, <2>3
<1>5. \A n \in 0..Len(sort) : Good(n)
  BY <1>4
<1>6. Len(sort) > 0 => InOrder(sorted[Len(sort)], sort[Len(sort)])
  <2>1. ASSUME Len(sort) > 0
        PROVE  Len(sort) \in 1..Len(sort) /\ Len(sort) - 1 \in 0..Len(sort)
    BY <2>1
  <2> QED  BY <1>3, <1>5, <2>1
<1>7. Good(Len(sort))
  BY <1>5
<1>8. Len(sort) = 0 => sorted[Len(sort)] = items
  BY <1>1
<1> QED  BY <1>1, <1>6, <1>7, <1>8 DEF Good

\* What findMany() finds in memory, before a page is cut out.
LEMMA FoundIs ==
    ASSUME NEW T, NEW items \in Seq(T), NEW sort, Len(sort) \in Nat, NEW filter,
           SortableOn(T, sort),
           NEW found, found = ApplyFilters(ApplySort(items, sort), filter)
    PROVE  /\ found \in Seq(T)
           /\ Range(found) = Matching(items, filter)
           /\ IsInjective(items) => IsInjective(found)
           /\ Len(sort) > 0 => InOrder(found, sort[Len(sort)])
<1> DEFINE list == ApplySort(items, sort)
           passes(x) == \A key \in DOMAIN filter : Passes(x[key], filter[key])
           places == {i \in DOMAIN list : passes(list[i])}
<1>1. /\ list \in Seq(T) /\ Shuffled(list, items)
      /\ Len(sort) > 0 => InOrder(list, sort[Len(sort)])
  BY ApplySortShuffles
<1>2. found = Remaining(list, places)
  BY DEF ApplyFilters
<1>3. \A i \in DOMAIN list : i \in places <=> passes(list[i])
  OBVIOUS
<1>4. places \in SUBSET DOMAIN list
  OBVIOUS
<1>5. Matching(items, filter) = {x \in Range(items) : passes(x)}
  BY DEF Matching
<1> HIDE DEF list, passes, places
<1>6. found \in Seq(T) /\ \E ps : KeptFrom(found, list, places, ps)
  BY <1>1, <1>2, <1>4, RemainingIs
<1>7. PICK ps : KeptFrom(found, list, places, ps)
  BY <1>6
<1>8. \A n \in DOMAIN found : /\ ps[n] \in places /\ ps[n] \in DOMAIN list
                              /\ found[n] = list[ps[n]] /\ n \in Nat
  BY <1>4, <1>7 DEF KeptFrom
<1>9. Range(found) = {x \in Range(list) : passes(x)}
  <2>1. ASSUME NEW n \in DOMAIN found
        PROVE  found[n] \in Range(list) /\ passes(found[n])
    BY <1>3, <1>8 DEF Range
  <2>2. ASSUME NEW x \in Range(list), passes(x)
        PROVE  x \in Range(found)
    <3>1. PICK p \in DOMAIN list : list[p] = x
      BY DEF Range
    <3>2. p \in places
      BY <1>3, <2>2, <3>1
    <3>3. PICK n \in DOMAIN found : ps[n] = p
      BY <1>7, <3>2 DEF KeptFrom
    <3> QED  BY <1>8, <3>1, <3>3 DEF Range
  <2> QED  BY <2>1, <2>2 DEF Range
<1>10. ASSUME IsInjective(items)
       PROVE  IsInjective(found)
  <2>1. IsInjective(list)
    BY <1>1, <1>10 DEF Shuffled
  <2>2. ASSUME NEW m \in DOMAIN found, NEW n \in DOMAIN found, found[m] = found[n]
        PROVE  m = n
    <3>1. ps[m] = ps[n]
      BY <1>8, <2>1, <2>2 DEF IsInjective
    <3>2. m \in Nat /\ n \in Nat /\ ps[m] \in Nat
      BY <1>7 DEF KeptFrom
    <3>3. ~(m < n) /\ ~(n < m)
      BY <1>7, <3>1, <3>2 DEF KeptFrom
    <3> QED  BY <3>2, <3>3
  <2> QED  BY <2>2 DEF IsInjective
<1>11. ASSUME NEW prop, InOrder(list, prop)
       PROVE  InOrder(found, prop)
  <2>1. ASSUME NEW i \in DOMAIN found, NEW k \in DOMAIN found, i < k
        PROVE  ps[i] < ps[k]
    BY <1>7, <2>1 DEF KeptFrom
  <2> QED  BY <1>8, <1>11, <2>1 DEF InOrder
<1> QED  BY <1>1, <1>5, <1>6, <1>9, <1>10, <1>11 DEF Shuffled

LEMMA SmallerIs ==
    ASSUME NEW a \in Nat, NEW b \in Nat
    PROVE  /\ Smaller(a, b) \in Nat /\ Smaller(a, b) <= a /\ Smaller(a, b) <= b
           /\ Smaller(a, b) = a \/ Smaller(a, b) = b
BY DEF Smaller

LEMMA SmallerOf ==
    ASSUME NEW a \in Nat, NEW b \in Nat, a <= b
    PROVE  Smaller(a, b) = a
BY DEF Smaller

\* How far a page goes in a list.
Ends(last, length, skip, take) ==
    /\ last \in Nat /\ last <= length /\ last <= skip + take
    /\ last = length \/ last = skip + take
    /\ (IF length - skip < 0 THEN 0 ELSE Smaller(length - skip, take))
       = IF skip + 1 <= last THEN last - skip ELSE 0

LEMMA WindowEnds ==
    ASSUME NEW length \in Nat, NEW skip \in Nat, NEW take \in Nat
    PROVE  Ends(Smaller(skip + take, length), length, skip, take)
<1> DEFINE last == Smaller(skip + take, length)
<1>1. PICK sum \in Nat : sum = skip + take
  OBVIOUS
<1>2. /\ last \in Nat /\ last <= length /\ last <= sum
      /\ last = length \/ last = sum
  BY <1>1, SmallerIs
<1> SUFFICES Ends(last, length, skip, take)
  OBVIOUS
<1> HIDE DEF last
<1>3. CASE length - skip < 0
  BY <1>1, <1>2, <1>3 DEF Ends
<1>4. CASE ~(length - skip < 0)
  <2>1. PICK left \in Nat : left = length - skip
    BY <1>4
  <2>2. /\ Smaller(left, take) \in Nat /\ Smaller(left, take) <= left
        /\ Smaller(left, take) <= take
        /\ Smaller(left, take) = left \/ Smaller(left, take) = take
    BY SmallerIs
  <2>3. Smaller(left, take) = IF skip + 1 <= last THEN last - skip ELSE 0
    BY <1>1, <1>2, <2>1, <2>2
  <2> QED  BY <1>1, <1>2, <1>4, <2>1, <2>3 DEF Ends
<1> QED  BY <1>3, <1>4

LEMMA CutIs ==
    ASSUME NEW T, NEW s \in Seq(T), NEW from \in Nat, NEW last \in Nat,
           NEW length \in Nat, 1 <= from, last <= Len(s), last - from + 1 = length
    PROVE  /\ SubSeq(s, from, last) \in Seq(T)
           /\ Len(SubSeq(s, from, last)) = length
           /\ DOMAIN SubSeq(s, from, last) = 1..length
           /\ \A n \in 1..length : SubSeq(s, from, last)[n] = s[from + n - 1]
<1>1. Len(s) \in Nat /\ DOMAIN s = 1..Len(s)
  BY LenProperties
<1>2. \A i \in from..last : s[i] \in T
  <2>1. \A i \in from..last : i \in 1..Len(s)
    BY <1>1
  <2> QED  BY <1>1, <2>1, LenProperties
<1>3. /\ SubSeq(s, from, last) \in Seq(T)
      /\ Len(SubSeq(s, from, last)) = IF from <= last THEN last - from + 1 ELSE 0
      /\ \A i \in 1..last - from + 1 : SubSeq(s, from, last)[i] = s[from + i - 1]
  BY <1>2, SubSeqProperties
<1>4. (IF from <= last THEN last - from + 1 ELSE 0) = length
  OBVIOUS
<1>5. Len(SubSeq(s, from, last)) = length
  BY <1>3, <1>4
<1>6. DOMAIN SubSeq(s, from, last) = 1..length
  BY <1>3, <1>5, LenProperties
<1> QED  BY <1>3, <1>5, <1>6

\* The places from skip + 1 on, take of them at most.
Window(w, s, skip, take) ==
    /\ Len(w) \in Nat /\ DOMAIN w = 1..Len(w)
    /\ Len(w) = IF Len(s) - skip < 0 THEN 0 ELSE Smaller(Len(s) - skip, take)
    /\ Len(w) <= take
    /\ \A n \in DOMAIN w : skip + n \in DOMAIN s /\ w[n] = s[skip + n]
    /\ \A m \in DOMAIN s : skip < m /\ m <= skip + take => m - skip \in DOMAIN w

LEMMA WindowIs ==
    ASSUME NEW T, NEW s \in Seq(T), NEW skip \in Nat, NEW take \in Nat
    PROVE  /\ SubSeq(s, skip + 1, Smaller(skip + take, Len(s))) \in Seq(T)
           /\ Window(SubSeq(s, skip + 1, Smaller(skip + take, Len(s))), s, skip, take)
<1>1. Len(s) \in Nat /\ DOMAIN s = 1..Len(s)
  BY LenProperties
<1>2. PICK last : last = Smaller(skip + take, Len(s))
  OBVIOUS
<1>3. /\ last \in Nat /\ last <= Len(s) /\ last <= skip + take
      /\ last = Len(s) \/ last = skip + take
      /\ (IF Len(s) - skip < 0 THEN 0 ELSE Smaller(Len(s) - skip, take))
         = IF skip + 1 <= last THEN last - skip ELSE 0
  <2>1. Ends(last, Len(s), skip, take)
    BY <1>1, <1>2, WindowEnds
  <2> QED  BY <2>1 DEF Ends
<1>4. CASE skip + 1 <= last
  <2>1. PICK from \in Nat, length \in Nat :
            from = skip + 1 /\ skip + length = last /\ last - skip = length
    <3>1. skip + 1 \in Nat /\ last - skip \in Nat /\ skip + (last - skip) = last
      BY <1>3, <1>4
    <3> QED  BY <3>1
  <2> DEFINE w == SubSeq(s, from, last)
  <2>2. last - from + 1 = length /\ 1 <= from /\ last \in Nat /\ last <= Len(s)
    BY <1>3, <2>1
  <2>3. /\ w \in Seq(T) /\ Len(w) = length /\ DOMAIN w = 1..length
        /\ \A n \in 1..length : w[n] = s[from + n - 1]
    BY <2>2, CutIs
  <2> HIDE DEF w
  <2>4. ASSUME NEW n \in DOMAIN w PROVE skip + n \in DOMAIN s /\ w[n] = s[skip + n]
    <3>1. n \in 1..length
      BY <2>3
    <3>2. from + n - 1 = skip + n
      BY <2>1, <3>1
    <3>3. last <= Len(s)
      BY <1>2, <1>3
    <3>4. skip + n \in 1..Len(s)
      BY <1>1, <2>1, <3>1, <3>3
    <3> QED  BY <1>1, <2>3, <3>1, <3>2, <3>4
  <2>5. ASSUME NEW m \in DOMAIN s, skip < m, m <= skip + take PROVE m - skip \in DOMAIN w
    <3>1. m \in Nat /\ m <= last
      BY <1>1, <1>2, <1>3, <2>5
    <3> QED  BY <2>1, <2>3, <2>5, <3>1
  <2>6. length = IF Len(s) - skip < 0 THEN 0 ELSE Smaller(Len(s) - skip, take)
    BY <1>2, <1>3, <1>4, <2>1
  <2>7. length <= take
    BY <1>2, <1>3, <2>1
  <2>8. Window(w, s, skip, take)
    BY <2>3, <2>4, <2>5, <2>6, <2>7 DEF Window
  <2> QED  BY <1>2, <1>3, <2>1, <2>3, <2>8 DEF w
<1>5. CASE ~(skip + 1 <= last)
  <2> DEFINE w == SubSeq(s, skip + 1, last)
  <2>1. w = <<>>
    <3>1. skip + 1 \in Int /\ last \in Int /\ last < skip + 1
      BY <1>3, <1>5
    <3> QED  BY <3>1, SubSeqEmpty
  <2> HIDE DEF w
  <2>2. w \in Seq(T) /\ Len(w) = 0 /\ DOMAIN w = 1..0 /\ 1..0 = {}
    BY <2>1
  <2>3. ASSUME NEW m \in DOMAIN s, skip < m, m <= skip + take PROVE FALSE
    BY <1>1, <1>2, <1>3, <1>5, <2>3
  <2>4. 0 = IF Len(s) - skip < 0 THEN 0 ELSE Smaller(Len(s) - skip, take)
    BY <1>2, <1>3, <1>5
  <2>5. Window(w, s, skip, take)
    BY <2>2, <2>3, <2>4 DEF Window
  <2> QED  BY <1>2, <1>3, <2>2, <2>5 DEF w
<1> QED  BY <1>4, <1>5

LEMMA ScriptRangeIs ==
    ASSUME NEW T, NEW ids \in Seq(T), NEW skip \in Nat, NEW take \in Nat
    PROVE  ScriptRange(ids, skip, take) \in Seq(T) /\ Window(ScriptRange(ids, skip, take), ids, skip, take)
BY WindowIs DEF ScriptRange

LEMMA ApplyPaginationIs ==
    ASSUME NEW T, NEW items \in Seq(T), NEW skip \in Nat, NEW take \in Nat
    PROVE  /\ ApplyPagination(items, skip, take) \in Seq(T)
           /\ Window(ApplyPagination(items, skip, take), items, skip, take)
<1>1. take # NoTake
  BY DEF NoTake
<1>2. ApplyPagination(items, skip, take)
      = SubSeq(items, skip + 1, Smaller(skip + take, Len(items)))
  BY <1>1 DEF ApplyPagination
<1> QED  BY <1>2, WindowIs

\* What keeps every place is the list itself.
LEMMA AllRemain ==
    ASSUME NEW T, NEW items \in Seq(T)
    PROVE  Remaining(items, DOMAIN items) = items
<1> DEFINE rest == Remaining(items, DOMAIN items)
<1>1. Len(items) \in Nat /\ DOMAIN items = 1..Len(items)
  BY LenProperties
<1>2. rest \in Seq(T) /\ \E ps : KeptFrom(rest, items, DOMAIN items, ps)
      /\ Len(rest) = Cardinality(DOMAIN items)
  BY RemainingIs
<1>3. Cardinality(DOMAIN items) = Len(items)
  <2>0. 1 \in Int /\ Len(items) \in Int
    BY <1>1
  <2>1. Cardinality(1..Len(items)) = IF 1 > Len(items) THEN 0 ELSE Len(items) - 1 + 1
    BY <2>0, FS_Interval
  <2> QED  BY <1>1, <2>1
<1> HIDE DEF rest
<1>4. PICK ps : KeptFrom(rest, items, DOMAIN items, ps)
  BY <1>2
<1>5. DOMAIN rest = DOMAIN items
  BY <1>1, <1>2, <1>3, LenProperties
<1> DEFINE Bad == {n \in DOMAIN items : ps[n] # n}
<1>6. ASSUME Bad # {} PROVE FALSE
  <2>1. PICK n \in Bad : \A m \in Bad : n <= m
    <3>1. Bad \in SUBSET Nat
      BY <1>1
    <3> HIDE DEF Bad
    <3> QED  BY <1>6, <3>1, LeastOf
  <2>2. n \in DOMAIN items /\ n \in Nat /\ ps[n] \in Nat /\ n < ps[n]
    BY <1>1, <1>4, <1>5, <2>1 DEF KeptFrom
  <2>3. PICK m \in DOMAIN items : ps[m] = n
    BY <1>4, <1>5, <2>2 DEF KeptFrom
  <2>4. m \in Nat /\ (m \in Bad => n <= m) /\ (m \notin Bad => ps[m] = m)
    BY <1>1, <2>1
  <2>5. m # n /\ (n < m => ps[n] < ps[m])
    BY <1>4, <1>5, <2>2, <2>3 DEF KeptFrom
  <2> HIDE DEF Bad
  <2> QED  BY <2>2, <2>3, <2>4, <2>5
<1>7. \A n \in DOMAIN items : rest[n] = items[n]
  BY <1>4, <1>5, <1>6 DEF KeptFrom
<1>8. rest = items
  <2>1. Len(rest) = Len(items) /\ \A n \in 1..Len(rest) : rest[n] = items[n]
    BY <1>1, <1>2, <1>3, <1>7
  <2> QED  BY <1>2, <2>1, SeqEqual
<1> QED  BY <1>8 DEF rest

-----------------------------------------------------------------------------
(* The lists that a walk goes through.                                     *)

SortLists == {<<>>} \cup Sorts
Filters == CommonFilters \cup NumberFilters \cup DateFilters \cup IdFilters
OptionsRecord == [filter : Filters, sort : SortLists, skip : Nat, take : 1..2]

LEMMA SortListIs ==
    ASSUME NEW sort \in SortLists
    PROVE  /\ Len(sort) \in 0..2
           /\ \A k \in 1..Len(sort) : sort[k].key \in {"createdAt", "progress"}
           /\ sort = <<>> <=> Len(sort) = 0
           /\ Len(sort) > 0 => Last(sort) = sort[Len(sort)]
<1>1. CASE sort = <<>>
  BY <1>1
<1>2. CASE sort = <<[key |-> "createdAt", order |-> "DESC"]>>
  BY <1>2 DEF Last
<1>3. CASE sort = <<[key |-> "createdAt", order |-> "ASC"],
                    [key |-> "progress", order |-> "DESC"]>>
  <2>1. Len(sort) = 2 /\ sort[1].key = "createdAt" /\ sort[2].key = "progress"
    BY <1>3
  <2>2. \A k \in 1..2 : k = 1 \/ k = 2
    OBVIOUS
  <2> QED  BY <1>3, <2>1, <2>2 DEF Last
<1> QED  BY <1>1, <1>2, <1>3 DEF SortLists, Sorts

\* The items of the jobs.
ItemsOfJobs == {Item(j, jobs[j]) : j \in Jobs}

LEMMA ItemsAre ==
    ASSUME StoreInv
    PROVE  /\ Items \in Seq(ItemsOfJobs)
           /\ DOMAIN Items = DOMAIN order /\ Len(Items) = Len(order)
           /\ \A i \in DOMAIN order : Items[i] = Item(order[i], jobs[order[i]])
           /\ IsInjective(Items)
           /\ \A x \in ItemsOfJobs : x.id \in Jobs /\ x.id \in Nat /\ x = Item(x.id, jobs[x.id])
           /\ \A x \in ItemsOfJobs : \A key \in {"createdAt", "progress"} :
                 SortValue(x, key) \in Int
<1> DEFINE f == [i \in DOMAIN order |-> Item(order[i], jobs[order[i]])]
<1>1. /\ order \in Seq(Jobs) /\ Len(order) \in Nat /\ DOMAIN order = 1..Len(order)
      /\ IsInjective(order) /\ jobs \in [Jobs -> JobRecord]
  BY LenProperties DEF StoreInv
<1>2. \A i \in DOMAIN order : order[i] \in Jobs
  BY <1>1, LenProperties
<1>3. f \in Seq(ItemsOfJobs)
  <2>1. \A i \in DOMAIN order : Item(order[i], jobs[order[i]]) \in ItemsOfJobs
    BY <1>2 DEF ItemsOfJobs
  <2> QED  BY <1>1, <2>1
<1>4. DOMAIN f = 1..Len(order) /\ Len(f) = Len(order)
  BY <1>1, <1>3
<1>5. \A i \in DOMAIN order : f[i] = Item(order[i], jobs[order[i]])
  OBVIOUS
<1>6. Items = f
  BY <1>3, ConcatEmptySeq DEF Items, ItemsOf
<1> HIDE DEF f
<1>7. \A j \in Jobs : Item(j, jobs[j]).id = j
  BY DEF Item
<1>8. IsInjective(f)
  BY <1>1, <1>2, <1>4, <1>5, <1>7 DEF IsInjective
<1>9. \A j \in Jobs : j \in Nat
  BY JobCountAssumption DEF Jobs
<1>10. \A x \in ItemsOfJobs : x.id \in Jobs /\ x.id \in Nat /\ x = Item(x.id, jobs[x.id])
  BY <1>7, <1>9 DEF ItemsOfJobs
<1>11. ASSUME NEW x \in ItemsOfJobs, NEW key \in {"createdAt", "progress"}
       PROVE  SortValue(x, key) \in Int
  <2>1. PICK j \in Jobs : x = Item(j, jobs[j])
    BY DEF ItemsOfJobs
  <2>2. jobs[j].progress \in 0..Full
    BY <1>1 DEF JobRecord
  <2>3. x.createdAt = j /\ x.progress = jobs[j].progress
    BY <2>1 DEF Item
  <2>4. x[key] \in Int
    BY <1>9, <2>2, <2>3 DEF Full
  <2> QED  BY <2>4 DEF SortValue
<1> QED  BY <1>1, <1>3, <1>4, <1>5, <1>6, <1>8, <1>10, <1>11

\* The ids that the script finds.
BullIds(types, filter) ==
    {job.id : job \in {job \in BullJobs :
                          /\ job.list \in types
                          /\ "queueName" \in DOMAIN filter =>
                                job.queueName = filter.queueName.eq}}

LEMMA BullIdsAre ==
    ASSUME StoreInv, NEW types, NEW filter
    PROVE  /\ BullIds(types, filter) \subseteq Range(order)
           /\ Range(order) \subseteq Jobs
           /\ IsFiniteSet(BullIds(types, filter))
           /\ Cardinality(BullIds(types, filter)) <= JobCount
           /\ Lists(NewestFirst(BullIds(types, filter)), BullIds(types, filter),
                    Downwards(BullIds(types, filter)))
<1> DEFINE S == BullIds(types, filter)
<1>1. S \subseteq Range(order)
  BY DEF BullIds, BullJobs, BullJobsOf
<1>2. Range(order) \subseteq Jobs
  BY LenProperties DEF StoreInv, Range
<1> HIDE DEF S
<1>3. IsFiniteSet(Jobs) /\ Cardinality(Jobs) = JobCount /\ Jobs \subseteq Int
  <2>1. Cardinality(1..JobCount) = IF 1 > JobCount THEN 0 ELSE JobCount - 1 + 1
    BY JobCountAssumption, FS_Interval
  <2>2. IsFiniteSet(1..JobCount)
    BY JobCountAssumption, FS_Interval
  <2> QED  BY <2>1, <2>2, JobCountAssumption DEF Jobs
<1>4. IsFiniteSet(S) /\ Cardinality(S) <= JobCount
  BY <1>1, <1>2, <1>3, FS_Subset
<1>5. S \in SUBSET Int
  BY <1>1, <1>2, <1>3
<1>6. Lists(NewestFirst(S), S, Downwards(S))
  BY <1>4, <1>5, RankedDownwards DEF NewestFirst
<1> QED  BY <1>1, <1>2, <1>4, <1>6 DEF S

LEMMA ScriptFinds ==
    ASSUME NEW types, NEW filter, NEW skip, NEW take
    PROVE  GetJobsByType(BullJobs, types, filter, skip, take).jobIds
           = ScriptRange(NewestFirst(BullIds(types, filter)), skip, take)
BY DEF GetJobsByType, BullIds

\* What the ids of all pages together are.
ListOfJobs(list) ==
    /\ list \in Seq(Jobs) /\ Len(list) \in Nat /\ DOMAIN list = 1..Len(list)
    /\ IsInjective(list)
    /\ \A n \in DOMAIN list : IsStored(list[n])

LEMMA FoundInMemory ==
    ASSUME StoreInv, JobsInv, NEW sort \in SortLists, NEW filter,
           NEW found, found = ApplyFilters(ApplySort(Items, sort), filter)
    PROVE  /\ found \in Seq(ItemsOfJobs) /\ Len(found) \in Nat /\ DOMAIN found = 1..Len(found)
           /\ Range(found) = Matching(Items, filter)
           /\ IsInjective(found)
           /\ sort # <<>> => InOrder(found, Last(sort))
           /\ \A n \in DOMAIN found :
                 /\ found[n].id \in Jobs /\ IsStored(found[n].id)
                 /\ found[n] = Item(found[n].id, jobs[found[n].id])
<1>1. /\ Items \in Seq(ItemsOfJobs) /\ DOMAIN Items = DOMAIN order
      /\ \A i \in DOMAIN order : Items[i] = Item(order[i], jobs[order[i]])
      /\ IsInjective(Items)
      /\ \A x \in ItemsOfJobs : x.id \in Jobs /\ x = Item(x.id, jobs[x.id])
      /\ \A x \in ItemsOfJobs : \A key \in {"createdAt", "progress"} : SortValue(x, key) \in Int
  BY ItemsAre
<1>2. /\ Len(sort) \in Nat
      /\ \A k \in 1..Len(sort) : sort[k].key \in {"createdAt", "progress"}
      /\ sort # <<>> => Len(sort) > 0 /\ Last(sort) = sort[Len(sort)]
  BY SortListIs
<1>3. /\ found \in Seq(ItemsOfJobs)
      /\ Range(found) = Matching(Items, filter)
      /\ IsInjective(Items) => IsInjective(found)
      /\ Len(sort) > 0 => InOrder(found, sort[Len(sort)])
  <2>1. SortableOn(ItemsOfJobs, sort)
    BY <1>1, <1>2 DEF SortableOn
  <2>2. Items \in Seq(ItemsOfJobs) /\ Len(sort) \in Nat
    BY <1>1, <1>2
  <2> QED  BY <2>1, <2>2, FoundIs
<1>4. Len(found) \in Nat /\ DOMAIN found = 1..Len(found) /\ \A n \in DOMAIN found : found[n] \in ItemsOfJobs
  BY <1>3, LenProperties
<1>5. ASSUME NEW n \in DOMAIN found PROVE IsStored(found[n].id)
  <2>1. found[n] \in Range(Items)
    BY <1>3 DEF Matching, Range
  <2>2. PICK i \in DOMAIN order : found[n] = Item(order[i], jobs[order[i]])
    BY <1>1, <2>1 DEF Range
  <2>3. found[n].id = order[i] /\ order[i] \in Jobs
    BY <2>2, LenProperties DEF Item, StoreInv
  <2> QED  BY <2>3 DEF JobsInv
<1> QED  BY <1>1, <1>2, <1>3, <1>4, <1>5

LEMMA ListedInMemory ==
    ASSUME StoreInv, JobsInv, adapter = "memory", NEW query, query.sort \in SortLists,
           NEW found, found = ApplyFilters(ApplySort(Items, query.sort), query.filter),
           NEW list, list = Listed(jobs, order, query)
    PROVE  /\ ListOfJobs(list) /\ Len(list) = Len(found) /\ DOMAIN list = DOMAIN found
           /\ \A n \in DOMAIN found : list[n] = found[n].id
<1>1. list = [i \in DOMAIN found |-> found[i].id]
  BY DEF Listed, Items
<1>2. /\ found \in Seq(ItemsOfJobs) /\ Len(found) \in Nat /\ DOMAIN found = 1..Len(found)
      /\ IsInjective(found)
      /\ \A n \in DOMAIN found :
            /\ found[n].id \in Jobs /\ IsStored(found[n].id)
            /\ found[n] = Item(found[n].id, jobs[found[n].id])
  BY FoundInMemory
<1>3. list \in Seq(Jobs) /\ DOMAIN list = 1..Len(found) /\ Len(list) = Len(found)
  BY <1>1, <1>2
<1>4. \A n \in DOMAIN found : list[n] = found[n].id
  BY <1>1
<1>5. IsInjective(list)
  BY <1>2, <1>3, <1>4 DEF IsInjective
<1> QED  BY <1>2, <1>3, <1>4, <1>5 DEF ListOfJobs

\* On BullMQ a list of JobCount ids has all of them.
LEMMA ListedOnBull ==
    ASSUME StoreInv, JobsInv, adapter = "bullmq", NEW query,
           NEW list, list = Listed(jobs, order, query)
    PROVE  /\ list = NewestFirst(BullIds(JobTypes(query.filter), query.filter))
           /\ ListOfJobs(list)
<1> DEFINE S == BullIds(JobTypes(query.filter), query.filter)
           ids == NewestFirst(S)
<1>1. /\ S \subseteq Range(order) /\ Range(order) \subseteq Jobs
      /\ Cardinality(S) <= JobCount /\ Lists(ids, S, Downwards(S))
  BY BullIdsAre
<1>2. list = ScriptRange(ids, 0, JobCount)
  <2>1. adapter # "memory"
    OBVIOUS
  <2>2. list = GetJobsByType(BullJobs, JobTypes(query.filter), query.filter, 0, JobCount).jobIds
    BY <2>1 DEF Listed, BullJobs
  <2> QED  BY <2>2, ScriptFinds
<1> HIDE DEF S, ids
<1>3. ids \in Seq(S) /\ Len(ids) \in Nat /\ Len(ids) <= JobCount /\ DOMAIN ids = 1..Len(ids)
      /\ (\A i, k \in DOMAIN ids : ids[i] = ids[k] => i = k)
  BY <1>1, LenProperties DEF Lists
<1>4. list \in Seq(S) /\ Window(list, ids, 0, JobCount)
  <2>1. 0 \in Nat /\ JobCount \in Nat
    BY JobCountAssumption
  <2> QED  BY <1>2, <1>3, <2>1, ScriptRangeIs
<1>5. Len(list) = Len(ids)
  <2>1. Len(list) = IF Len(ids) - 0 < 0 THEN 0 ELSE Smaller(Len(ids) - 0, JobCount)
    BY <1>4 DEF Window
  <2>2. Len(ids) - 0 = Len(ids) /\ ~(Len(ids) < 0)
    BY <1>3
  <2>3. Len(list) = Smaller(Len(ids), JobCount)
    BY <2>1, <2>2
  <2> QED  BY <1>3, <2>3, JobCountAssumption, SmallerOf
<1>6. \A n \in 1..Len(list) : list[n] = ids[n]
  <2>1. \A n \in 1..Len(list) : 0 + n = n
    BY <1>3, <1>5
  <2>2. \A n \in 1..Len(list) : list[n] = ids[0 + n]
    BY <1>4 DEF Window
  <2> QED  BY <2>1, <2>2
<1>7. list = ids
  BY <1>3, <1>4, <1>5, <1>6, SeqEqual
<1>8. ids \in Seq(Jobs)
  BY <1>1, <1>3
<1>9. IsInjective(ids)
  BY <1>3 DEF IsInjective
<1>10. ASSUME NEW n \in DOMAIN ids PROVE IsStored(ids[n])
  <2>1. ids[n] \in S
    BY <1>3, LenProperties
  <2>2. ids[n] \in Jobs /\ \E i \in DOMAIN order : order[i] = ids[n]
    BY <1>1, <2>1 DEF Range
  <2> QED  BY <2>2 DEF JobsInv
<1> QED  BY <1>3, <1>7, <1>8, <1>9, <1>10 DEF ListOfJobs, S, ids

LEMMA ListedIs ==
    ASSUME StoreInv, JobsInv, NEW query, query.sort \in SortLists
    PROVE  ListOfJobs(Listed(jobs, order, query))
<1>1. adapter = "memory" \/ adapter = "bullmq"
  BY ReaderAssumption DEF StoreInv
<1> QED  BY <1>1, ListedInMemory, ListedOnBull

LEMMA OptionsAre ==
    ASSUME NEW q \in OptionsRecord
    PROVE  q.filter \in Filters /\ q.sort \in SortLists /\ q.skip \in Nat /\ q.take \in 1..2
           /\ q.take \in Nat /\ q.take # 0 /\ q.take # NoTake /\ q.take > 0
BY DEF OptionsRecord, NoTake

\* A page is cut out of the list of all pages.
LEMMA PageFromMemoryCuts ==
    ASSUME StoreInv, JobsInv, options \in OptionsRecord, PageFromMemory
    PROVE  /\ page' \in Seq(Jobs)
           /\ Window(page', Listed(jobs, order, options), options.skip, options.take)
           /\ Turn(page')
<1> DEFINE found == ApplyFilters(ApplySort(Items, options.sort), options.filter)
           items == FindMany(Items, options).items
           list == Listed(jobs, order, options)
<1>1. /\ options.sort \in SortLists /\ options.skip \in Nat /\ options.take \in Nat
      /\ options.take > 0
  BY OptionsAre
<1>2. adapter = "memory" /\ page' = [i \in DOMAIN items |-> items[i].id] /\ Turn(page')
  BY DEF PageFromMemory
<1>3. items = ApplyPagination(found, options.skip, options.take)
  BY <1>1 DEF FindMany
<1> HIDE DEF found, items, list
<1>4. /\ found \in Seq(ItemsOfJobs) /\ DOMAIN found = 1..Len(found)
      /\ \A n \in DOMAIN found : found[n].id \in Jobs
  BY <1>1, FoundInMemory DEF found
<1>5. /\ ListOfJobs(list) /\ Len(list) = Len(found) /\ DOMAIN list = DOMAIN found
      /\ \A n \in DOMAIN found : list[n] = found[n].id
  BY <1>1, <1>2, ListedInMemory DEF found, list
<1>6. items \in Seq(ItemsOfJobs) /\ Window(items, found, options.skip, options.take)
  BY <1>1, <1>3, <1>4, ApplyPaginationIs
<1>7. Len(items) \in Nat /\ DOMAIN items = 1..Len(items)
  BY <1>6 DEF Window
<1>8. \A n \in DOMAIN items : items[n].id \in Jobs
  BY <1>4, <1>6 DEF Window
<1>9. page' \in Seq(Jobs) /\ DOMAIN page' = DOMAIN items /\ Len(page') = Len(items)
  BY <1>2, <1>7, <1>8
<1>10. \A n \in DOMAIN page' : /\ options.skip + n \in DOMAIN list
                               /\ page'[n] = list[options.skip + n]
  BY <1>2, <1>5, <1>6, <1>9 DEF Window
<1>11. Window(page', list, options.skip, options.take)
  BY <1>5, <1>6, <1>9, <1>10 DEF Window
<1> QED  BY <1>2, <1>9, <1>11 DEF list

LEMMA ScriptCuts ==
    ASSUME StoreInv, JobsInv, options \in OptionsRecord, Script
    PROVE  /\ page' \in Seq(Jobs) /\ page' = CallCustomScript.jobIds
           /\ Window(page', Listed(jobs, order, options), options.skip, options.take)
<1> DEFINE list == Listed(jobs, order, options)
<1>1. options.sort \in SortLists /\ options.skip \in Nat /\ options.take \in Nat
  BY OptionsAre
<1>2. adapter = "bullmq" /\ page' = CallCustomScript.jobIds
  BY DEF Script
<1>3. page' = ScriptRange(NewestFirst(BullIds(JobTypes(options.filter), options.filter)),
                          options.skip, options.take)
  BY <1>2, ScriptFinds DEF CallCustomScript
<1>4. /\ list = NewestFirst(BullIds(JobTypes(options.filter), options.filter))
      /\ ListOfJobs(list)
  BY <1>2, ListedOnBull
<1> HIDE DEF list
<1>5. list \in Seq(Jobs) /\ page' = ScriptRange(list, options.skip, options.take)
  BY <1>3, <1>4 DEF ListOfJobs
<1>6. page' \in Seq(Jobs) /\ Window(page', list, options.skip, options.take)
  BY <1>1, <1>5, ScriptRangeIs
<1> QED  BY <1>2, <1>6 DEF list

\* A page has come back.
LEMMA TurnIs ==
    ASSUME returned \in [Jobs -> Nat], options \in OptionsRecord,
           NEW ids \in Seq(Jobs), Turn(ids)
    PROVE  /\ returned' \in [Jobs -> Nat]
           /\ \A j \in Jobs : /\ (\E n \in DOMAIN ids : ids[n] = j) => returned'[j] = returned[j] + 1
                              /\ ~(\E n \in DOMAIN ids : ids[n] = j) => returned'[j] = returned[j]
           /\ options' \in OptionsRecord
           /\ options'.filter = options.filter /\ options'.sort = options.sort
           /\ options'.take = options.take /\ options'.skip = options.skip + options.take
           /\ ids = <<>> => walk' = "over"
           /\ ids # <<>> => walk' = "paging"
<1>1. returned' = [j \in Jobs |-> returned[j] + IF Contains(ids, j) THEN 1 ELSE 0]
  BY DEF Turn
<1>2. DOMAIN ids = 1..Len(ids)
  BY LenProperties
<1>3. \A j \in Jobs : Contains(ids, j) <=> \E n \in DOMAIN ids : ids[n] = j
  BY <1>2 DEF Contains
<1>4. options' = [options EXCEPT !.skip = options.skip + options.take]
  BY DEF Turn
<1>5. options.skip + options.take \in Nat
  BY OptionsAre
<1>6. /\ options' \in OptionsRecord
      /\ options'.filter = options.filter /\ options'.sort = options.sort
      /\ options'.take = options.take /\ options'.skip = options.skip + options.take
  BY <1>4, <1>5 DEF OptionsRecord
<1>7. \A j \in Jobs : returned[j] \in Nat
  OBVIOUS
<1>8. /\ returned' \in [Jobs -> Nat]
      /\ \A j \in Jobs : /\ Contains(ids, j) => returned'[j] = returned[j] + 1
                         /\ ~Contains(ids, j) => returned'[j] = returned[j]
  BY <1>1, <1>7
<1> QED  BY <1>3, <1>6, <1>8 DEF Turn

-----------------------------------------------------------------------------
(* The walk.                                                               *)

FetchedRecord == [id : Jobs, finished : BOOLEAN]

WalkTypes ==
    /\ walk \in {"idle", "paging", "fetching", "asking", "over", "rejected"}
    /\ walk # "idle" =>
          /\ options \in OptionsRecord
          /\ adapter = "bullmq" => options.filter \in CommonFilters /\ options.sort = <<>>
    /\ walk = "idle" => /\ options = NoQuery /\ page = <<>> /\ fetched = <<>>
                        /\ \A j \in Jobs : returned[j] = 0
    /\ page \in Seq(Jobs) /\ fetched \in Seq(FetchedRecord)
    /\ Len(page) <= options.take /\ Len(fetched) <= options.take
    /\ walk = "fetching" => page # <<>> /\ Len(page) + Len(fetched) <= options.take
    /\ walk = "asking" => fetched # <<>> /\ Len(page) + Len(fetched) <= options.take
    /\ walk \in {"fetching", "asking"} => adapter = "bullmq"
    /\ returned \in [Jobs -> Nat]
    /\ there \subseteq Jobs
    /\ onlyGrew \in BOOLEAN

\* The job is listed behind this place.
Ahead(j, list, place) == \E n \in DOMAIN list : n > place /\ list[n] = j

\* The job is in the page under way.
Held(j) ==
    \/ \E n \in DOMAIN page : page[n] = j
    \/ \E n \in DOMAIN fetched : fetched[n].id = j

\* A job that was listed when the walk began has been returned, is in the page
\* under way, or is still ahead in the list; and the ids to be fetched are listed.
Accounted(list) ==
    /\ walk = "paging" => \A j \in there : returned[j] > 0 \/ Ahead(j, list, options.skip)
    /\ walk \in {"fetching", "asking"} =>
          \A j \in there : \/ returned[j] > 0 \/ Held(j)
                           \/ Ahead(j, list, options.skip + options.take)
    /\ walk = "fetching" => \A n \in DOMAIN page : Ahead(page[n], list, 0)
    /\ walk = "over" => \A j \in there : returned[j] > 0

NothingMissed == onlyGrew => Accounted(Listed(jobs, order, options))

\* A job that is ahead, or is not yet there, has not been returned.
NothingRepeated ==
    adapter = "memory" /\ options.filter = <<>> /\ options.sort = <<>> =>
        \A j \in Jobs \ putBack :
            /\ returned[j] <= 1
            /\ jobs[j].state = "new" => returned[j] = 0
            /\ Ahead(j, order, options.skip) => returned[j] = 0

WalkInv == WalkTypes /\ NothingMissed /\ NothingRepeated

\* The list in the next state, if no job gets or loses its priority.
LEMMA ListedAfter ==
    ASSUME UNCHANGED <<adapter, urgent>>
    PROVE  Listed(jobs, order, options)' = Listed(jobs', order', options')
<1>1. BullJobsOf(jobs, order)' = BullJobsOf(jobs', order')
  BY DEF BullJobsOf, ListOf, WaitingList
<1> QED  BY <1>1 DEF Listed

LEMMA ListedNow == StoreInv /\ JobsInv /\ options \in OptionsRecord
                   => ListOfJobs(Listed(jobs, order, options))
BY ListedIs, OptionsAre

LEMMA ListedThen == (StoreInv /\ JobsInv /\ options \in OptionsRecord)'
                    => ListOfJobs(Listed(jobs, order, options))'
BY ListedNow, PTL

LEMMA WalkInit == Init => WalkInv
<1> SUFFICES ASSUME Init
             PROVE  WalkInv
  OBVIOUS
<1>1. /\ walk = "idle" /\ options = NoQuery /\ page = <<>> /\ fetched = <<>>
      /\ returned = [j \in Jobs |-> 0] /\ there = {} /\ onlyGrew = TRUE
  BY DEF Init
<1>2. returned \in [Jobs -> Nat] /\ \A j \in Jobs : returned[j] = 0
  BY <1>1
<1>3. Len(page) = 0 /\ Len(fetched) = 0 /\ options.take = 0
  BY <1>1 DEF NoQuery
<1>4. page \in Seq(Jobs) /\ fetched \in Seq(FetchedRecord) /\ onlyGrew \in BOOLEAN
  BY <1>1
<1>5. WalkTypes
  BY <1>1, <1>2, <1>3, <1>4 DEF WalkTypes
<1>6. NothingMissed
  BY <1>1 DEF NothingMissed, Accounted
<1>7. NothingRepeated
  BY <1>2 DEF NothingRepeated
<1> QED  BY <1>5, <1>6, <1>7 DEF WalkInv

\* What is ahead stays ahead when the list only grows.
LEMMA AheadStays ==
    ASSUME NEW before, NEW after \in Seq(Jobs), OnlyGrows(before, after),
           NEW j, NEW place \in Nat, Ahead(j, before, place)
    PROVE  Ahead(j, after, place)
<1>1. PICK places \in SUBSET DOMAIN after : Remaining(after, places) = before
  BY DEF OnlyGrows
<1>2. \E ps : KeptFrom(before, after, places, ps)
  BY <1>1, RemainingIs
<1>3. PICK ps : KeptFrom(before, after, places, ps)
  BY <1>2
<1>4. PICK n \in DOMAIN before : n > place /\ before[n] = j
  BY DEF Ahead
<1>5. /\ ps[n] \in DOMAIN after /\ ps[n] \in Nat /\ n <= ps[n] /\ after[ps[n]] = before[n]
      /\ n \in Nat
  BY <1>1, <1>3, <1>4 DEF KeptFrom
<1> QED  BY <1>4, <1>5 DEF Ahead

\* A change of the jobs.
LEMMA StoreNextWalk ==
    ASSUME ReadsInv, ReadsInv', WalkInv, NEW j \in Jobs, StoreNext(j)
    PROVE  WalkInv'
<1>1. StoreInv /\ JobsInv /\ StoreInv' /\ JobsInv'
  BY DEF ReadsInv
<1>2. StoreStep(j)
  BY <1>1, StoreNextSteps
<1>3. PICK goesBack \in BOOLEAN : Noted(j, goesBack)
  BY <1>1, StoreNextSteps
<1>4. /\ UNCHANGED <<adapter, urgent, walk, options, page, fetched, returned, there>>
      /\ onlyGrew' = (onlyGrew /\ (IsWalking =>
            OnlyGrows(Listed(jobs, order, options), Listed(jobs', order', options'))))
  BY <1>3 DEF Noted
<1>5. WalkTypes'
  <2>1. onlyGrew' \in BOOLEAN
    BY <1>4
  <2> QED  BY <1>4, <2>1 DEF WalkInv, WalkTypes
<1>6. ASSUME onlyGrew'
      PROVE  Accounted(Listed(jobs, order, options))'
  <2>1. PICK before : before = Listed(jobs, order, options)
    OBVIOUS
  <2>2. PICK after : after = Listed(jobs, order, options)'
    OBVIOUS
  <2>3. Accounted(before)
    BY <1>4, <1>6, <2>1 DEF WalkInv, NothingMissed
  <2>4. \A i : Held(i)' <=> Held(i)
    BY <1>4 DEF Held
  <2>5. CASE ~IsWalking
    <3>1. walk \notin {"paging", "fetching", "asking"}
      BY <2>5 DEF IsWalking
    <3>2. Accounted(after)'
      BY <1>4, <2>3, <3>1 DEF Accounted
    <3> QED  BY <2>2, <3>2
  <2>6. CASE IsWalking
    <3>1. options \in OptionsRecord /\ options' \in OptionsRecord
      BY <1>4, <2>6 DEF IsWalking, WalkInv, WalkTypes
    <3>2. options.skip \in Nat /\ options.skip + options.take \in Nat /\ 0 \in Nat
      BY <3>1, OptionsAre
    <3>3. after \in Seq(Jobs)
      <4>1. ListOfJobs(Listed(jobs, order, options))'
        BY <1>1, <3>1, ListedThen
      <4> QED  BY <2>2, <4>1 DEF ListOfJobs
    <3>4. OnlyGrows(before, after)
      <4>1. after = Listed(jobs', order', options')
        BY <1>4, <2>2, ListedAfter
      <4> QED  BY <1>4, <1>6, <2>1, <2>6, <4>1
    <3>5. ASSUME NEW i, NEW place \in Nat, Ahead(i, before, place)
          PROVE  Ahead(i, after, place)
      BY <3>3, <3>4, <3>5, AheadStays
    <3>6. Accounted(after)'
      BY <1>4, <2>3, <2>4, <3>2, <3>5 DEF Accounted
    <3> QED  BY <2>2, <3>6
  <2> QED  BY <2>5, <2>6
<1>7. NothingRepeated'
  <2> SUFFICES ASSUME adapter = "memory", options.filter = <<>>, options.sort = <<>>,
                      NEW i \in Jobs \ putBack'
               PROVE  /\ returned[i] <= 1
                      /\ jobs'[i].state = "new" => returned[i] = 0
                      /\ Ahead(i, order', options.skip) => returned[i] = 0
    BY <1>4 DEF NothingRepeated, Ahead
  <2>1. i \notin putBack
    BY <1>2 DEF StoreStep, Changes, Enters, Drops
  <2>2. /\ returned[i] <= 1
        /\ jobs[i].state = "new" => returned[i] = 0
        /\ Ahead(i, order, options.skip) => returned[i] = 0
    BY <2>1 DEF WalkInv, NothingRepeated
  <2>3. jobs'[i].state = "new" => returned[i] = 0
    <3>1. CASE i = j
      BY <1>2, <3>1 DEF StoreStep, Changes, Enters, Drops, NotStored
    <3>2. CASE i # j
      BY <1>2, <2>2, <3>2 DEF StoreStep
    <3> QED  BY <3>1, <3>2
  <2>4. Ahead(i, order', options.skip) => Ahead(i, order, options.skip) \/ returned[i] = 0
    <3>1. CASE Changes(j)
      BY <3>1 DEF Changes
    <3>2. CASE Enters(j)
      <4>1. order' = Append(order, j)
        BY <3>2 DEF Enters
      <4>2. i = j => returned[i] = 0
        <5>1. i = j => putBack' = putBack /\ jobs[j].state = "new"
          BY <3>2 DEF Enters
        <5> QED  BY <2>2, <5>1
      <4>3. /\ DOMAIN Append(order, j) = 1..(Len(order) + 1)
            /\ Len(order) \in Nat /\ DOMAIN order = 1..Len(order)
            /\ \A n \in DOMAIN order : Append(order, j)[n] = order[n]
            /\ Append(order, j)[Len(order) + 1] = j
        BY <1>1, AppendIs DEF StoreInv
      <4>4. \A n \in DOMAIN order' : n \in DOMAIN order \/ n = Len(order) + 1
        BY <4>1, <4>3
      <4> QED  BY <4>1, <4>2, <4>3, <4>4 DEF Ahead
    <3>3. CASE Drops(j)
      <4> DEFINE places == {n \in DOMAIN order : order[n] # j}
      <4>1. order' = Remaining(order, places) /\ places \in SUBSET DOMAIN order
        BY <3>3 DEF Drops
      <4> HIDE DEF places
      <4>2. order \in Seq(Jobs) /\ options.skip \in Int
        <5>1. options.skip \in Int
          <6>1. CASE walk = "idle"
            BY <6>1 DEF WalkInv, WalkTypes, NoQuery
          <6>2. CASE walk # "idle"
            BY <6>2, OptionsAre DEF WalkInv, WalkTypes
          <6> QED  BY <6>1, <6>2
        <5> QED  BY <1>1, <5>1 DEF StoreInv
      <4>3. \E ps : KeptFrom(order', order, places, ps)
        BY <4>1, <4>2, RemainingIs
      <4>4. PICK ps : KeptFrom(order', order, places, ps)
        BY <4>3
      <4>5. \A n \in DOMAIN order' : /\ ps[n] \in DOMAIN order /\ ps[n] \in Nat /\ n \in Nat
                                     /\ n <= ps[n] /\ order'[n] = order[ps[n]]
        BY <4>1, <4>4 DEF KeptFrom
      <4> QED  BY <4>2, <4>5 DEF Ahead
    <3> QED  BY <1>2, <3>1, <3>2, <3>3 DEF StoreStep
  <2> QED  BY <2>2, <2>3, <2>4
<1> QED  BY <1>5, <1>6, <1>7 DEF WalkInv, NothingMissed

\* The stream leaves the walk alone.
LEMMA StreamNextWalk ==
    ASSUME WalkInv, StreamNext \/ UNCHANGED vars
    PROVE  WalkInv'
<1>1. UNCHANGED <<storeVars, walkVars>>
  <2>1. Tick => UNCHANGED <<storeVars, walkVars>>
    BY DEF Tick
  <2> QED
    BY <2>1 DEF StreamNext, TickTimesOut, TickThrows, TickReads, TickAsks, GetJob, GetState,
                FindOneThrows, vars
<1>2. UNCHANGED <<adapter, urgent, jobs, order, putBack, walk, options, page, fetched,
                  returned, there, onlyGrew>>
  BY <1>1 DEF storeVars, walkVars
<1>3. WalkTypes'
  BY <1>2 DEF WalkInv, WalkTypes
<1>4. Listed(jobs, order, options)' = Listed(jobs, order, options)
  BY <1>2, ListedAfter
<1>5. \A list : Accounted(list)' <=> Accounted(list)
  BY <1>2 DEF Accounted, Held
<1>6. NothingMissed'
  BY <1>2, <1>4, <1>5 DEF WalkInv, NothingMissed
<1>7. NothingRepeated'
  BY <1>2 DEF WalkInv, NothingRepeated, Ahead
<1> QED  BY <1>3, <1>6, <1>7 DEF WalkInv

\* A step of the walk that leaves filter and sort of the calls alone has the same
\* list before it.
LEMMA SameList ==
    ASSUME UNCHANGED <<adapter, urgent, jobs, order>>,
           options'.filter = options.filter, options'.sort = options.sort
    PROVE  Listed(jobs, order, options)' = Listed(jobs, order, options)
<1>1. Listed(jobs, order, options)' = Listed(jobs', order', options')
  BY ListedAfter
<1>2. jobs' = jobs /\ order' = order
  OBVIOUS
<1>3. Listed(jobs, order, options') = Listed(jobs, order, options)
  BY DEF Listed
<1> QED  BY <1>1, <1>2, <1>3

LEMMA WalkBeginsWalk ==
    ASSUME ReadsInv, WalkInv, WalkBegins
    PROVE  WalkInv'
<1>1. /\ walk = "idle" /\ walk' = "paging" /\ options' \in Queries
      /\ UNCHANGED <<adapter, urgent, jobs, order, putBack, page, fetched, returned, onlyGrew>>
      /\ there' = Range(Listed(jobs, order, options'))
  BY DEF WalkBegins, storeVars
<1>2. /\ page = <<>> /\ fetched = <<>> /\ returned \in [Jobs -> Nat] /\ onlyGrew \in BOOLEAN
      /\ \A j \in Jobs : returned[j] = 0
  BY <1>1 DEF WalkInv, WalkTypes
<1>3. /\ options' \in OptionsRecord /\ options'.skip = 0
      /\ adapter = "bullmq" => options'.filter \in CommonFilters /\ options'.sort = <<>>
  <2>1. PICK filter, sort, take :
            /\ options' = Query(filter, sort, take)
            /\ filter \in Filters /\ sort \in SortLists /\ take \in 1..2
            /\ adapter = "bullmq" => filter \in CommonFilters /\ sort = <<>>
    <3>1. CASE \E filter \in CommonFilters, take \in 1..2 : options' = Query(filter, <<>>, take)
      BY <3>1 DEF Filters, SortLists
    <3>2. CASE adapter # "bullmq" /\ \E filter \in NumberFilters \cup DateFilters \cup IdFilters :
                                        options' = Query(filter, <<>>, 1)
      BY <3>2 DEF Filters, SortLists
    <3>3. CASE adapter # "bullmq" /\ \E filter \in {<<>>} \cup BooleanFilters, sort \in Sorts :
                                        options' = Query(filter, sort, 2)
      BY <3>3 DEF Filters, SortLists, CommonFilters
    <3> QED  BY <1>1, <3>1, <3>2, <3>3 DEF Queries
  <2> QED  BY <2>1 DEF Query, OptionsRecord
<1>4. StoreInv /\ JobsInv /\ options'.sort \in SortLists
  BY <1>3, OptionsAre DEF ReadsInv
<1>5. PICK list : list = Listed(jobs, order, options')
  OBVIOUS
<1>6. /\ list \in Seq(Jobs) /\ DOMAIN list = 1..Len(list) /\ Len(list) \in Nat
      /\ \A n \in DOMAIN list : list[n] \in Jobs
  BY <1>4, <1>5, ListedIs, LenProperties DEF ListOfJobs
<1>7. list = Listed(jobs, order, options)'
  <2>1. Listed(jobs, order, options)' = Listed(jobs', order', options')
    BY <1>1, ListedAfter
  <2>2. jobs' = jobs /\ order' = order
    BY <1>1
  <2> QED  BY <1>5, <2>1, <2>2
<1>8. \A j \in there' : Ahead(j, list, 0)
  BY <1>1, <1>5, <1>6 DEF Ahead, Range
<1>9. WalkTypes'
  <2>1. Len(page') = 0 /\ Len(fetched') = 0 /\ page' \in Seq(Jobs) /\ fetched' \in Seq(FetchedRecord)
    BY <1>1, <1>2
  <2>2. 0 <= options'.take
    BY <1>3, OptionsAre
  <2>3. there' \subseteq Jobs
    BY <1>1, <1>5, <1>6 DEF Range
  <2> QED  BY <1>1, <1>2, <1>3, <2>1, <2>2, <2>3 DEF WalkTypes
<1>10. Accounted(list)'
  BY <1>1, <1>3, <1>8 DEF Accounted
<1>11. NothingRepeated'
  BY <1>1, <1>2 DEF NothingRepeated
<1> QED  BY <1>7, <1>9, <1>10, <1>11 DEF WalkInv, NothingMissed

\* Without filter and sort all jobs are listed, in the order of the map.
LEMMA AllListed ==
    ASSUME StoreInv, JobsInv, adapter = "memory", NEW query, query.filter = <<>>,
           query.sort = <<>>
    PROVE  Listed(jobs, order, query) = order
<1> DEFINE found == ApplyFilters(ApplySort(Items, query.sort), query.filter)
           list == Listed(jobs, order, query)
<1>1. /\ Items \in Seq(ItemsOfJobs) /\ DOMAIN Items = DOMAIN order /\ Len(Items) = Len(order)
      /\ \A i \in DOMAIN order : Items[i] = Item(order[i], jobs[order[i]])
  BY ItemsAre
<1>2. ApplySort(Items, query.sort) = Items
  <2>1. Len(query.sort) = 0 /\ SortableOn(ItemsOfJobs, query.sort)
    BY DEF SortableOn
  <2> QED  BY <1>1, <2>1, ApplySortShuffles
<1>3. {i \in DOMAIN Items : \A key \in DOMAIN query.filter :
                                Passes(Items[i][key], query.filter[key])} = DOMAIN Items
  BY DOMAIN query.filter = {}
<1>4. found = Remaining(Items, DOMAIN Items)
  BY <1>2, <1>3 DEF ApplyFilters
<1> HIDE DEF found, list
<1>5. found = Items
  BY <1>1, <1>4, AllRemain
<1>6. query.sort \in SortLists
  BY DEF SortLists
<1>7. /\ ListOfJobs(list) /\ Len(list) = Len(order) /\ DOMAIN list = DOMAIN order
      /\ \A n \in DOMAIN order : list[n] = Items[n].id
  BY <1>1, <1>5, <1>6, ListedInMemory DEF found, list
<1>8. \A n \in DOMAIN order : list[n] = order[n]
  BY <1>1, <1>7 DEF Item
<1>9. list \in Seq(Jobs) /\ order \in Seq(Jobs) /\ \A n \in 1..Len(list) : list[n] = order[n]
  BY <1>7, <1>8 DEF ListOfJobs, StoreInv
<1>10. list = order
  BY <1>7, <1>9, SeqEqual
<1> QED  BY <1>10 DEF list

\* A page that was cut out of the list has come back.
LEMMA PageTurns ==
    ASSUME WalkTypes, walk = "paging", NEW list, Len(list) \in Nat, DOMAIN list = 1..Len(list),
           NEW ids \in Seq(Jobs), Window(ids, list, options.skip, options.take),
           Turn(ids), there' = there, Accounted(list)
    PROVE  Accounted(list)'
<1>1. returned \in [Jobs -> Nat] /\ options \in OptionsRecord /\ there \subseteq Jobs
  BY DEF WalkTypes
<1>2. /\ returned' \in [Jobs -> Nat]
      /\ \A j \in Jobs : /\ (\E n \in DOMAIN ids : ids[n] = j) => returned'[j] = returned[j] + 1
                         /\ ~(\E n \in DOMAIN ids : ids[n] = j) => returned'[j] = returned[j]
      /\ options'.skip = options.skip + options.take
      /\ ids = <<>> => walk' = "over"
      /\ ids # <<>> => walk' = "paging"
  BY <1>1, TurnIs
<1>3. PICK skip \in Nat, take \in Nat : skip = options.skip /\ take = options.take /\ take > 0
  BY <1>1, OptionsAre
<1>4. ASSUME NEW j \in Jobs
      PROVE  returned[j] \in Nat /\ (returned[j] > 0 => returned'[j] > 0)
  <2>1. returned[j] \in Nat
    BY <1>1
  <2>2. returned'[j] = returned[j] + 1 \/ returned'[j] = returned[j]
    BY <1>2
  <2> QED  BY <2>1, <2>2
<1>5. \A j \in there : returned[j] > 0 \/ Ahead(j, list, skip)
  BY <1>3 DEF Accounted
<1>6. ASSUME NEW j \in there
      PROVE  returned'[j] > 0 \/ Ahead(j, list, skip + take)
  <2>1. CASE returned[j] > 0
    BY <1>1, <1>4, <2>1
  <2>2. CASE Ahead(j, list, skip)
    <3>1. PICK n \in DOMAIN list : n > skip /\ list[n] = j
      BY <2>2 DEF Ahead
    <3>2. n \in Nat
      BY <3>1
    <3>3. CASE n > skip + take
      BY <3>1, <3>3 DEF Ahead
    <3>4. CASE n <= skip + take
      <4>1. n - skip \in DOMAIN ids
        BY <1>3, <3>1, <3>2, <3>4 DEF Window
      <4>2. ids[n - skip] = list[skip + (n - skip)]
        BY <1>3, <4>1 DEF Window
      <4>3. skip + (n - skip) = n
        BY <3>2
      <4>4. \E m \in DOMAIN ids : ids[m] = j
        BY <3>1, <4>1, <4>2, <4>3
      <4>5. returned'[j] = returned[j] + 1
        BY <1>1, <1>2, <4>4
      <4> QED  BY <1>1, <1>4, <4>5
    <3> QED  BY <3>2, <3>3, <3>4
  <2> QED  BY <1>5, <2>1, <2>2
<1>7. ASSUME ids = <<>>, NEW j
      PROVE  ~Ahead(j, list, skip + take)
  <2>1. ASSUME NEW n \in DOMAIN list, n > skip + take PROVE FALSE
    <3>1. skip + 1 \in DOMAIN list /\ skip < skip + 1 /\ skip + 1 <= skip + take
      BY <1>3, <2>1
    <3>2. (skip + 1) - skip \in DOMAIN ids
      BY <1>3, <3>1 DEF Window
    <3> QED  BY <1>7, <3>2
  <2> QED  BY <2>1 DEF Ahead
<1> QED  BY <1>2, <1>3, <1>6, <1>7 DEF Accounted

LEMMA PageFromMemoryWalk ==
    ASSUME ReadsInv, WalkInv, PageFromMemory
    PROVE  WalkInv'
<1>1. /\ walk = "paging" /\ adapter = "memory"
      /\ UNCHANGED <<adapter, urgent, jobs, order, putBack, fetched, there, onlyGrew>>
  BY DEF PageFromMemory, storeVars
<1>2. /\ StoreInv /\ JobsInv /\ WalkTypes /\ options \in OptionsRecord
      /\ returned \in [Jobs -> Nat]
  BY <1>1 DEF ReadsInv, WalkInv, WalkTypes
<1>3. PICK list : list = Listed(jobs, order, options)
  OBVIOUS
<1>4. page' \in Seq(Jobs) /\ Window(page', list, options.skip, options.take) /\ Turn(page')
  BY <1>2, <1>3, PageFromMemoryCuts
<1>5. /\ returned' \in [Jobs -> Nat]
      /\ \A j \in Jobs : /\ (\E n \in DOMAIN page' : page'[n] = j) => returned'[j] = returned[j] + 1
                         /\ ~(\E n \in DOMAIN page' : page'[n] = j) => returned'[j] = returned[j]
      /\ options' \in OptionsRecord
      /\ options'.filter = options.filter /\ options'.sort = options.sort
      /\ options'.take = options.take /\ options'.skip = options.skip + options.take
      /\ walk' \in {"over", "paging"}
  BY <1>2, <1>4, TurnIs
<1>6. ListOfJobs(list)
  BY <1>2, <1>3, ListedNow
<1>7. Listed(jobs, order, options)' = list
  BY <1>1, <1>3, <1>5, SameList
<1>8. WalkTypes'
  <2>1. Len(page') <= options'.take
    BY <1>4, <1>5 DEF Window
  <2>2. fetched' \in Seq(FetchedRecord) /\ Len(fetched') <= options'.take
    BY <1>1, <1>2, <1>5 DEF WalkTypes
  <2>3. adapter' # "bullmq"
    BY <1>1
  <2> QED  BY <1>1, <1>2, <1>4, <1>5, <2>1, <2>2, <2>3 DEF WalkTypes
<1>9. NothingMissed'
  <2>1. ASSUME onlyGrew' PROVE Accounted(list)'
    <3>1. Accounted(list)
      BY <1>1, <1>3, <2>1 DEF WalkInv, NothingMissed
    <3> QED  BY <1>1, <1>2, <1>4, <1>6, <3>1, PageTurns DEF ListOfJobs
  <2> QED  BY <1>7, <2>1 DEF NothingMissed
<1>10. NothingRepeated'
  <2> SUFFICES ASSUME options.filter = <<>>, options.sort = <<>>, NEW j \in Jobs \ putBack
               PROVE  /\ returned'[j] <= 1
                      /\ jobs[j].state = "new" => returned'[j] = 0
                      /\ Ahead(j, order, options'.skip) => returned'[j] = 0
    BY <1>1, <1>5 DEF NothingRepeated, Ahead
  <2>1. /\ returned[j] <= 1 /\ returned[j] \in Nat
        /\ jobs[j].state = "new" => returned[j] = 0
        /\ Ahead(j, order, options.skip) => returned[j] = 0
    BY <1>1, <1>2 DEF WalkInv, NothingRepeated
  <2>2. list = order
    BY <1>1, <1>2, <1>3, AllListed
  <2>3. PICK skip \in Nat, take \in Nat : skip = options.skip /\ take = options.take
    BY <1>2, OptionsAre
  <2>4. DOMAIN order = 1..Len(order) /\ Len(order) \in Nat /\ IsInjective(order)
    BY <1>6, <2>2 DEF ListOfJobs
  <2>5. CASE \E n \in DOMAIN page' : page'[n] = j
    <3>1. PICK n \in DOMAIN page' : page'[n] = j
      BY <2>5
    <3>2. /\ skip + n \in DOMAIN order /\ order[skip + n] = j /\ n \in Nat /\ n > 0 /\ n <= take
      BY <1>4, <2>2, <2>3, <3>1 DEF Window
    <3>3. skip + n > skip /\ ~(skip + n > skip + take)
      BY <2>3, <3>2
    <3>4. Ahead(j, order, skip)
      BY <3>2, <3>3 DEF Ahead
    <3>5. ~Ahead(j, order, skip + take)
      BY <2>4, <3>2, <3>3 DEF Ahead, IsInjective
    <3>6. jobs[j].state # "new"
      BY <1>6, <2>2, <3>2 DEF ListOfJobs, IsStored, NotStored
    <3> QED  BY <1>5, <2>1, <2>3, <2>5, <3>4, <3>5, <3>6
  <2>6. CASE ~(\E n \in DOMAIN page' : page'[n] = j)
    <3>1. returned'[j] = returned[j]
      BY <1>5, <2>6
    <3>2. Ahead(j, order, skip + take) => Ahead(j, order, skip)
      BY <2>3, <2>4 DEF Ahead
    <3> QED  BY <1>5, <2>1, <2>3, <3>1, <3>2
  <2> QED  BY <2>5, <2>6
<1> QED  BY <1>8, <1>9, <1>10 DEF WalkInv

LEMMA ScriptWalk ==
    ASSUME ReadsInv, WalkInv, Script
    PROVE  WalkInv'
<1>1. /\ walk = "paging" /\ adapter = "bullmq" /\ fetched' = <<>>
      /\ UNCHANGED <<adapter, urgent, jobs, order, putBack, there, onlyGrew>>
  BY DEF Script, storeVars
<1>2. /\ StoreInv /\ JobsInv /\ WalkTypes /\ options \in OptionsRecord
      /\ returned \in [Jobs -> Nat]
      /\ options.filter \in CommonFilters /\ options.sort = <<>>
  BY <1>1 DEF ReadsInv, WalkInv, WalkTypes
<1>3. PICK list : list = Listed(jobs, order, options)
  OBVIOUS
<1>4. /\ page' \in Seq(Jobs) /\ page' = CallCustomScript.jobIds
      /\ Window(page', list, options.skip, options.take)
  BY <1>2, <1>3, ScriptCuts
<1>5. ListOfJobs(list)
  BY <1>2, <1>3, ListedNow
<1>6. fetched' \in Seq(FetchedRecord) /\ Len(fetched') = 0 /\ Len(page') <= options.take
      /\ Len(page') \in Nat /\ 0 <= options.take /\ options.take \in Nat
  <2>1. fetched' \in Seq(FetchedRecord) /\ Len(fetched') = 0
    BY <1>1
  <2>2. options.take \in Nat /\ 0 <= options.take
    BY <1>2, OptionsAre
  <2> QED  BY <1>4, <2>1, <2>2 DEF Window
<1>7. NothingRepeated'
  BY <1>1 DEF NothingRepeated
<1>8. CASE page' = <<>>
  <2>1. Turn(page')
    BY <1>4, <1>8 DEF Script
  <2>2. /\ returned' \in [Jobs -> Nat]
        /\ options' \in OptionsRecord
        /\ options'.filter = options.filter /\ options'.sort = options.sort
        /\ options'.take = options.take /\ walk' = "over"
    BY <1>2, <1>4, <1>8, <2>1, TurnIs
  <2>3. WalkTypes'
    BY <1>1, <1>2, <1>4, <1>6, <2>2 DEF WalkTypes
  <2>4. Listed(jobs, order, options)' = list
    BY <1>1, <1>3, <2>2, SameList
  <2>5. ASSUME onlyGrew' PROVE Accounted(list)'
    <3>1. Accounted(list)
      BY <1>1, <1>3, <2>5 DEF WalkInv, NothingMissed
    <3> QED  BY <1>1, <1>2, <1>4, <1>5, <2>1, <3>1, PageTurns DEF ListOfJobs
  <2> QED  BY <1>7, <2>3, <2>4, <2>5 DEF WalkInv, NothingMissed
<1>9. CASE page' # <<>>
  <2>1. walk' = "fetching" /\ UNCHANGED <<returned, options>>
    BY <1>4, <1>9 DEF Script
  <2>2. Len(page') + Len(fetched') <= options.take
    BY <1>6
  <2>3. WalkTypes'
    BY <1>1, <1>2, <1>4, <1>6, <1>9, <2>1, <2>2 DEF WalkTypes
  <2>4. Listed(jobs, order, options)' = list
    BY <1>1, <1>3, <2>1, SameList
  <2>5. ASSUME onlyGrew' PROVE Accounted(list)'
    <3>1. PICK skip \in Nat, take \in Nat : skip = options.skip /\ take = options.take
      BY <1>2, OptionsAre
    <3>2. \A j \in there : returned[j] > 0 \/ Ahead(j, list, skip)
      BY <1>1, <1>3, <2>5, <3>1 DEF WalkInv, NothingMissed, Accounted
    <3>3. Len(list) \in Nat /\ DOMAIN list = 1..Len(list)
      BY <1>5 DEF ListOfJobs
    <3>4. ASSUME NEW j \in there, Ahead(j, list, skip)
          PROVE  Held(j)' \/ Ahead(j, list, skip + take)
      <4>1. PICK n \in DOMAIN list : n > skip /\ list[n] = j
        BY <3>4 DEF Ahead
      <4>2. n \in Nat /\ skip + (n - skip) = n
        BY <3>3, <4>1
      <4>3. CASE n > skip + take
        BY <4>1, <4>3 DEF Ahead
      <4>4. CASE n <= skip + take
        <5>1. n - skip \in DOMAIN page'
          BY <1>4, <3>1, <4>1, <4>4 DEF Window
        <5>2. page'[n - skip] = list[skip + (n - skip)]
          BY <1>4, <3>1, <5>1 DEF Window
        <5> QED  BY <4>1, <4>2, <5>1, <5>2 DEF Held
      <4> QED  BY <4>2, <4>3, <4>4
    <3>5. ASSUME NEW n \in DOMAIN page' PROVE Ahead(page'[n], list, 0)
      <4>1. skip + n \in DOMAIN list /\ page'[n] = list[skip + n]
        BY <1>4, <3>1 DEF Window
      <4>2. skip + n > 0
        BY <3>3, <4>1
      <4> QED  BY <4>1, <4>2 DEF Ahead
    <3> QED  BY <1>1, <2>1, <3>1, <3>2, <3>4, <3>5 DEF Accounted
  <2> QED  BY <1>7, <2>3, <2>4, <2>5 DEF WalkInv, NothingMissed
<1> QED  BY <1>8, <1>9

LEMMA FindManyThrowsWalk ==
    ASSUME ReadsInv, WalkInv, FindManyThrows
    PROVE  WalkInv'
<1>1. /\ walk # "idle" /\ walk' = "rejected" /\ page' = <<>> /\ fetched' = <<>>
      /\ adapter = "bullmq"
      /\ UNCHANGED <<adapter, options, returned, there, onlyGrew>>
  BY DEF FindManyThrows, storeVars
<1>2. /\ page' \in Seq(Jobs) /\ fetched' \in Seq(FetchedRecord)
      /\ Len(page') = 0 /\ Len(fetched') = 0
  BY <1>1
<1>3. WalkTypes /\ options \in OptionsRecord
  BY <1>1 DEF WalkInv, WalkTypes
<1>4. 0 <= options.take
  BY <1>3, OptionsAre
<1>5. WalkTypes'
  BY <1>1, <1>2, <1>3, <1>4 DEF WalkTypes
<1>6. NothingMissed'
  BY <1>1 DEF NothingMissed, Accounted
<1>7. NothingRepeated'
  BY <1>1 DEF NothingRepeated
<1> QED  BY <1>5, <1>6, <1>7 DEF WalkInv

\* While a page is fetched or asked about, no walk in memory goes on.
LEMMA FromIdWalk ==
    ASSUME ReadsInv, WalkInv, FromId
    PROVE  WalkInv'
<1> DEFINE id == Head(page)
           kept == IF IsStored(id)
                   THEN Append(fetched, [id |-> id, finished |-> jobs[id].state \in Final])
                   ELSE fetched
<1>1. /\ walk = "fetching" /\ page' = Tail(page) /\ fetched' = kept
      /\ UNCHANGED <<adapter, urgent, jobs, order, putBack, there, onlyGrew>>
      /\ Tail(page) # <<>> => UNCHANGED <<walk, returned, options>>
      /\ Tail(page) = <<>> /\ kept = <<>> => Turn(kept)
      /\ Tail(page) = <<>> /\ kept # <<>> => walk' = "asking" /\ UNCHANGED <<returned, options>>
  BY DEF FromId, storeVars
<1>2. /\ StoreInv /\ JobsInv /\ WalkTypes /\ options \in OptionsRecord
      /\ returned \in [Jobs -> Nat]
      /\ page \in Seq(Jobs) /\ page # <<>> /\ fetched \in Seq(FetchedRecord)
      /\ Len(page) + Len(fetched) <= options.take
      /\ adapter = "bullmq" /\ options.filter \in CommonFilters /\ options.sort = <<>>
  BY <1>1 DEF ReadsInv, WalkInv, WalkTypes
<1>3. /\ id \in Jobs /\ Tail(page) \in Seq(Jobs) /\ Len(Tail(page)) = Len(page) - 1
      /\ Len(page) \in Nat /\ Len(page) > 0 /\ DOMAIN page = 1..Len(page) /\ id = page[1]
      /\ DOMAIN Tail(page) = 1..Len(Tail(page)) /\ Len(Tail(page)) \in Nat
      /\ \A i \in 1..Len(Tail(page)) : Tail(page)[i] = page[i + 1]
  BY <1>2, HeadTailProperties, LenProperties
<1>4. /\ kept \in Seq(FetchedRecord) /\ Len(fetched) \in Nat /\ Len(kept) \in Nat
      /\ Len(kept) <= Len(fetched) + 1
      /\ \A n \in DOMAIN fetched : n \in DOMAIN kept /\ kept[n] = fetched[n]
      /\ IsStored(id) => kept # <<>> /\ \E n \in DOMAIN kept : kept[n].id = id
  <2>1. Len(fetched) \in Nat /\ DOMAIN fetched = 1..Len(fetched)
    BY <1>2, LenProperties
  <2>2. CASE ~IsStored(id)
    BY <1>2, <2>1, <2>2
  <2>3. CASE IsStored(id)
    <3>1. PICK entry \in FetchedRecord :
              entry = [id |-> id, finished |-> jobs[id].state \in Final]
      <4>1. (jobs[id].state \in Final) \in BOOLEAN
        OBVIOUS
      <4> QED  BY <1>3, <4>1, Zenon DEF FetchedRecord
    <3>2. kept = Append(fetched, entry) /\ entry.id = id
      BY <2>3, <3>1
    <3> HIDE DEF id, kept
    <3>3. PICK longer : longer = Append(fetched, entry)
      OBVIOUS
    <3>4. /\ longer \in Seq(FetchedRecord)
          /\ DOMAIN longer = 1..(Len(fetched) + 1)
          /\ \A n \in DOMAIN fetched : n \in DOMAIN longer /\ longer[n] = fetched[n]
          /\ Len(fetched) + 1 \in DOMAIN longer /\ longer[Len(fetched) + 1] = entry
      BY <1>2, <3>3, AppendIs
    <3>5. Len(longer) \in Nat /\ DOMAIN longer = 1..Len(longer)
      BY <3>4, LenProperties
    <3>6. Len(longer) = Len(fetched) + 1
      BY <2>1, <3>4, <3>5
    <3>7. longer # <<>>
      BY <2>1, <3>6
    <3> QED  BY <2>1, <3>2, <3>3, <3>4, <3>5, <3>6, <3>7
  <2> QED  BY <2>2, <2>3
<1> HIDE DEF id, kept
<1>5. options.take \in Nat
  BY <1>2, OptionsAre
<1>6. /\ Len(page') + Len(fetched') <= options.take /\ Len(page') <= options.take
      /\ Len(fetched') <= options.take
  <2>1. /\ Len(page') = Len(page) - 1 /\ Len(page') \in Nat
        /\ Len(fetched') <= Len(fetched) + 1 /\ Len(fetched') \in Nat
    BY <1>1, <1>3, <1>4
  <2>2. /\ Len(page) + Len(fetched) <= options.take
        /\ Len(page) \in Nat /\ Len(fetched) \in Nat
    BY <1>2, <1>3, <1>4
  <2> QED  BY <1>5, <2>1, <2>2
<1>7. NothingRepeated'
  BY <1>1, <1>2 DEF NothingRepeated
<1>8. PICK list : list = Listed(jobs, order, options)
  OBVIOUS
<1>9. ListOfJobs(list)
  BY <1>2, <1>8, ListedNow
<1>10. ASSUME onlyGrew PROVE Accounted(list) /\ IsStored(id)
  <2>1. Accounted(list)
    BY <1>8, <1>10 DEF WalkInv, NothingMissed
  <2>2. Ahead(id, list, 0)
    BY <1>1, <1>3, <2>1 DEF Accounted
  <2> QED  BY <1>9, <2>1, <2>2 DEF Ahead, ListOfJobs
<1>11. CASE Tail(page) = <<>> /\ kept = <<>>
  <2>1. Turn(kept) /\ kept \in Seq(Jobs)
    BY <1>1, <1>11
  <2>2. /\ returned' \in [Jobs -> Nat] /\ options' \in OptionsRecord
        /\ options'.filter = options.filter /\ options'.sort = options.sort
        /\ options'.take = options.take /\ walk' = "over"
    BY <1>2, <1>11, <2>1, TurnIs
  <2>3. WalkTypes'
    BY <1>1, <1>2, <1>3, <1>4, <1>6, <2>2 DEF WalkTypes
  <2>4. ~onlyGrew'
    BY <1>1, <1>4, <1>10, <1>11
  <2> QED  BY <1>7, <2>3, <2>4 DEF WalkInv, NothingMissed
<1>12. CASE ~(Tail(page) = <<>> /\ kept = <<>>)
  <2>1. /\ UNCHANGED <<returned, options>>
        /\ Tail(page) # <<>> => walk' = "fetching"
        /\ Tail(page) = <<>> => walk' = "asking" /\ kept # <<>>
    BY <1>1, <1>12
  <2>2. WalkTypes'
    BY <1>1, <1>2, <1>3, <1>4, <1>6, <2>1 DEF WalkTypes
  <2>3. Listed(jobs, order, options)' = list
    BY <1>1, <1>8, <2>1, SameList
  <2>4. ASSUME onlyGrew' PROVE Accounted(list)'
    <3>1. Accounted(list) /\ IsStored(id)
      BY <1>1, <1>10, <2>4
    <3>2. ASSUME NEW j, Held(j) PROVE Held(j)'
      <4>1. CASE \E n \in DOMAIN page : page[n] = j
        <5>1. PICK n \in DOMAIN page : page[n] = j
          BY <4>1
        <5>2. CASE n = 1
          BY <1>1, <1>3, <1>4, <3>1, <5>1, <5>2 DEF Held
        <5>3. CASE n # 1
          <6>1. n - 1 \in DOMAIN Tail(page) /\ (n - 1) + 1 = n
            BY <1>3, <5>3
          <6>2. Tail(page)[n - 1] = page[(n - 1) + 1]
            BY <1>3, <6>1
          <6> QED  BY <1>1, <5>1, <6>1, <6>2 DEF Held
        <5> QED  BY <5>2, <5>3
      <4>2. CASE \E n \in DOMAIN fetched : fetched[n].id = j
        BY <1>1, <1>4, <4>2 DEF Held
      <4> QED  BY <3>2, <4>1, <4>2 DEF Held
    <3>3. ASSUME NEW n \in DOMAIN Tail(page) PROVE Ahead(Tail(page)[n], list, 0)
      <4>1. n + 1 \in DOMAIN page /\ Tail(page)[n] = page[n + 1]
        BY <1>3
      <4> QED  BY <1>1, <3>1, <4>1 DEF Accounted
    <3> QED  BY <1>1, <2>1, <3>1, <3>2, <3>3 DEF Accounted
  <2> QED  BY <1>7, <2>2, <2>3, <2>4 DEF WalkInv, NothingMissed
<1> QED  BY <1>11, <1>12

LEMMA CreateJoborJobWalk ==
    ASSUME ReadsInv, WalkInv, CreateJoborJob
    PROVE  WalkInv'
<1> DEFINE item == Head(fetched)
           rest == Tail(fetched)
           ids == Append(page, item.id)
           lost == item.finished /\ ~IsStored(item.id)
<1>1. /\ walk = "asking" /\ fetched' = rest
      /\ UNCHANGED <<adapter, urgent, jobs, order, putBack, there, onlyGrew>>
      /\ lost => walk' = "rejected" /\ page' = <<>> /\ UNCHANGED <<returned, options>>
      /\ ~lost /\ rest = <<>> => page' = <<>> /\ Turn(ids)
      /\ ~lost /\ rest # <<>> => page' = ids /\ UNCHANGED <<walk, returned, options>>
  BY DEF CreateJoborJob, storeVars
<1>2. /\ StoreInv /\ JobsInv /\ WalkTypes /\ options \in OptionsRecord
      /\ returned \in [Jobs -> Nat]
      /\ page \in Seq(Jobs) /\ fetched # <<>> /\ fetched \in Seq(FetchedRecord)
      /\ Len(page) + Len(fetched) <= options.take
      /\ adapter = "bullmq" /\ options.filter \in CommonFilters /\ options.sort = <<>>
      /\ there \subseteq Jobs
  BY <1>1 DEF ReadsInv, WalkInv, WalkTypes
<1>3. /\ item \in FetchedRecord /\ rest \in Seq(FetchedRecord)
      /\ Len(rest) = Len(fetched) - 1
      /\ Len(fetched) \in Nat /\ Len(fetched) > 0 /\ DOMAIN fetched = 1..Len(fetched)
      /\ item = fetched[1] /\ DOMAIN rest = 1..Len(rest) /\ Len(rest) \in Nat
      /\ \A i \in 1..Len(rest) : rest[i] = fetched[i + 1]
  BY <1>2, HeadTailProperties, LenProperties
<1>4. item.id \in Jobs
  BY <1>3 DEF FetchedRecord
<1>5. /\ ids \in Seq(Jobs) /\ Len(ids) = Len(page) + 1 /\ Len(page) \in Nat
      /\ DOMAIN page = 1..Len(page) /\ DOMAIN ids = 1..(Len(page) + 1)
      /\ \A n \in DOMAIN page : n \in DOMAIN ids /\ ids[n] = page[n]
      /\ Len(page) + 1 \in DOMAIN ids /\ ids[Len(page) + 1] = item.id
  <2>1. Len(page) \in Nat /\ DOMAIN page = 1..Len(page)
    BY <1>2, LenProperties
  <2> QED  BY <1>2, <1>4, <2>1, AppendIs
<1> HIDE DEF item, rest, ids, lost
<1>6. options.take \in Nat /\ options.take > 0
  BY <1>2, OptionsAre
<1>7. <<>> \in Seq(Jobs) /\ Len(<<>>) = 0
  OBVIOUS
<1>8. /\ Len(ids) + Len(rest) <= options.take /\ Len(ids) <= options.take
      /\ Len(rest) <= options.take
  BY <1>2, <1>3, <1>5, <1>6
<1>9. NothingRepeated'
  BY <1>1, <1>2 DEF NothingRepeated
<1>10. PICK list : list = Listed(jobs, order, options)
  OBVIOUS
<1>11. \A j : Held(j) => \/ \E n \in DOMAIN ids : ids[n] = j
                         \/ \E n \in DOMAIN rest : rest[n].id = j
  <2> SUFFICES ASSUME NEW j, NEW n \in DOMAIN fetched, fetched[n].id = j
               PROVE  \/ \E m \in DOMAIN ids : ids[m] = j
                      \/ \E m \in DOMAIN rest : rest[m].id = j
    BY <1>5 DEF Held
  <2>1. CASE n = 1
    BY <1>3, <1>5, <2>1
  <2>2. CASE n # 1
    <3>1. n - 1 \in DOMAIN rest /\ (n - 1) + 1 = n
      BY <1>3, <2>2
    <3>2. rest[n - 1] = fetched[(n - 1) + 1]
      BY <1>3, <3>1
    <3> QED  BY <3>1, <3>2
  <2> QED  BY <2>1, <2>2
<1>12. CASE lost
  <2>1. WalkTypes'
    BY <1>1, <1>2, <1>3, <1>6, <1>7, <1>8, <1>12 DEF WalkTypes
  <2>2. NothingMissed'
    BY <1>1, <1>12 DEF NothingMissed, Accounted
  <2> QED  BY <1>9, <2>1, <2>2 DEF WalkInv
<1>13. CASE ~lost /\ rest = <<>>
  <2>1. ids # <<>>
    BY <1>5
  <2>2. /\ returned' \in [Jobs -> Nat]
        /\ \A j \in Jobs : /\ (\E n \in DOMAIN ids : ids[n] = j) => returned'[j] = returned[j] + 1
                           /\ ~(\E n \in DOMAIN ids : ids[n] = j) => returned'[j] = returned[j]
        /\ options' \in OptionsRecord
        /\ options'.filter = options.filter /\ options'.sort = options.sort
        /\ options'.take = options.take /\ options'.skip = options.skip + options.take
        /\ walk' = "paging"
    BY <1>1, <1>2, <1>5, <1>13, <2>1, TurnIs
  <2>3. WalkTypes'
    BY <1>1, <1>2, <1>3, <1>6, <1>7, <1>8, <1>13, <2>2 DEF WalkTypes
  <2>4. Listed(jobs, order, options)' = list
    BY <1>1, <1>10, <2>2, SameList
  <2>5. ASSUME onlyGrew' PROVE Accounted(list)'
    <3>1. \A j \in there : \/ returned[j] > 0 \/ Held(j)
                           \/ Ahead(j, list, options.skip + options.take)
      BY <1>1, <1>10, <2>5 DEF WalkInv, NothingMissed, Accounted
    <3>2. \A j \in Jobs : returned[j] \in Nat
      BY <1>2
    <3>3. \A n : n \notin DOMAIN rest
      BY <1>13
    <3>4. ASSUME NEW j \in there
          PROVE  returned'[j] > 0 \/ Ahead(j, list, options'.skip)
      <4>1. j \in Jobs
        BY <1>2
      <4>2. Held(j) => \E n \in DOMAIN ids : ids[n] = j
        BY <1>11, <3>3
      <4> QED  BY <2>2, <3>1, <3>2, <4>1, <4>2
    <3> QED  BY <1>1, <2>2, <3>4 DEF Accounted
  <2> QED  BY <1>9, <2>3, <2>4, <2>5 DEF WalkInv, NothingMissed
<1>14. CASE ~lost /\ rest # <<>>
  <2>1. page' = ids /\ UNCHANGED <<walk, returned, options>>
    BY <1>1, <1>14
  <2>2. WalkTypes'
    BY <1>1, <1>2, <1>3, <1>5, <1>8, <1>14, <2>1 DEF WalkTypes
  <2>3. Listed(jobs, order, options)' = list
    BY <1>1, <1>10, <2>1, SameList
  <2>4. ASSUME onlyGrew' PROVE Accounted(list)'
    <3>1. \A j \in there : \/ returned[j] > 0 \/ Held(j)
                           \/ Ahead(j, list, options.skip + options.take)
      BY <1>1, <1>10, <2>4 DEF WalkInv, NothingMissed, Accounted
    <3>2. \A j : Held(j) => Held(j)'
      BY <1>1, <1>11, <2>1 DEF Held
    <3> QED  BY <1>1, <2>1, <3>1, <3>2 DEF Accounted
  <2> QED  BY <1>9, <2>2, <2>3, <2>4 DEF WalkInv, NothingMissed
<1> QED  BY <1>12, <1>13, <1>14

LEMMA NextWalk ==
    ASSUME ReadsInv, ReadsInv', WalkInv, [Next]_vars
    PROVE  WalkInv'
<1>1. CASE \E j \in Jobs : StoreNext(j)
  BY <1>1, StoreNextWalk
<1>2. CASE StreamNext \/ UNCHANGED vars
  BY <1>2, StreamNextWalk
<1>3. CASE WalkNext
  <2>1. CASE WalkBegins
    BY <2>1, WalkBeginsWalk
  <2>2. CASE PageFromMemory
    BY <2>2, PageFromMemoryWalk
  <2>3. CASE Script
    BY <2>3, ScriptWalk
  <2>4. CASE FromId
    BY <2>4, FromIdWalk
  <2>5. CASE CreateJoborJob
    BY <2>5, CreateJoborJobWalk
  <2>6. CASE FindManyThrows
    BY <2>6, FindManyThrowsWalk
  <2> QED  BY <1>3, <2>1, <2>2, <2>3, <2>4, <2>5, <2>6 DEF WalkNext
<1> QED  BY <1>1, <1>2, <1>3 DEF Next

LEMMA WalkInvariant == Spec => [](ReadsInv /\ WalkInv)
<1>1. ReadsInv /\ ReadsInv' /\ WalkInv /\ [Next]_vars => WalkInv'
  BY NextWalk
<1> QED  BY ReadsInvariant, WalkInit, <1>1, PTL DEF Spec

\* The values of the variables: one call of findOne() at most is listened to
\* (switchMap() in updates()), and a page is not longer than was asked for.
THEOREM TypeCorrect == Spec => []TypeOK
<1>1. ReadsInv /\ WalkInv => TypeOK
  <2> SUFFICES ASSUME ReadsInv, WalkInv
               PROVE  TypeOK
    OBVIOUS
  <2>1. pending \subseteq RequestRecord /\ Cardinality(pending) <= 1
    <3>1. pending = {} \/ \E r \in RequestRecord : pending = {r}
      BY DEF ReadsInv, StreamTypes
    <3>2. CASE pending = {}
      BY <3>2, FS_EmptySet
    <3>3. CASE \E r \in RequestRecord : pending = {r}
      BY <3>3, FS_Singleton
    <3> QED  BY <3>1, <3>2, <3>3
  <2> QED  BY <2>1 DEF TypeOK, ReadsInv, StoreInv, StreamTypes, WalkInv, WalkTypes
<1> QED  BY WalkInvariant, <1>1, PTL

\* A walk misses nothing: the pages of findMany() together have every job that was
\* listed when the walk began, if the list only grew.
THEOREM WalkMissesNothingCorrect == Spec => []WalkMissesNothing
<1>1. WalkInv => WalkMissesNothing
  BY DEF WalkInv, NothingMissed, Accounted, WalkMissesNothing
<1> QED  BY WalkInvariant, <1>1, PTL

\* A walk through all jobs in memory returns none of them twice, although jobs
\* are added and removed.
THEOREM WalkRepeatsNothingCorrect == Spec => []WalkRepeatsNothing
<1>1. WalkInv => WalkRepeatsNothing
  BY DEF WalkInv, NothingRepeated, WalkRepeatsNothing
<1> QED  BY WalkInvariant, <1>1, PTL

-----------------------------------------------------------------------------
(* The pages.                                                              *)

LEMMA PlacesCount ==
    ASSUME NEW s, Len(s) \in Nat, DOMAIN s = 1..Len(s), IsInjective(s),
           NEW m \in 0..Len(s)
    PROVE  IsFiniteSet({s[q] : q \in 1..m}) /\ Cardinality({s[q] : q \in 1..m}) = m
<1> DEFINE T == {s[q] : q \in 1..m}
           f == [q \in 1..m |-> s[q]]
<1>1. m \in Nat /\ \A q \in 1..m : q \in DOMAIN s
  OBVIOUS
<1>2. f \in [1..m -> T] /\ \A q \in 1..m : f[q] = s[q]
  OBVIOUS
<1>3. \A t \in T : \E q \in 1..m : f[q] = t
  OBVIOUS
<1>4. \A a, b \in 1..m : f[a] = f[b] => a = b
  BY <1>1, <1>2 DEF IsInjective
<1> HIDE DEF T, f
<1>5. f \in Surjection(1..m, T) /\ f \in Injection(1..m, T)
  <2>1. f \in Surjection(1..m, T)
    BY <1>2, <1>3, Fun_IsSurj
  <2>2. f \in Injection(1..m, T)
    BY <1>2, <1>4, Fun_IsInj
  <2> QED  BY <2>1, <2>2
<1>6. IsFiniteSet(1..m) /\ Cardinality(1..m) = m
  <2>1. IsFiniteSet(1..m) /\ Cardinality(1..m) = IF 1 > m THEN 0 ELSE m - 1 + 1
    BY <1>1, FS_Interval
  <2> QED  BY <1>1, <2>1
<1>7. IsFiniteSet(T) /\ Cardinality(T) = Cardinality(1..m)
  BY <1>5, <1>6, FS_Surjection
<1> QED  BY <1>6, <1>7 DEF T

\* The elements that a sort property puts before job, those that are equal to it
\* included or not.
Nearer(S, prop, job, strictly) ==
    {other \in S :
        LET a == SortValue(other, prop.key)
            b == SortValue(job, prop.key)
        IN  \/ ~strictly /\ a = b
            \/ IF prop.order = "ASC" THEN a < b ELSE a > b}

LEMMA NearerInOrder ==
    ASSUME NEW found, Len(found) \in Nat, DOMAIN found = 1..Len(found), IsInjective(found),
           NEW prop, InOrder(found, prop),
           \A n \in DOMAIN found : SortValue(found[n], prop.key) \in Int,
           NEW p \in DOMAIN found
    PROVE  /\ Cardinality(Nearer(Range(found), prop, found[p], TRUE)) < p
           /\ p <= Cardinality(Nearer(Range(found), prop, found[p], FALSE))
<1> DEFINE S == Range(found)
           value(n) == SortValue(found[n], prop.key)
           first(m) == {found[q] : q \in 1..m}
           strict == Nearer(S, prop, found[p], TRUE)
           loose == Nearer(S, prop, found[p], FALSE)
<1>1. p \in Nat /\ p > 0 /\ p - 1 \in 0..Len(found) /\ p \in 0..Len(found) /\ Len(found) \in 0..Len(found)
  OBVIOUS
<1>2. \A n \in DOMAIN found : n \in Nat /\ value(n) \in Int
  OBVIOUS
<1>3. \A i, k \in DOMAIN found : i < k =>
          IF prop.order = "ASC" THEN value(i) <= value(k) ELSE value(i) >= value(k)
  BY DEF InOrder
<1>4. /\ \A n \in DOMAIN found : found[n] \in strict <=>
                IF prop.order = "ASC" THEN value(n) < value(p) ELSE value(n) > value(p)
      /\ \A n \in DOMAIN found : found[n] \in loose <=>
                \/ value(n) = value(p)
                \/ IF prop.order = "ASC" THEN value(n) < value(p) ELSE value(n) > value(p)
  BY DEF Nearer, Range
<1>5. strict \subseteq S /\ loose \subseteq S /\ S = first(Len(found))
  BY DEF Nearer, Range
<1> HIDE DEF value, strict, loose, S
<1>6. strict \subseteq first(p - 1)
  <2> SUFFICES ASSUME NEW x \in strict
               PROVE  x \in first(p - 1)
    OBVIOUS
  <2>1. PICK n \in DOMAIN found : x = found[n]
    BY <1>5
  <2>2. ~(p <= n)
    <3>1. IF prop.order = "ASC" THEN value(n) < value(p) ELSE value(n) > value(p)
      BY <1>4, <2>1
    <3>2. value(n) \in Int /\ value(p) \in Int /\ n \in Nat
      BY <1>2
    <3>3. n # p
      BY <3>1, <3>2
    <3>4. ~(p < n)
      BY <1>3, <3>1, <3>2
    <3> QED  BY <1>1, <3>2, <3>3, <3>4
  <2>3. n \in 1..(p - 1)
    BY <1>1, <1>2, <2>2
  <2> QED  BY <2>1, <2>3
<1>7. first(p) \subseteq loose
  <2> SUFFICES ASSUME NEW n \in 1..p
               PROVE  found[n] \in loose
    OBVIOUS
  <2>1. n \in DOMAIN found /\ (n < p \/ n = p)
    BY <1>1
  <2>2. CASE n = p
    BY <1>4, <2>2
  <2>3. CASE n < p
    <3>1. IF prop.order = "ASC" THEN value(n) <= value(p) ELSE value(n) >= value(p)
      BY <1>3, <2>1, <2>3
    <3>2. value(n) \in Int /\ value(p) \in Int
      BY <1>2, <2>1
    <3>3. \/ value(n) = value(p)
          \/ IF prop.order = "ASC" THEN value(n) < value(p) ELSE value(n) > value(p)
      BY <3>1, <3>2
    <3> QED  BY <1>4, <2>1, <3>3
  <2> QED  BY <2>1, <2>2, <2>3
<1>8. \A m \in 0..Len(found) : IsFiniteSet(first(m)) /\ Cardinality(first(m)) = m
  BY PlacesCount
<1> HIDE DEF first
<1>9. Cardinality(strict) <= p - 1 /\ Cardinality(strict) \in Nat
  BY <1>1, <1>6, <1>8, FS_Subset, FS_CardinalityType
<1>10. IsFiniteSet(loose)
  BY <1>1, <1>5, <1>8, FS_Subset
<1>11. p <= Cardinality(loose)
  BY <1>1, <1>7, <1>8, <1>10, FS_Subset
<1>12. Cardinality(strict) < p
  BY <1>1, <1>9
<1> QED  BY <1>11, <1>12 DEF strict, loose, S

\* A part of the list of what matches is a page.
LEMMA WindowIsPage ==
    ASSUME NEW all, NEW query, query.skip \in Nat, query.take \in Nat,
           NEW found, Len(found) \in Nat, DOMAIN found = 1..Len(found), IsInjective(found),
           Range(found) = Matching(all, query.filter),
           query.sort # <<>> =>
              /\ InOrder(found, Last(query.sort))
              /\ \A n \in DOMAIN found : SortValue(found[n], Last(query.sort).key) \in Int,
           NEW cut, Window(cut, found, query.skip, query.take)
    PROVE  IsPage(cut, all, query)
<1> DEFINE S == Matching(all, query.filter)
           prop == Last(query.sort)
<1>1. Cardinality(S) = Len(found)
  <2>1. Range(found) = {found[q] : q \in 1..Len(found)}
    BY DEF Range
  <2>2. Len(found) \in 0..Len(found)
    OBVIOUS
  <2>3. Cardinality({found[q] : q \in 1..Len(found)}) = Len(found)
    BY <2>2, PlacesCount
  <2> QED  BY <2>1, <2>3
<1>2. /\ Len(cut) = IF Len(found) - query.skip < 0 THEN 0
                    ELSE Smaller(Len(found) - query.skip, query.take)
      /\ DOMAIN cut = 1..Len(cut) /\ Len(cut) \in Nat
      /\ \A n \in DOMAIN cut : query.skip + n \in DOMAIN found /\ cut[n] = found[query.skip + n]
  BY DEF Window
<1>3. Range(cut) \subseteq S
  BY <1>2 DEF Range
<1>4. IsInjective(cut)
  <2> SUFFICES ASSUME NEW i \in DOMAIN cut, NEW k \in DOMAIN cut, cut[i] = cut[k]
               PROVE  i = k
    BY DEF IsInjective
  <2>1. query.skip + i = query.skip + k
    BY <1>2 DEF IsInjective
  <2> QED  BY <1>2, <2>1
<1>5. ASSUME query.sort # <<>>, NEW i \in DOMAIN cut
      PROVE  /\ Cardinality(Nearer(S, prop, cut[i], TRUE)) < query.skip + i
             /\ query.skip + i <= Cardinality(Nearer(S, prop, cut[i], FALSE))
  <2>1. PICK p \in DOMAIN found : p = query.skip + i /\ cut[i] = found[p]
    BY <1>2
  <2>2. PICK last : last = Last(query.sort)
    OBVIOUS
  <2>3. InOrder(found, last) /\ \A n \in DOMAIN found : SortValue(found[n], last.key) \in Int
    BY <1>5, <2>2
  <2>4. /\ Cardinality(Nearer(Range(found), last, found[p], TRUE)) < p
        /\ p <= Cardinality(Nearer(Range(found), last, found[p], FALSE))
    BY <2>3, NearerInOrder
  <2> QED  BY <2>1, <2>2, <2>4
<1> QED  BY <1>1, <1>2, <1>3, <1>4, <1>5 DEF IsPage, Nearer

\* The items of the jobs in a page.
Shown(ids) == [i \in DOMAIN ids |-> Item(ids[i], jobs[ids[i]])]

LEMMA ShownWindow ==
    ASSUME NEW found, NEW list, Len(list) = Len(found), DOMAIN list = DOMAIN found,
           \A n \in DOMAIN list : found[n] = Item(list[n], jobs[list[n]]),
           NEW ids \in Seq(Jobs), NEW skip, NEW take, Window(ids, list, skip, take)
    PROVE  Window(Shown(ids), found, skip, take)
<1>1. Len(ids) \in Nat /\ DOMAIN ids = 1..Len(ids)
  BY LenProperties
<1>2. DOMAIN Shown(ids) = 1..Len(ids)
  BY <1>1 DEF Shown
<1>3. Shown(ids) \in Seq({Item(ids[i], jobs[ids[i]]) : i \in DOMAIN ids})
  BY <1>1 DEF Shown
<1>4. Len(Shown(ids)) = Len(ids)
  BY <1>1, <1>2, <1>3, LenProperties
<1>5. \A n \in DOMAIN ids : Shown(ids)[n] = found[skip + n]
  <2> SUFFICES ASSUME NEW n \in DOMAIN ids
               PROVE  Shown(ids)[n] = found[skip + n]
    OBVIOUS
  <2>1. skip + n \in DOMAIN list /\ ids[n] = list[skip + n]
    BY DEF Window
  <2>2. found[skip + n] = Item(list[skip + n], jobs[list[skip + n]])
    BY <2>1
  <2> QED  BY <2>1, <2>2 DEF Shown
<1> QED  BY <1>1, <1>2, <1>4, <1>5 DEF Window

LEMMA PageFromMemoryIsRight ==
    ASSUME ReadsInv, WalkInv, PageFromMemory
    PROVE  IsPage(Shown(page'), Items, options)
<1>1. adapter = "memory" /\ StoreInv /\ JobsInv /\ options \in OptionsRecord
  BY DEF PageFromMemory, ReadsInv, WalkInv, WalkTypes
<1>2. options.sort \in SortLists /\ options.skip \in Nat /\ options.take \in Nat
  BY <1>1, OptionsAre
<1>3. PICK found : found = ApplyFilters(ApplySort(Items, options.sort), options.filter)
  OBVIOUS
<1>4. PICK list : list = Listed(jobs, order, options)
  OBVIOUS
<1>5. /\ found \in Seq(ItemsOfJobs) /\ Len(found) \in Nat /\ DOMAIN found = 1..Len(found)
      /\ Range(found) = Matching(Items, options.filter) /\ IsInjective(found)
      /\ options.sort # <<>> => InOrder(found, Last(options.sort))
      /\ \A n \in DOMAIN found : found[n] = Item(found[n].id, jobs[found[n].id])
  BY <1>1, <1>2, <1>3, FoundInMemory
<1>6. /\ Len(list) = Len(found) /\ DOMAIN list = DOMAIN found
      /\ \A n \in DOMAIN found : list[n] = found[n].id
  BY <1>1, <1>2, <1>3, <1>4, ListedInMemory
<1>7. \A n \in DOMAIN list : found[n] = Item(list[n], jobs[list[n]])
  BY <1>5, <1>6
<1>8. page' \in Seq(Jobs) /\ Window(page', list, options.skip, options.take)
  BY <1>1, <1>4, PageFromMemoryCuts
<1>9. Window(Shown(page'), found, options.skip, options.take)
  <2>1. PICK ids : ids = page'
    OBVIOUS
  <2>2. Window(Shown(ids), found, options.skip, options.take)
    BY <1>6, <1>7, <1>8, <2>1, ShownWindow
  <2> QED  BY <2>1, <2>2
<1>10. options.sort # <<>> =>
          \A n \in DOMAIN found : SortValue(found[n], Last(options.sort).key) \in Int
  <2> SUFFICES ASSUME options.sort # <<>>, NEW n \in DOMAIN found
               PROVE  SortValue(found[n], Last(options.sort).key) \in Int
    OBVIOUS
  <2>1. Last(options.sort).key \in {"createdAt", "progress"}
    BY <1>2, SortListIs
  <2>2. found[n] \in ItemsOfJobs
    BY <1>5, LenProperties
  <2> QED  BY <1>1, <2>1, <2>2, ItemsAre
<1> QED  BY <1>2, <1>5, <1>9, <1>10, WindowIsPage

LEMMA PassesEq ==
    ASSUME NEW value, NEW operand
    PROVE  Passes(value, [eq |-> operand]) <=> value = operand
<1>1. DOMAIN [eq |-> operand] = {"eq"} /\ [eq |-> operand].eq = operand
  OBVIOUS
<1>2. /\ Given([eq |-> operand], "eq")
      /\ ~Given([eq |-> operand], "gt") /\ ~Given([eq |-> operand], "gte")
      /\ ~Given([eq |-> operand], "lt") /\ ~Given([eq |-> operand], "lte")
      /\ ~Given([eq |-> operand], "before") /\ ~Given([eq |-> operand], "after")
      /\ ~Given([eq |-> operand], "between")
  BY <1>1 DEF Given
<1>3. /\ ~Truthy([eq |-> operand], "gt") /\ ~Truthy([eq |-> operand], "gte")
      /\ ~Truthy([eq |-> operand], "lt") /\ ~Truthy([eq |-> operand], "lte")
  BY <1>2 DEF Truthy
<1> QED  BY <1>1, <1>2, <1>3, Zenon DEF Passes

\* BullMQ looks for RETRYING jobs in a list that never has any.
SoughtFilters == CommonFilters \ {[state |-> [eq |-> "RETRYING"]]}

SoughtIn(j, filter) ==
    /\ ListOf(jobs, j) \in JobTypes(filter)
    /\ "queueName" \in DOMAIN filter => QueueOf(j) = filter.queueName.eq

\* The script finds a stored job exactly when it passes the filters and does not wait
\* with a priority.
LEMMA SoughtIsMatching ==
    ASSUME StoreInv, JobsInv, adapter = "bullmq", NEW filter \in SoughtFilters,
           NEW j \in Jobs, IsStored(j)
    PROVE  SoughtIn(j, filter) <=>
               /\ ~IsHidden(j)
               /\ \A key \in DOMAIN filter : Passes(Item(j, jobs[j])[key], filter[key])
<1>1. jobs[j].state \in {"PENDING", "RUNNING", "RETRYING", "COMPLETED", "FAILED"}
  BY DEF StoreInv, JobsInv, JobRecord, JobState, Final, IsStored
<1>2. CASE IsHidden(j)
  <2>1. ListOf(jobs, j) = "prioritized"
    BY <1>2 DEF IsHidden, ListOf, WaitingList
  <2>2. "prioritized" \notin JobTypes(filter)
    BY DEF JobTypes, AllJobTypes, JobTypesOf, SoughtFilters, CommonFilters, BooleanFilters,
           StringFilters
  <2> QED  BY <1>2, <2>1, <2>2 DEF SoughtIn
<1> SUFFICES ASSUME ~IsHidden(j)
             PROVE  SoughtIn(j, filter) <=>
                        \A key \in DOMAIN filter : Passes(Item(j, jobs[j])[key], filter[key])
  BY <1>2
<1>10. /\ ListOf(jobs, j) \in {"wait", "active", "delayed", "completed", "failed"}
       /\ ListOf(jobs, j) = "wait" <=> jobs[j].state = "PENDING"
       /\ ListOf(jobs, j) \in {"completed", "failed"} <=> jobs[j].state \in Final
  BY <1>1 DEF ListOf, Final, IsHidden, WaitingList
<1>3. CASE filter = <<>>
  <2>1. DOMAIN filter = {}
    BY <1>3
  <2>2. JobTypes(filter) = AllJobTypes
    BY <2>1 DEF JobTypes
  <2> QED  BY <1>10, <2>1, <2>2 DEF SoughtIn, AllJobTypes
<1>4. CASE filter = [isSettled |-> [eq |-> FALSE]]
  <2>1. DOMAIN filter = {"isSettled"} /\ filter["isSettled"] = [eq |-> FALSE]
    BY <1>4
  <2>2. ~filter.isSettled.eq
    BY <1>4
  <2>3. JobTypes(filter) = AllJobTypes \ {"completed", "failed"}
    BY <2>1, <2>2 DEF JobTypes
  <2>4. Item(j, jobs[j])["isSettled"] = (jobs[j].state \in Final)
    BY DEF Item
  <2>5. Passes(Item(j, jobs[j])["isSettled"], [eq |-> FALSE]) <=> (jobs[j].state \in Final) = FALSE
    BY <2>4, PassesEq, Zenon
  <2>6. (jobs[j].state \in Final) = FALSE <=> jobs[j].state \notin Final
    OBVIOUS
  <2>7. SoughtIn(j, filter) <=> jobs[j].state \notin Final
    BY <1>10, <2>1, <2>3 DEF SoughtIn, AllJobTypes
  <2> QED  BY <2>1, <2>5, <2>6, <2>7, Zenon
<1>5. CASE filter = [state |-> [eq |-> "PENDING"]]
  <2>1. DOMAIN filter = {"state"} /\ filter["state"] = [eq |-> "PENDING"]
    BY <1>5
  <2>2. JobTypes(filter) = {"wait"}
    BY <1>5, <2>1 DEF JobTypes, JobTypesOf
  <2>3. Item(j, jobs[j])["state"] = jobs[j].state
    BY DEF Item
  <2>4. Passes(Item(j, jobs[j])["state"], [eq |-> "PENDING"]) <=> jobs[j].state = "PENDING"
    BY <2>3, PassesEq, Zenon
  <2>5. SoughtIn(j, filter) <=> jobs[j].state = "PENDING"
    BY <1>10, <2>1, <2>2 DEF SoughtIn
  <2> QED  BY <2>1, <2>4, <2>5, Zenon
<1>6. CASE filter = [queueName |-> [eq |-> "na"]]
  <2>1. DOMAIN filter = {"queueName"} /\ filter["queueName"] = [eq |-> "na"]
    BY <1>6
  <2>2. JobTypes(filter) = AllJobTypes
    BY <2>1 DEF JobTypes
  <2>3. Item(j, jobs[j])["queueName"] = QueueOf(j)
    BY DEF Item
  <2>4. Passes(Item(j, jobs[j])["queueName"], [eq |-> "na"]) <=> QueueOf(j) = "na"
    BY <2>3, PassesEq, Zenon
  <2>5. SoughtIn(j, filter) <=> QueueOf(j) = "na"
    BY <1>10, <1>6, <2>1, <2>2 DEF SoughtIn, AllJobTypes
  <2> QED  BY <2>1, <2>4, <2>5, Zenon
<1> QED  BY <1>3, <1>4, <1>5, <1>6 DEF SoughtFilters, CommonFilters, BooleanFilters, StringFilters

\* The items of the jobs that do not wait with a priority.
VisibleItems ==
    ItemsOf(jobs, Remaining(order, {i \in DOMAIN order : ~IsHidden(order[i])}))

LEMMA VisibleItemsAre ==
    ASSUME StoreInv
    PROVE  /\ \A i \in DOMAIN order : ~IsHidden(order[i]) =>
                 Item(order[i], jobs[order[i]]) \in Range(VisibleItems)
           /\ \A x \in Range(VisibleItems) : \E i \in DOMAIN order :
                 ~IsHidden(order[i]) /\ x = Item(order[i], jobs[order[i]])
<1> DEFINE places == {i \in DOMAIN order : ~IsHidden(order[i])}
           rest == Remaining(order, places)
           f == [n \in DOMAIN rest |-> Item(rest[n], jobs[rest[n]])]
<1>1. order \in Seq(Jobs) /\ places \in SUBSET DOMAIN order
  BY DEF StoreInv
<1>2. \A i \in DOMAIN order : i \in places <=> ~IsHidden(order[i])
  OBVIOUS
<1>3. VisibleItems = f \o <<>>
  BY DEF VisibleItems, ItemsOf
<1> HIDE DEF places
<1>4. rest \in Seq(Jobs) /\ \E ps : KeptFrom(rest, order, places, ps)
  BY <1>1, RemainingIs
<1>5. PICK ps : KeptFrom(rest, order, places, ps)
  BY <1>4
<1> HIDE DEF rest
<1>6. f \in Seq({Item(rest[n], jobs[rest[n]]) : n \in DOMAIN rest})
  BY <1>4
<1>7. VisibleItems = f /\ DOMAIN f = DOMAIN rest
  BY <1>3, <1>6, ConcatEmptySeq
<1>8. \A n \in DOMAIN rest : f[n] = Item(rest[n], jobs[rest[n]])
  OBVIOUS
<1> HIDE DEF f
<1>9. \A n \in DOMAIN rest : /\ ps[n] \in places /\ ps[n] \in DOMAIN order
                             /\ rest[n] = order[ps[n]]
  BY <1>1, <1>5 DEF KeptFrom
<1>10. \A p \in places : \E n \in DOMAIN rest : ps[n] = p
  BY <1>5 DEF KeptFrom
<1>11. ASSUME NEW i \in DOMAIN order, ~IsHidden(order[i])
       PROVE  Item(order[i], jobs[order[i]]) \in Range(VisibleItems)
  <2>1. PICK n \in DOMAIN rest : ps[n] = i
    BY <1>2, <1>10, <1>11
  <2>2. f[n] = Item(order[i], jobs[order[i]])
    BY <1>8, <1>9, <2>1
  <2> QED  BY <1>7, <2>2 DEF Range
<1>12. ASSUME NEW x \in Range(VisibleItems)
       PROVE  \E i \in DOMAIN order :
                 ~IsHidden(order[i]) /\ x = Item(order[i], jobs[order[i]])
  <2>1. PICK n \in DOMAIN rest : x = f[n]
    BY <1>7, <1>12 DEF Range
  <2> QED  BY <1>2, <1>8, <1>9, <2>1
<1> QED  BY <1>11, <1>12

LEMMA FoundOnBull ==
    ASSUME StoreInv, JobsInv, adapter = "bullmq", NEW filter \in SoughtFilters,
           NEW list, list = NewestFirst(BullIds(JobTypes(filter), filter)), ListOfJobs(list),
           NEW found, found = Shown(list)
    PROVE  /\ Len(found) = Len(list) /\ DOMAIN found = DOMAIN list /\ Len(list) \in Nat
           /\ DOMAIN list = 1..Len(list)
           /\ \A n \in DOMAIN list : found[n] = Item(list[n], jobs[list[n]])
           /\ IsInjective(found)
           /\ Range(found) = Matching(VisibleItems, filter)
           /\ InOrder(found, [key |-> "createdAt", order |-> "DESC"])
           /\ \A n \in DOMAIN found : SortValue(found[n], "createdAt") \in Int
<1> DEFINE S == BullIds(JobTypes(filter), filter)
<1>1. S \subseteq Range(order) /\ Range(order) \subseteq Jobs /\ Lists(list, S, Downwards(S))
  BY BullIdsAre
<1>2. /\ list \in Seq(Jobs) /\ Len(list) \in Nat /\ DOMAIN list = 1..Len(list)
      /\ \A n \in DOMAIN list : list[n] \in Jobs
  BY LenProperties DEF ListOfJobs
<1>3. DOMAIN found = DOMAIN list /\ \A n \in DOMAIN list : found[n] = Item(list[n], jobs[list[n]])
  BY DEF Shown
<1>4. Len(found) = Len(list)
  <2>1. found \in Seq({Item(list[i], jobs[list[i]]) : i \in DOMAIN list})
    BY <1>2 DEF Shown
  <2> QED  BY <1>2, <1>3, <2>1, LenProperties
<1>5. \A n \in DOMAIN list : /\ found[n].id = list[n] /\ found[n].createdAt = list[n]
                             /\ list[n] \in Nat
  BY <1>2, <1>3, JobCountAssumption DEF Item, Jobs
<1>6. IsInjective(found)
  BY <1>3, <1>5 DEF IsInjective, ListOfJobs
<1>7. \A n \in DOMAIN list : SortValue(found[n], "createdAt") = list[n]
  BY <1>5 DEF SortValue, Undefined
<1>8. InOrder(found, [key |-> "createdAt", order |-> "DESC"])
  <2>1. \A i, k \in DOMAIN list : i < k => list[i] > list[k]
    BY <1>1 DEF Lists, Downwards
  <2>2. \A i, k \in DOMAIN list : i < k =>
            SortValue(found[i], "createdAt") >= SortValue(found[k], "createdAt")
    BY <1>5, <1>7, <2>1
  <2> QED  BY <1>3, <2>2 DEF InOrder
<1>9. \A j \in Jobs : j \in S <=> j \in Range(order) /\ SoughtIn(j, filter)
  <2> DEFINE Job(j) == [id |-> j, queueName |-> QueueOf(j), list |-> ListOf(jobs, j)]
             Sought(job) == /\ job.list \in JobTypes(filter)
                            /\ "queueName" \in DOMAIN filter =>
                                  job.queueName = filter.queueName.eq
  <2>1. S = {job.id : job \in {job \in BullJobs : Sought(job)}}
    BY DEF BullIds
  <2>2. BullJobs = {Job(j) : j \in Range(order)}
    BY DEF BullJobs, BullJobsOf
  <2>3. \A j : Job(j).id = j /\ (Sought(Job(j)) <=> SoughtIn(j, filter))
    BY DEF SoughtIn
  <2> HIDE DEF S, Job, Sought
  <2> QED  BY <2>1, <2>2, <2>3
<1>10. \A j \in Jobs : j \in Range(order) <=> IsStored(j)
  BY DEF JobsInv, Range
<1>11. \A j \in Jobs : j \in S <=> \E n \in DOMAIN list : list[n] = j
  BY <1>1, <1>2 DEF Lists
<1>12. /\ \A i \in DOMAIN order : ~IsHidden(order[i]) =>
             Item(order[i], jobs[order[i]]) \in Range(VisibleItems)
       /\ \A x \in Range(VisibleItems) : \E i \in DOMAIN order :
             ~IsHidden(order[i]) /\ x = Item(order[i], jobs[order[i]])
  BY VisibleItemsAre
<1> HIDE DEF S
<1>13. ASSUME NEW x \in Range(found) PROVE x \in Matching(VisibleItems, filter)
  <2>1. PICK n \in DOMAIN list : x = Item(list[n], jobs[list[n]])
    BY <1>3, <1>13 DEF Range
  <2>2. list[n] \in Jobs /\ list[n] \in Range(order) /\ SoughtIn(list[n], filter)
    BY <1>2, <1>9, <1>11
  <2>3. ~IsHidden(list[n]) /\ \A key \in DOMAIN filter : Passes(x[key], filter[key])
    BY <1>10, <2>1, <2>2, SoughtIsMatching
  <2>4. x \in Range(VisibleItems)
    <3>1. PICK i \in DOMAIN order : order[i] = list[n]
      BY <2>2 DEF Range
    <3> QED  BY <1>12, <2>1, <2>3, <3>1
  <2> QED  BY <2>3, <2>4 DEF Matching
<1>14. ASSUME NEW x \in Matching(VisibleItems, filter) PROVE x \in Range(found)
  <2>1. x \in Range(VisibleItems) /\ \A key \in DOMAIN filter : Passes(x[key], filter[key])
    BY <1>14 DEF Matching
  <2>2. PICK i \in DOMAIN order : ~IsHidden(order[i]) /\ x = Item(order[i], jobs[order[i]])
    BY <1>12, <2>1
  <2>3. order[i] \in Jobs /\ order[i] \in Range(order)
    BY <1>1 DEF Range
  <2>4. SoughtIn(order[i], filter)
    BY <1>10, <2>1, <2>2, <2>3, SoughtIsMatching
  <2>5. PICK n \in DOMAIN list : list[n] = order[i]
    BY <1>9, <1>11, <2>3, <2>4
  <2> QED  BY <1>3, <2>2, <2>5 DEF Range
<1>15. Range(found) = Matching(VisibleItems, filter)
  BY <1>13, <1>14
<1> QED  BY <1>2, <1>3, <1>4, <1>5, <1>6, <1>7, <1>8, <1>15

LEMMA ScriptIsRight ==
    ASSUME ReadsInv, WalkInv, Script, options.filter # [state |-> [eq |-> "RETRYING"]]
    PROVE  IsPage(Shown(page'), VisibleItems,
                  [options EXCEPT !.sort = <<[key |-> "createdAt", order |-> "DESC"]>>])
<1> DEFINE newest == <<[key |-> "createdAt", order |-> "DESC"]>>
<1>1. /\ adapter = "bullmq" /\ StoreInv /\ JobsInv /\ options \in OptionsRecord
      /\ options.filter \in SoughtFilters
  BY DEF Script, ReadsInv, WalkInv, WalkTypes, SoughtFilters
<1>2. options.skip \in Nat /\ options.take \in Nat
  BY <1>1, OptionsAre
<1>3. PICK list : list = Listed(jobs, order, options)
  OBVIOUS
<1>4. /\ list = NewestFirst(BullIds(JobTypes(options.filter), options.filter))
      /\ ListOfJobs(list)
  BY <1>1, <1>3, ListedOnBull
<1>5. PICK found : found = Shown(list)
  OBVIOUS
<1>6. /\ Len(found) = Len(list) /\ DOMAIN found = DOMAIN list /\ Len(list) \in Nat
      /\ DOMAIN list = 1..Len(list)
      /\ \A n \in DOMAIN list : found[n] = Item(list[n], jobs[list[n]])
      /\ IsInjective(found)
      /\ Range(found) = Matching(VisibleItems, options.filter)
      /\ InOrder(found, [key |-> "createdAt", order |-> "DESC"])
      /\ \A n \in DOMAIN found : SortValue(found[n], "createdAt") \in Int
  BY <1>1, <1>4, <1>5, FoundOnBull
<1>7. page' \in Seq(Jobs) /\ Window(page', list, options.skip, options.take)
  BY <1>1, <1>3, ScriptCuts
<1>8. Window(Shown(page'), found, options.skip, options.take)
  <2>1. PICK ids : ids = page'
    OBVIOUS
  <2>2. Window(Shown(ids), found, options.skip, options.take)
    BY <1>6, <1>7, <2>1, ShownWindow
  <2> QED  BY <2>1, <2>2
<1>9. PICK query : query = [options EXCEPT !.sort = newest]
  OBVIOUS
<1>10. /\ query.skip = options.skip /\ query.take = options.take
       /\ query.filter = options.filter /\ query.sort = newest
  BY <1>1, <1>9 DEF OptionsRecord
<1>11. Last(query.sort) = [key |-> "createdAt", order |-> "DESC"]
  BY <1>10 DEF Last
<1>12. IsPage(Shown(page'), VisibleItems, query)
  BY <1>2, <1>6, <1>8, <1>10, <1>11, WindowIsPage
<1> QED  BY <1>9, <1>12

\* A page is what its options say (findMany() of both adapters, applySort(),
\* applyFilters(), applyPagination() and the script getJobsByType).
THEOREM PageIsRightCorrect == Spec => PageIsRight
<1>1. ASSUME ReadsInv, WalkInv, PageFromMemory
      PROVE  IsPage([i \in DOMAIN page' |-> Item(page'[i], jobs[page'[i]])], Items, options)
  BY <1>1, PageFromMemoryIsRight DEF Shown
<1>2. ASSUME ReadsInv, WalkInv, Script, options.filter # [state |-> [eq |-> "RETRYING"]]
      PROVE  IsPage([i \in DOMAIN page' |-> Item(page'[i], jobs[page'[i]])],
                    VisibleItems,
                    [options EXCEPT !.sort = <<[key |-> "createdAt", order |-> "DESC"]>>])
  BY <1>2, ScriptIsRight DEF Shown
<1> DEFINE Right ==
        /\ PageFromMemory => IsPage([i \in DOMAIN page' |-> Item(page'[i], jobs[page'[i]])],
                                    Items, options)
        /\ Script /\ options.filter # [state |-> [eq |-> "RETRYING"]] =>
             IsPage([i \in DOMAIN page' |-> Item(page'[i], jobs[page'[i]])],
                    ItemsOf(jobs, Remaining(order, {i \in DOMAIN order : ~IsHidden(order[i])})),
                    [options EXCEPT
                       !.sort = <<[key |-> "createdAt", order |-> "DESC"]>>])
<1>3. ReadsInv /\ WalkInv => Right
  BY <1>1, <1>2 DEF VisibleItems
<1>4. PageIsRight <=> [][Right]_vars
  BY DEF PageIsRight
<1> HIDE DEF Right
<1> QED  BY WalkInvariant, <1>3, <1>4, PTL

=============================================================================
