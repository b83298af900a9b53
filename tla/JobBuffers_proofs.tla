------------------------- MODULE JobBuffers_proofs --------------------------
(***************************************************************************)
(* Proofs about JobBuffers, for any set of buffers, any number of jobs and *)
(* any finite number of calls of flush(), with buffers that come, go and   *)
(* come back: the in-memory store neither loses nor doubles a job, and is  *)
(* a BufStore for the calls that name buffers; flush() delivers.           *)
(***************************************************************************)
EXTENDS JobBuffers, FiniteSetTheorems, FunctionTheorems, SequenceTheorems,
        WellFoundedInduction, TLAPS

-----------------------------------------------------------------------------
(* The inductive invariant.                                                *)

Places == 1..Len(places)

Types ==
    /\ places \in Seq(Buffers) /\ Len(places) <= MaxPlaces
    /\ live \subseteq Places
    /\ adding \in [Jobs -> {"new", "asking", "storing", "enqueueing", "buffered",
                            "queued", "swallowed", "rejected"}]
    /\ asked \in [Jobs -> 0..Len(places)]
    /\ collectedBy \in [Jobs -> SUBSET Places]
    /\ stored \in [Buffers -> SUBSET Jobs]
    /\ flushing \in [Flushes -> {"idle", "scanning", "reading", "deleting",
                                 "visiting", "reducing", "adding", "done",
                                 "rejected"}]
    /\ wanted \in [Flushes -> SUBSET Buffers]
    /\ taken \in [Flushes -> [Buffers -> SUBSET Jobs]]

\* An add() goes through the places in their order, so that the one it is at has
\* not collected the job before.
AsksInOrder ==
    \A j \in Jobs :
        /\ adding[j] = "new" => collectedBy[j] = {}
        /\ adding[j] \in {"asking", "storing"} => asked[j] \in Places
        /\ adding[j] = "asking" => \A p \in collectedBy[j] : p < asked[j]
        /\ adding[j] = "storing" => \A p \in collectedBy[j] : p <= asked[j]

\* In memory a flush() that has not begun has nothing, and one that has is not
\* waiting for the store.
FlushesAtOnce ==
    store = "memory" =>
        \A f \in Flushes :
            /\ flushing[f] \notin {"scanning", "reading", "deleting"}
            /\ flushing[f] = "idle" => taken[f] = NoJobs /\ wanted[f] = {}

IInv ==
    /\ Types
    /\ AsksInOrder
    /\ FlushesAtOnce
    /\ MemoryKeeps
    /\ MemoryTakesOnce

-----------------------------------------------------------------------------
(* The list of places, and the next one of a loop.                         *)

\* Min of a set of natural numbers that is not empty is the least of them.
LEMMA MinIsLeast ==
    ASSUME NEW S \in SUBSET Nat, S # {}
    PROVE  Min(S) \in S /\ \A y \in S : Min(S) <= y
<1>1. \E x \in S : \A y \in S : ~(<<y, x>> \in OpToRel(<, Nat))
  BY NatLessThanWellFounded, WFMin
<1>2. \E x \in S : \A y \in S : x =< y
  <2>1. PICK x \in S : \A y \in S : ~(<<y, x>> \in OpToRel(<, Nat))
    BY <1>1
  <2>2. \A y \in S : ~(y < x)
    BY <2>1 DEF OpToRel
  <2> QED  BY <2>2
<1> QED  BY <1>2 DEF Min

\* Places are natural numbers, and each has a buffer.
LEMMA PlacesAre ==
    ASSUME Types
    PROVE  /\ Len(places) \in Nat /\ DOMAIN places = Places
           /\ live \in SUBSET Nat /\ Places \in SUBSET Nat
           /\ \A p \in Places : places[p] \in Buffers /\ p <= Len(places)
BY LenProperties, ElementOfSeq DEF Types, Places

\* Only addBuffer() changes the list, and it adds to its end.
LEMMA AddBufferAppends ==
    ASSUME Types, NEW b \in Buffers, AddBuffer(b)
    PROVE  /\ places' \in Seq(Buffers) /\ Len(places') = Len(places) + 1
           /\ Len(places') <= MaxPlaces
           /\ live' = live \cup {Len(places) + 1}
           /\ Places \subseteq Places'
           /\ \A p \in Places : places'[p] = places[p]
<1>1. /\ places \in Seq(Buffers) /\ Len(places) \in Nat
      /\ places' = Append(places, b) /\ live' = live \cup {Len(places) + 1}
      /\ Len(places) < MaxPlaces
  BY PlacesAre DEF AddBuffer, Types
<1>2. /\ places' \in Seq(Buffers) /\ Len(places') = Len(places) + 1
      /\ \A p \in 1..Len(places) : places'[p] = places[p]
  BY <1>1, AppendProperties
<1> QED  BY <1>1, <1>2, CountAssumption DEF Places

LEMMA PlacesStay ==
    ASSUME Types, Next
    PROVE  \/ UNCHANGED places
           \/ \E b \in Buffers : AddBuffer(b)
<1>1. CASE BufferSteps
  BY <1>1 DEF BufferSteps, RemoveBuffer
<1>2. ASSUME NEW j \in Jobs, AddSteps(j) PROVE UNCHANGED places
  BY <1>2 DEF AddSteps, Add, Declined, Collected, CollectThrows, StoreThrows,
              StoreAnswers, Enqueue, EnqueueThrows, bufferVars
<1>3. ASSUME NEW f \in Flushes, FlushSteps(f) PROVE UNCHANGED places
  BY <1>3 DEF FlushSteps, FlushMemory, FlushRedis, Scan, ReadList, DeleteList,
              ParseThrows, Visit, Visits, Reduce, AddReduced, AddReducedThrows, bufferVars
<1> QED  BY <1>1, <1>2, <1>3 DEF Next

\* What is said of places that there were is still true of them.
LEMMA PlacesGrow ==
    ASSUME Types, Next
    PROVE  /\ Len(places) <= Len(places') /\ Places \subseteq Places'
           /\ \A p \in Places : places'[p] = places[p]
<1>1. Len(places) \in Nat
  BY PlacesAre
<1>2. CASE UNCHANGED places
  BY <1>1, <1>2 DEF Places
<1>3. CASE \E b \in Buffers : AddBuffer(b)
  BY <1>1, <1>3, AddBufferAppends
<1> QED  BY <1>2, <1>3, PlacesStay

\* NextOf is a place of a registered buffer that comes later.
LEMMA NextComesLater ==
    ASSUME Types, NEW p \in 0..Len(places), After(p) # {}
    PROVE  NextOf(p) \in Places /\ p < NextOf(p)
<1>1. After(p) \in SUBSET live /\ live \in SUBSET Nat
  BY PlacesAre DEF After
<1>2. NextOf(p) \in After(p)
  BY <1>1, MinIsLeast DEF NextOf
<1> QED  BY <1>1, <1>2 DEF After, Types

\* What AskAfter does: the call goes on with a later place, or knows the answer.
LEMMA AskAfterGoesOn ==
    ASSUME Types, NEW j \in Jobs, NEW p \in 0..Len(places), NEW kept,
           AskAfter(j, p, kept)
    PROVE  \E n \in 0..Len(places), pc \in {"asking", "enqueueing", "buffered"} :
               /\ asked' = [asked EXCEPT ![j] = n]
               /\ adding' = [adding EXCEPT ![j] = pc]
               /\ pc = "asking" => n \in Places /\ p < n
               /\ pc = "enqueueing" => kept = {}
<1>1. CASE After(p) # {}
  <2>1. NextOf(p) \in Places /\ p < NextOf(p)
    BY <1>1, NextComesLater
  <2>2. NextOf(p) \in 0..Len(places)
    BY <2>1, PlacesAre DEF Places
  <2>3. /\ asked' = [asked EXCEPT ![j] = NextOf(p)]
        /\ adding' = [adding EXCEPT ![j] = "asking"]
    BY <1>1 DEF AskAfter
  <2> QED  BY <2>1, <2>2, <2>3
<1>2. CASE After(p) = {}
  <2>1. 0 \in 0..Len(places)
    BY PlacesAre
  <2>2. /\ asked' = [asked EXCEPT ![j] = 0]
        /\ adding' = [adding EXCEPT ![j] = IF kept = {} THEN "enqueueing" ELSE "buffered"]
    BY <1>2 DEF AskAfter, NoPlace
  <2> QED  BY <2>1, <2>2
<1> QED  BY <1>1, <1>2

-----------------------------------------------------------------------------
(* Types and the order of asking.                                          *)

LEMMA InitInvariant == Init => IInv
<1> SUFFICES ASSUME Init PROVE IInv
  OBVIOUS
<1>1. places = <<>> /\ places \in Seq(Buffers) /\ Len(places) = 0 /\ Places = 1..0
  BY EmptySeq DEF Init, Places
<1>2. Types
  BY <1>1, CountAssumption DEF Init, Types, NoJobs, NothingTaken, NoPlace
<1>3. AsksInOrder /\ FlushesAtOnce /\ MemoryKeeps
  BY DEF Init, AsksInOrder, FlushesAtOnce, MemoryKeeps, CollectedIsKept, NoJobs,
         NothingTaken
<1>4. ASSUME NEW b \in Buffers, NEW j \in Jobs
      PROVE  Cardinality(TakenBy(b, j)) + InStore(b, j) <= Cardinality(Collections(b, j))
  <2>1. TakenBy(b, j) = {} /\ InStore(b, j) = 0 /\ Collections(b, j) = {}
    BY DEF Init, TakenBy, InStore, Collections, NoJobs, NothingTaken
  <2> QED  BY <2>1, FS_EmptySet
<1> QED  BY <1>2, <1>3, <1>4 DEF IInv, MemoryTakesOnce

\* A step of an add() keeps the types, and the one call that steps keeps to the
\* order of the places.
LEMMA AddStepsInOrder ==
    ASSUME Types, AsksInOrder, NEW j \in Jobs, AddSteps(j)
    PROVE  Types' /\ AsksInOrder'
<1> USE DEF AsksInOrder
<1>0. Len(places) \in Nat /\ Places \in SUBSET Nat /\ 0 \in 0..Len(places)
      /\ \A p \in Places : places[p] \in Buffers
  BY PlacesAre
<1>1. CASE Add(j)
  <2>1. PICK n \in 0..Len(places), pc \in {"asking", "enqueueing", "buffered"} :
            /\ asked' = [asked EXCEPT ![j] = n]
            /\ adding' = [adding EXCEPT ![j] = pc]
            /\ pc = "asking" => n \in Places /\ 0 < n
    BY <1>0, <1>1, AskAfterGoesOn DEF Add, NoPlace
  <2>2. UNCHANGED <<bufferVars, collectedBy, flushVars, stored, queued>> /\ adding[j] = "new"
    BY <1>1 DEF Add
  <2>3. Types'
    BY <2>1, <2>2 DEF Types, Places, bufferVars, flushVars
  <2>4. AsksInOrder'
    BY <2>1, <2>2 DEF Types, Places, bufferVars
  <2> QED  BY <2>3, <2>4
<1>2. CASE Declined(j) \/ StoreAnswers(j)
  <2>1. adding[j] \in {"asking", "storing"} /\ asked[j] \in Places
    BY <1>2 DEF Declined, StoreAnswers
  <2>2. PICK n \in 0..Len(places), pc \in {"asking", "enqueueing", "buffered"} :
            /\ asked' = [asked EXCEPT ![j] = n]
            /\ adding' = [adding EXCEPT ![j] = pc]
            /\ pc = "asking" => n \in Places /\ asked[j] < n
    <3>1. asked[j] \in 0..Len(places)
      BY DEF Types
    <3> QED  BY <1>2, <3>1, AskAfterGoesOn DEF Declined, StoreAnswers
  <2>3. UNCHANGED <<bufferVars, collectedBy, flushVars, stored, queued>>
    BY <1>2 DEF Declined, StoreAnswers
  <2>4. Types'
    BY <2>2, <2>3 DEF Types, Places, bufferVars, flushVars
  <2>5. \A p \in collectedBy[j] : p \in Nat /\ p <= asked[j]
    BY <1>0, <2>1 DEF Types
  <2>6. pc = "asking" => \A p \in collectedBy[j] : p < n
    <3>1. PICK a \in Nat : a = asked[j]
      BY <1>0, <2>1
    <3>2. pc = "asking" => n \in Nat /\ a < n
      BY <1>0, <2>2, <3>1
    <3>3. \A p \in collectedBy[j] : p \in Nat /\ p <= a
      BY <2>5, <3>1
    <3> QED  BY <3>1, <3>2, <3>3
  <2>7. AsksInOrder'
    BY <2>2, <2>3, <2>6 DEF Types, Places, bufferVars
  <2> QED  BY <2>4, <2>7
<1>3. CASE Collected(j)
  <2>1. asked[j] \in Places /\ \A p \in collectedBy[j] : p < asked[j]
    BY <1>3 DEF Collected
  <2>2. /\ adding' = [adding EXCEPT ![j] = "storing"]
        /\ collectedBy' = [collectedBy EXCEPT ![j] = @ \cup {asked[j]}]
        /\ stored' = [stored EXCEPT ![places[asked[j]]] = @ \cup {j}]
        /\ UNCHANGED <<bufferVars, asked, flushVars, queued>>
    BY <1>3 DEF Collected
  <2>3. Types'
    BY <2>1, <2>2 DEF Types, Places, bufferVars, flushVars
  <2>4. \A p \in collectedBy'[j] : p <= asked'[j]
    BY <1>0, <2>1, <2>2 DEF Types
  <2>5. AsksInOrder'
    BY <2>1, <2>2, <2>4 DEF Types, Places, bufferVars
  <2> QED  BY <2>3, <2>5
<1>4. CASE CollectThrows(j) \/ StoreThrows(j)
  BY <1>0, <1>4 DEF CollectThrows, StoreThrows, Types, Places, bufferVars, flushVars, NoPlace
<1>5. CASE Enqueue(j) \/ EnqueueThrows(j)
  BY <1>5 DEF Enqueue, EnqueueThrows, Types, Places, bufferVars, flushVars
<1> QED  BY <1>1, <1>2, <1>3, <1>4, <1>5 DEF AddSteps

\* Buffers that come and go leave the calls alone.
LEMMA BufferStepsInOrder ==
    ASSUME Types, AsksInOrder, BufferSteps
    PROVE  Types' /\ AsksInOrder'
<1>1. CASE \E b \in Buffers : AddBuffer(b)
  <2>1. PICK b \in Buffers : AddBuffer(b)
    BY <1>1
  <2>2. /\ places' \in Seq(Buffers) /\ Len(places') = Len(places) + 1
        /\ Len(places') <= MaxPlaces
        /\ live' = live \cup {Len(places) + 1} /\ Places \subseteq Places'
    BY <2>1, AddBufferAppends
  <2>3. UNCHANGED <<addVars, flushVars, stored, queued>>
    BY <2>1 DEF AddBuffer
  <2>4. Len(places) \in Nat
    BY PlacesAre
  <2>5. live' \subseteq Places' /\ 0..Len(places) \subseteq 0..Len(places')
    <3>1. PICK n \in Nat : n = Len(places)
      BY <2>4
    <3>2. live \subseteq 1..n /\ live' = live \cup {n + 1} /\ Len(places') = n + 1
      BY <2>2, <3>1 DEF Types, Places
    <3>3. 1..n \subseteq 1..(n + 1) /\ n + 1 \in 1..(n + 1) /\ 0..n \subseteq 0..(n + 1)
      BY <3>1
    <3> QED  BY <3>1, <3>2, <3>3 DEF Places
  <2>6. Types'
    BY <2>2, <2>3, <2>5 DEF Types, addVars, flushVars
  <2>7. AsksInOrder'
    BY <2>2, <2>3 DEF AsksInOrder, addVars
  <2> QED  BY <2>6, <2>7
<1>2. CASE \E p \in live : RemoveBuffer(p)
  BY <1>2 DEF RemoveBuffer, Types, Places, AsksInOrder, addVars, flushVars
<1> QED  BY <1>1, <1>2 DEF BufferSteps

\* A step of a flush() does not touch the calls of add().
LEMMA FlushStepsInOrder ==
    ASSUME Types, AsksInOrder, NEW f \in Flushes, FlushSteps(f)
    PROVE  Types' /\ AsksInOrder'
<1>1. UNCHANGED <<bufferVars, addVars>>
  BY DEF FlushSteps, FlushMemory, FlushRedis, Scan, ReadList, DeleteList, ParseThrows,
         Visit, Visits, Reduce, AddReduced, AddReducedThrows
<1>2. AsksInOrder'
  BY <1>1 DEF AsksInOrder, Places, addVars, bufferVars
<1>3. /\ stored' \in [Buffers -> SUBSET Jobs]
      /\ taken' \in [Flushes -> [Buffers -> SUBSET Jobs]]
      /\ wanted' \in [Flushes -> SUBSET Buffers]
      /\ flushing' \in [Flushes -> {"idle", "scanning", "reading", "deleting",
                                     "visiting", "reducing", "adding", "done",
                                     "rejected"}]
  <2>1. CASE \E ids \in SUBSET Buffers : FlushMemory(f, ids)
    BY <2>1 DEF FlushMemory, Take, Clear, Types
  <2>2. CASE \E ids \in SUBSET Buffers : FlushRedis(f, ids)
    BY <2>2 DEF FlushRedis, Types
  <2>3. CASE Scan(f)
    BY <2>3 DEF Scan, Types
  <2>4. CASE ReadList(f)
    BY <2>4 DEF ReadList, Take, Types
  <2>5. CASE DeleteList(f)
    BY <2>5 DEF DeleteList, Clear, Types
  <2>6. CASE ParseThrows(f)
    BY <2>6 DEF ParseThrows, Clear, Types
  <2>7. CASE Visit(f)
    BY <2>7 DEF Visit, Visits, Types
  <2>8. CASE Reduce(f)
    BY <2>8 DEF Reduce, Types
  <2>9. CASE AddReduced(f)
    BY <2>9 DEF AddReduced, Types
  <2>10. CASE AddReducedThrows(f)
    BY <2>10 DEF AddReducedThrows, Types
  <2> QED
    BY <2>1, <2>2, <2>3, <2>4, <2>5, <2>6, <2>7, <2>8, <2>9, <2>10 DEF FlushSteps
<1> QED  BY <1>1, <1>2, <1>3 DEF Types, Places, bufferVars, addVars

-----------------------------------------------------------------------------
(* The store in memory.                                                    *)

\* What the properties of the in-memory store say about the next state.
InMemory == store = "memory" /\ FlushesAtOnce /\ CollectedIsKept /\ MemoryTakesOnce

\* The sets that MemoryTakesOnce counts.
LEMMA CountsAre ==
    ASSUME Types, NEW b \in Buffers, NEW j \in Jobs
    PROVE  /\ IsFiniteSet(TakenBy(b, j)) /\ Cardinality(TakenBy(b, j)) \in Nat
           /\ IsFiniteSet(Collections(b, j)) /\ Cardinality(Collections(b, j)) \in Nat
           /\ InStore(b, j) \in {0, 1}
<1>1. IsFiniteSet(TakenBy(b, j))
  BY FlushesAssumption, FS_Subset DEF TakenBy
<1>2. IsFiniteSet(Collections(b, j))
  <2>1. IsFiniteSet(Places)
    BY PlacesAre, FS_Interval DEF Places
  <2>2. Collections(b, j) \subseteq Places
    BY DEF Collections, Types
  <2> QED  BY <2>1, <2>2, FS_Subset
<1> QED  BY <1>1, <1>2, FS_CardinalityType DEF InStore

\* A job that is kept for a buffer was collected for it.
LEMMA KeptWasCollected ==
    ASSUME Types, MemoryTakesOnce, store = "memory", NEW b \in Buffers, NEW j \in Jobs,
           j \in stored[b] \/ \E f \in Flushes : j \in taken[f][b]
    PROVE  collectedBy[j] # {}
<1>1. Cardinality(TakenBy(b, j)) + InStore(b, j) <= Cardinality(Collections(b, j))
  BY DEF MemoryTakesOnce
<1>2. Cardinality(TakenBy(b, j)) \in Nat /\ Cardinality(Collections(b, j)) \in Nat
      /\ InStore(b, j) \in {0, 1}
  BY CountsAre
<1>3. CASE j \in stored[b]
  <2>1. InStore(b, j) = 1
    BY <1>3 DEF InStore
  <2>2. Cardinality(Collections(b, j)) # 0
    BY <1>1, <1>2, <2>1
  <2> QED  BY <2>2, FS_EmptySet DEF Collections
<1>4. CASE \E f \in Flushes : j \in taken[f][b]
  <2>1. TakenBy(b, j) # {} /\ IsFiniteSet(TakenBy(b, j))
    BY <1>4, CountsAre DEF TakenBy
  <2>2. Cardinality(TakenBy(b, j)) # 0
    BY <2>1, FS_EmptySet
  <2>3. Cardinality(Collections(b, j)) # 0
    BY <1>1, <1>2, <2>2
  <2> QED  BY <2>3, FS_EmptySet DEF Collections
<1> QED  BY <1>3, <1>4

\* bufstore.add(): the place has not collected the job before.
LEMMA CollectedInMemory ==
    ASSUME Types, AsksInOrder, InMemory, NEW j \in Jobs, Collected(j)
    PROVE  InMemory'
<1> DEFINE p == asked[j]
           c == places[p]
<1>1. /\ p \in Places /\ p \notin collectedBy[j] /\ c \in Buffers
      /\ stored' = [stored EXCEPT ![c] = @ \cup {j}]
      /\ collectedBy' = [collectedBy EXCEPT ![j] = @ \cup {p}]
      /\ UNCHANGED <<store, places, flushing, wanted, taken>>
  <2>1. adding[j] = "asking" /\ p \in Places /\ \A q \in collectedBy[j] : q < p
    BY DEF Collected, AsksInOrder
  <2>2. p \in Nat /\ c \in Buffers
    BY <2>1, PlacesAre
  <2> QED  BY <2>1, <2>2 DEF Collected, bufferVars, flushVars
<1> HIDE DEF p, c
<1>2. store' = "memory" /\ FlushesAtOnce'
  BY <1>1 DEF InMemory, FlushesAtOnce
<1>3. CollectedIsKept'
  <2> SUFFICES ASSUME NEW i \in Jobs, NEW q \in collectedBy'[i]
               PROVE  \/ i \in stored'[places[q]]
                      \/ \E f \in Flushes : i \in taken[f][places[q]]
    BY <1>1 DEF CollectedIsKept
  <2>1. CASE i = j /\ q = p
    BY <1>1, <2>1 DEF Types, c
  <2>2. CASE ~(i = j /\ q = p)
    <3>1. q \in collectedBy[i] /\ places[q] \in Buffers
      <4>1. q \in collectedBy[i]
        BY <1>1, <2>2 DEF Types
      <4> QED  BY <4>1, PlacesAre DEF Types
    <3>2. i \in stored[places[q]] \/ \E f \in Flushes : i \in taken[f][places[q]]
      BY <3>1 DEF InMemory, CollectedIsKept
    <3> QED  BY <1>1, <3>1, <3>2 DEF Types
  <2> QED  BY <2>1, <2>2
<1>4. MemoryTakesOnce'
  <2> SUFFICES ASSUME NEW b \in Buffers, NEW i \in Jobs
               PROVE  Cardinality(TakenBy(b, i)') + InStore(b, i)'
                          <= Cardinality(Collections(b, i)')
    BY <1>1 DEF MemoryTakesOnce
  <2>1. /\ Cardinality(TakenBy(b, i)) + InStore(b, i) <= Cardinality(Collections(b, i))
        /\ TakenBy(b, i)' = TakenBy(b, i)
    BY <1>1 DEF InMemory, MemoryTakesOnce, TakenBy
  <2>2. /\ Cardinality(TakenBy(b, i)) \in Nat /\ Cardinality(Collections(b, i)) \in Nat
        /\ IsFiniteSet(Collections(b, i)) /\ InStore(b, i) \in {0, 1}
    BY CountsAre
  <2>3. InStore(b, i)' \in {0, 1}
    BY DEF InStore
  <2>4. CASE i = j /\ b = c
    <3>1. Collections(b, i)' = Collections(b, i) \cup {p} /\ p \notin Collections(b, i)
      BY <1>1, <2>4 DEF Collections, Types, c
    <3>2. Cardinality(Collections(b, i)') = Cardinality(Collections(b, i)) + 1
      BY <2>2, <3>1, FS_AddElement
    <3> QED  BY <2>1, <2>2, <2>3, <3>2
  <2>5. CASE ~(i = j /\ b = c)
    <3>1. Collections(b, i)' = Collections(b, i)
      BY <1>1, <2>5 DEF Collections, Types, c
    <3>2. InStore(b, i)' = InStore(b, i)
      BY <1>1, <2>5 DEF InStore, Types
    <3> QED  BY <2>1, <3>1, <3>2
  <2> QED  BY <2>4, <2>5
<1> QED  BY <1>2, <1>3, <1>4 DEF InMemory

\* What bufstore.flush() does in memory.
LEMMA FlushMemoryIs ==
    ASSUME Types, InMemory, NEW f \in Flushes, NEW ids \in SUBSET Buffers,
           FlushMemory(f, ids)
    PROVE  /\ flushing[f] = "idle" /\ taken[f] = NoJobs /\ wanted[f] = {}
           /\ flushing' = [flushing EXCEPT ![f] = "visiting"]
           /\ wanted' = [wanted EXCEPT ![f] = ids]
           /\ stored' = [b \in Buffers |-> IF b \in ids THEN {} ELSE stored[b]]
           /\ taken' = [taken EXCEPT ![f] =
                           [b \in Buffers |-> IF b \in ids THEN stored[b] ELSE {}]]
           /\ UNCHANGED <<bufferVars, addVars, visited, queued>>
<1>1. taken[f] = NoJobs /\ wanted[f] = {} /\ flushing[f] = "idle"
  BY DEF FlushMemory, InMemory, FlushesAtOnce
<1> QED  BY <1>1 DEF FlushMemory, Take, Clear, Types, NoJobs

\* bufstore.flush(): what it returns is no longer in the store.
LEMMA FlushInMemory ==
    ASSUME Types, InMemory, NEW f \in Flushes, NEW ids \in SUBSET Buffers,
           FlushMemory(f, ids)
    PROVE  InMemory'
<1>1. /\ taken[f] = NoJobs /\ flushing'[f] = "visiting"
      /\ \A g \in Flushes \ {f} : UNCHANGED <<flushing[g], wanted[g], taken[g]>>
      /\ \A b \in Buffers : stored'[b] = IF b \in ids THEN {} ELSE stored[b]
      /\ \A b \in Buffers : taken'[f][b] = IF b \in ids THEN stored[b] ELSE {}
      /\ UNCHANGED <<store, places, collectedBy>>
  <2>1. /\ taken[f] = NoJobs
        /\ flushing' = [flushing EXCEPT ![f] = "visiting"]
        /\ wanted' = [wanted EXCEPT ![f] = ids]
        /\ stored' = [b \in Buffers |-> IF b \in ids THEN {} ELSE stored[b]]
        /\ taken' = [taken EXCEPT ![f] =
                        [b \in Buffers |-> IF b \in ids THEN stored[b] ELSE {}]]
        /\ UNCHANGED <<bufferVars, addVars, visited, queued>>
    BY FlushMemoryIs
  <2> QED  BY <2>1 DEF Types, bufferVars, addVars
<1>2. store' = "memory" /\ FlushesAtOnce'
  <2>1. store' = "memory"
    BY <1>1 DEF InMemory
  <2>2. ASSUME NEW g \in Flushes
        PROVE  /\ flushing'[g] \notin {"scanning", "reading", "deleting"}
               /\ flushing'[g] = "idle" => taken'[g] = NoJobs /\ wanted'[g] = {}
    <3>1. CASE g = f
      BY <1>1, <3>1
    <3>2. CASE g # f
      BY <1>1, <3>2 DEF InMemory, FlushesAtOnce
    <3> QED  BY <3>1, <3>2
  <2> QED  BY <2>1, <2>2 DEF FlushesAtOnce
<1>3. CollectedIsKept'
  <2> SUFFICES ASSUME NEW j \in Jobs, NEW p \in collectedBy[j]
               PROVE  \/ j \in stored'[places[p]]
                      \/ \E g \in Flushes : j \in taken'[g][places[p]]
    BY <1>1 DEF CollectedIsKept
  <2>1. PICK b \in Buffers : b = places[p]
    BY PlacesAre DEF Types
  <2>2. CASE j \in stored[b]
    BY <1>1, <2>1, <2>2
  <2>3. CASE \E g \in Flushes : j \in taken[g][b]
    <3>1. PICK g \in Flushes : j \in taken[g][b]
      BY <2>3
    <3>2. g # f
      BY <1>1, <2>1, <3>1 DEF NoJobs
    <3> QED  BY <1>1, <2>1, <3>1, <3>2
  <2> QED  BY <2>1, <2>2, <2>3 DEF InMemory, CollectedIsKept
<1>4. MemoryTakesOnce'
  <2> SUFFICES ASSUME NEW b \in Buffers, NEW j \in Jobs
               PROVE  Cardinality(TakenBy(b, j)') + InStore(b, j)'
                          <= Cardinality(Collections(b, j)')
    BY <1>1 DEF MemoryTakesOnce
  <2>1. /\ Cardinality(TakenBy(b, j)) + InStore(b, j) <= Cardinality(Collections(b, j))
        /\ Collections(b, j)' = Collections(b, j)
    BY <1>1 DEF InMemory, MemoryTakesOnce, Collections
  <2>2. /\ Cardinality(TakenBy(b, j)) \in Nat /\ Cardinality(Collections(b, j)) \in Nat
        /\ IsFiniteSet(TakenBy(b, j)) /\ InStore(b, j) \in {0, 1}
    BY CountsAre
  <2>3. f \notin TakenBy(b, j)
    BY <1>1 DEF TakenBy, NoJobs
  <2>4. CASE b \in ids /\ j \in stored[b]
    <3>1. TakenBy(b, j)' = TakenBy(b, j) \cup {f}
      BY <1>1, <2>4 DEF TakenBy
    <3>2. Cardinality(TakenBy(b, j)') = Cardinality(TakenBy(b, j)) + 1
      BY <2>2, <2>3, <3>1, FS_AddElement
    <3>3. InStore(b, j) = 1 /\ InStore(b, j)' = 0
      BY <1>1, <2>4 DEF InStore
    <3> QED  BY <2>1, <2>2, <3>2, <3>3
  <2>5. CASE ~(b \in ids /\ j \in stored[b])
    <3>1. TakenBy(b, j)' = TakenBy(b, j)
      BY <1>1, <2>3, <2>5 DEF TakenBy
    <3>2. InStore(b, j)' = InStore(b, j)
      BY <1>1, <2>5 DEF InStore
    <3> QED  BY <2>1, <3>1, <3>2
  <2> QED  BY <2>4, <2>5
<1> QED  BY <1>2, <1>3, <1>4 DEF InMemory

\* A step that leaves the store and the results alone.
LEMMA ElsewhereInMemory ==
    ASSUME Types, InMemory, NEW f \in Flushes,
           UNCHANGED <<store, places, stored, taken, wanted, collectedBy>>,
           \/ flushing' = flushing
           \/ \E pc \in {"visiting", "reducing", "adding", "done", "rejected"} :
                 flushing' = [flushing EXCEPT ![f] = pc]
    PROVE  InMemory'
<1>1. FlushesAtOnce'
  BY DEF Types, InMemory, FlushesAtOnce
<1>2. CollectedIsKept'
  BY DEF InMemory, CollectedIsKept
<1>3. MemoryTakesOnce'
  BY DEF InMemory, MemoryTakesOnce, TakenBy, InStore, Collections
<1> QED  BY <1>1, <1>2, <1>3 DEF InMemory

\* A place more in the list: nothing was collected there.
LEMMA AddBufferInMemory ==
    ASSUME Types, InMemory, NEW b \in Buffers, AddBuffer(b)
    PROVE  InMemory'
<1>1. /\ \A p \in Places : places'[p] = places[p]
      /\ UNCHANGED <<store, stored, taken, wanted, collectedBy, flushing>>
  BY AddBufferAppends DEF AddBuffer, addVars, flushVars
<1>2. FlushesAtOnce'
  BY <1>1 DEF InMemory, FlushesAtOnce
<1>3. \A j \in Jobs : \A p \in collectedBy[j] : places'[p] = places[p]
  BY <1>1 DEF Types
<1>4. CollectedIsKept'
  <2> SUFFICES ASSUME NEW j \in Jobs, NEW p \in collectedBy[j]
               PROVE  \/ j \in stored[places[p]]
                      \/ \E f \in Flushes : j \in taken[f][places[p]]
    BY <1>1, <1>3 DEF CollectedIsKept
  <2> QED  BY DEF InMemory, CollectedIsKept
<1>5. MemoryTakesOnce'
  <2>1. \A c \in Buffers, j \in Jobs :
            /\ TakenBy(c, j)' = TakenBy(c, j)
            /\ InStore(c, j)' = InStore(c, j)
            /\ Collections(c, j)' = Collections(c, j)
    BY <1>1, <1>3 DEF TakenBy, InStore, Collections
  <2> QED  BY <1>1, <2>1 DEF InMemory, MemoryTakesOnce
<1> QED  BY <1>1, <1>2, <1>4, <1>5 DEF InMemory

\* The steps of JobBuffers that a BufStore can see are Collected and FlushMemory.
LEMMA OtherSteps ==
    ASSUME Types, InMemory, Next
    PROVE  \/ \E j \in Jobs : Collected(j)
           \/ \E f \in Flushes, ids \in SUBSET Buffers : FlushMemory(f, ids)
           \/ /\ UNCHANGED <<stored, taken, wanted>> /\ InMemory'
              /\ \A f \in Flushes : flushing'[f] = "idle" <=> flushing[f] = "idle"
<1>1. CASE BufferSteps
  <2>1. UNCHANGED <<store, stored, taken, wanted, collectedBy, flushing>>
    BY <1>1 DEF BufferSteps, AddBuffer, RemoveBuffer, addVars, flushVars
  <2>2. CASE \E b \in Buffers : AddBuffer(b)
    BY <2>1, <2>2, AddBufferInMemory
  <2>3. CASE \E p \in live : RemoveBuffer(p)
    <3>1. places' = places
      BY <2>3 DEF RemoveBuffer
    <3> QED
      BY <2>1, <3>1 DEF InMemory, FlushesAtOnce, CollectedIsKept, MemoryTakesOnce,
                        TakenBy, InStore, Collections
  <2> QED  BY <1>1, <2>2, <2>3 DEF BufferSteps
<1>2. CASE \E j \in Jobs : AddSteps(j) /\ ~Collected(j)
  <2>1. PICK j \in Jobs : AddSteps(j) /\ ~Collected(j)
    BY <1>2
  <2>2. UNCHANGED <<store, places, stored, taken, wanted, collectedBy, flushing>>
    BY <2>1 DEF AddSteps, Add, Declined, CollectThrows, StoreThrows, StoreAnswers,
                Enqueue, EnqueueThrows, bufferVars, flushVars
  <2>3. FlushesAtOnce'
    BY <2>2 DEF InMemory, FlushesAtOnce
  <2>4. CollectedIsKept'
    BY <2>2 DEF InMemory, CollectedIsKept
  <2>5. MemoryTakesOnce'
    <3>1. \A b \in Buffers, i \in Jobs :
              /\ TakenBy(b, i)' = TakenBy(b, i)
              /\ InStore(b, i)' = InStore(b, i)
              /\ Collections(b, i)' = Collections(b, i)
      BY <2>2 DEF TakenBy, InStore, Collections
    <3> QED  BY <2>2, <3>1 DEF InMemory, MemoryTakesOnce
  <2> QED  BY <2>2, <2>3, <2>4, <2>5 DEF InMemory
<1>3. ASSUME NEW f \in Flushes, FlushSteps(f),
             ~ \E ids \in SUBSET Buffers : FlushMemory(f, ids)
      PROVE  /\ UNCHANGED <<stored, taken, wanted>> /\ InMemory'
             /\ \A g \in Flushes : flushing'[g] = "idle" <=> flushing[g] = "idle"
  <2>1. flushing[f] \notin {"scanning", "reading", "deleting"} /\ store # "redis"
    BY DEF InMemory, FlushesAtOnce
  <2>2. Visit(f) \/ Reduce(f) \/ AddReduced(f) \/ AddReducedThrows(f)
    BY <1>3, <2>1
    DEF FlushSteps, FlushRedis, Scan, ReadList, DeleteList, ParseThrows
  <2>3. /\ UNCHANGED <<store, places, stored, taken, wanted, collectedBy>>
        /\ flushing[f] # "idle"
        /\ \/ flushing' = flushing
           \/ \E pc \in {"visiting", "reducing", "adding", "done", "rejected"} :
                 flushing' = [flushing EXCEPT ![f] = pc]
    <3>1. CASE Visit(f)
      BY <3>1 DEF Visit, Visits, bufferVars, addVars
    <3>2. CASE Reduce(f)
      BY <3>2 DEF Reduce, bufferVars, addVars
    <3>3. CASE AddReduced(f)
      BY <3>3 DEF AddReduced, bufferVars, addVars, Types
    <3>4. CASE AddReducedThrows(f)
      BY <3>4 DEF AddReducedThrows, bufferVars, addVars
    <3> QED  BY <2>2, <3>1, <3>2, <3>3, <3>4
  <2>4. \A g \in Flushes : flushing'[g] = "idle" <=> flushing[g] = "idle"
    BY <2>3 DEF Types
  <2> QED  BY <2>3, <2>4, ElsewhereInMemory
<1> QED  BY <1>1, <1>2, <1>3 DEF Next

\* The kind of store never changes.
LEMMA StoreStays == ASSUME Next PROVE store' = store
<1>1. CASE BufferSteps
  BY <1>1 DEF BufferSteps, AddBuffer, RemoveBuffer
<1>2. CASE \E j \in Jobs : AddSteps(j)
  BY <1>2 DEF AddSteps, Add, Declined, Collected, CollectThrows, StoreThrows,
              StoreAnswers, Enqueue, EnqueueThrows, bufferVars
<1>3. ASSUME NEW f \in Flushes, FlushSteps(f) PROVE store' = store
  BY <1>3 DEF FlushSteps, FlushMemory, FlushRedis, Scan, ReadList, DeleteList,
              ParseThrows, Visit, Visits, Reduce, AddReduced, AddReducedThrows, bufferVars
<1> QED  BY <1>1, <1>2, <1>3 DEF Next

LEMMA NextInvariant == IInv /\ [Next]_vars => IInv'
<1> SUFFICES ASSUME IInv, [Next]_vars PROVE IInv'
  OBVIOUS
<1> USE DEF IInv
<1>1. CASE UNCHANGED vars
  <2> USE <1>1 DEF vars, bufferVars, addVars, flushVars
  <2>1. Types'
    BY DEF Types, Places
  <2>2. AsksInOrder' /\ FlushesAtOnce'
    BY DEF AsksInOrder, FlushesAtOnce, Places
  <2>3. MemoryKeeps'
    BY DEF MemoryKeeps, CollectedIsKept
  <2>4. MemoryTakesOnce'
    BY DEF MemoryTakesOnce, TakenBy, InStore, Collections
  <2> QED  BY <2>1, <2>2, <2>3, <2>4
<1>2. CASE Next
  <2>1. Types' /\ AsksInOrder'
    BY <1>2, AddStepsInOrder, BufferStepsInOrder, FlushStepsInOrder DEF Next
  <2>2. store' = store
    BY <1>2, StoreStays
  <2>3. CASE store # "memory"
    BY <2>1, <2>2, <2>3 DEF FlushesAtOnce, MemoryKeeps, MemoryTakesOnce
  <2>4. CASE store = "memory"
    <3>1. InMemory
      BY <2>4 DEF InMemory, MemoryKeeps
    <3>2. InMemory'
      BY <1>2, <3>1, OtherSteps, CollectedInMemory, FlushInMemory
    <3> QED  BY <2>1, <3>2 DEF InMemory, MemoryKeeps
  <2> QED  BY <2>3, <2>4
<1> QED  BY <1>1, <1>2

LEMMA Invariant == Spec => []IInv
BY InitInvariant, NextInvariant, PTL DEF Spec

-----------------------------------------------------------------------------
(* The theorems.                                                           *)

\* In memory a collected job is in the store or in the result of a flush, however
\* the calls of add() and flush() interleave.
THEOREM MemoryKeepsCorrect == Spec => []MemoryKeeps
<1>1. IInv => MemoryKeeps
  BY DEF IInv
<1> QED  BY <1>1, Invariant, PTL

\* In memory a job of a buffer is not in more results and stores than it was
\* collected for the buffer, also when buffers are removed and registered again
\* while add() waits for collect().
THEOREM MemoryTakesOnceCorrect == Spec => []MemoryTakesOnce
<1>1. IInv => MemoryTakesOnce
  BY DEF IInv
<1> QED  BY <1>1, Invariant, PTL

\* A step of the buffers is a step of the abstract store, or changes nothing there.
LEMMA StepRefines ==
    IInv /\ [Next]_vars => [BufStoreNamed!Next]_(BufStoreNamed!vars)
<1> SUFFICES ASSUME IInv, [Next]_vars
             PROVE  [BufStoreNamed!Next]_(BufStoreNamed!vars)
  OBVIOUS
<1> USE DEF IInv
<1>1. CASE UNCHANGED vars
  BY <1>1 DEF vars, bufferVars, flushVars, BufStoreNamed!vars
<1>2. CASE Next /\ store # "memory"
  BY <1>2, StoreStays DEF BufStoreNamed!vars
<1>3. CASE Next /\ store = "memory"
  <2> DEFINE held == IF store = "memory" THEN stored ELSE NoJobs
             given == IF store = "memory" THEN taken ELSE NothingTaken
             over == {f \in Flushes : /\ store = "memory" /\ flushing[f] # "idle"
                                      /\ wanted[f] # {}}
             askedFor == IF store = "memory" THEN wanted ELSE [f \in Flushes |-> {}]
  <2>1. store' = "memory" /\ InMemory
    BY <1>3, StoreStays DEF InMemory, MemoryKeeps
  <2>2. /\ held = stored /\ held' = stored'
        /\ given = taken /\ given' = taken'
        /\ askedFor = wanted /\ askedFor' = wanted'
        /\ over = {f \in Flushes : flushing[f] # "idle" /\ wanted[f] # {}}
        /\ over' = {f \in Flushes : flushing'[f] # "idle" /\ wanted'[f] # {}}
    BY <1>3, <2>1
  <2> HIDE DEF held, given, over, askedFor
  <2>3. ASSUME NEW j \in Jobs, Collected(j)
        PROVE  [BufStoreNamed!Next]_(BufStoreNamed!vars)
    <3>1. PICK b \in Buffers : b = places[asked[j]]
      <4>1. asked[j] \in Places
        BY <2>3 DEF Collected, AsksInOrder
      <4> QED  BY <4>1, PlacesAre
    <3>2. /\ stored' = [stored EXCEPT ![b] = @ \cup {j}]
          /\ UNCHANGED <<taken, wanted, flushing>>
      BY <2>3, <3>1 DEF Collected, flushVars
    <3>3. UNCHANGED <<given, askedFor, over>>
      BY <2>2, <3>2
    <3>4. CASE j \notin stored[b]
      <4>1. BufStoreNamed!Add(b, j)
        BY <2>2, <3>2, <3>3, <3>4 DEF BufStoreNamed!Add, held, given, askedFor, over
      <4> QED  BY <3>1, <4>1 DEF BufStoreNamed!Next
    <3>5. CASE j \in stored[b]
      <4>1. stored' = stored
        BY <3>2, <3>5 DEF Types
      <4> QED
        BY <2>2, <3>3, <4>1 DEF BufStoreNamed!vars, held, given, askedFor, over
    <3> QED  BY <3>4, <3>5
  <2>4. ASSUME NEW f \in Flushes, NEW ids \in SUBSET Buffers, FlushMemory(f, ids)
        PROVE  [BufStoreNamed!Next]_(BufStoreNamed!vars)
    <3>1. /\ flushing[f] = "idle" /\ taken[f] = NoJobs /\ wanted[f] = {}
          /\ flushing' = [flushing EXCEPT ![f] = "visiting"]
          /\ wanted' = [wanted EXCEPT ![f] = ids]
          /\ stored' = [b \in Buffers |-> IF b \in ids THEN {} ELSE stored[b]]
          /\ taken' = [taken EXCEPT ![f] =
                          [b \in Buffers |-> IF b \in ids THEN stored[b] ELSE {}]]
      BY <2>1, <2>4, FlushMemoryIs
    <3>2. CASE ids # {}
      <4>1. over' = over \cup {f} /\ f \notin over
        BY <2>2, <3>1, <3>2 DEF Types
      <4>2. BufStoreNamed!Flush(f, ids)
        BY <2>2, <3>1, <3>2, <4>1 DEF BufStoreNamed!Flush, held, given, askedFor, over
      <4> QED  BY <4>2 DEF BufStoreNamed!Next
    <3>3. CASE ids = {}
      <4>1. stored' = stored
        BY <3>1, <3>3 DEF Types
      <4>2. [b \in Buffers |-> IF b \in ids THEN stored[b] ELSE {}] = NoJobs
        BY <3>3 DEF NoJobs
      <4>3. taken' = taken /\ wanted' = wanted
        BY <3>1, <3>3, <4>2 DEF Types
      <4>4. over' = over
        BY <2>2, <3>1, <3>3, <4>3 DEF Types
      <4> QED
        BY <2>2, <4>1, <4>3, <4>4 DEF BufStoreNamed!vars, held, given, askedFor, over
    <3> QED  BY <3>2, <3>3
  <2>5. CASE /\ UNCHANGED <<stored, taken, wanted>>
             /\ \A f \in Flushes : flushing'[f] = "idle" <=> flushing[f] = "idle"
    <3>1. over' = over
      BY <2>2, <2>5
    <3> QED
      BY <2>2, <2>5, <3>1 DEF BufStoreNamed!vars, held, given, askedFor, over
  <2> QED  BY <1>3, <2>1, <2>3, <2>4, <2>5, OtherSteps
<1> QED  BY <1>1, <1>2, <1>3

\* The store in memory, with add() and flush() of any number of callers, is a
\* BufStore for all calls that name buffers.
THEOREM MemoryIsBufStore == Spec => NamedImplementsBufStore
<1>1. Init => BufStoreNamed!Init
  BY DEF Init, BufStoreNamed!Init, BufStoreNamed!Nothing, NoJobs, NothingTaken
<1> QED
  BY <1>1, StepRefines, Invariant, PTL
  DEF Spec, NamedImplementsBufStore, BufStoreNamed!Spec

-----------------------------------------------------------------------------
(* The rank of a number in a finite set, and what the sorted jobs are.     *)

Rank(j, js) == Cardinality({i \in js : i < j})

LEMMA RankIsBelow ==
    ASSUME NEW js \in SUBSET Nat, IsFiniteSet(js), NEW j \in js
    PROVE  /\ Cardinality(js) \in Nat
           /\ Rank(j, js) \in 0..(Cardinality(js) - 1)
<1> DEFINE lower == {i \in js : i < j}
<1>1. lower \subseteq js \ {j}
  OBVIOUS
<1>2. /\ IsFiniteSet(js \ {j})
      /\ Cardinality(js \ {j}) = Cardinality(js) - 1
      /\ Cardinality(js) \in Nat
  BY FS_RemoveElement, FS_CardinalityType
<1>3. /\ IsFiniteSet(lower) /\ Cardinality(lower) <= Cardinality(js \ {j})
  BY <1>1, <1>2, FS_Subset
<1>4. Cardinality(lower) \in Nat
  BY <1>3, FS_CardinalityType
<1> QED  BY <1>2, <1>3, <1>4 DEF Rank

LEMMA RankGrows ==
    ASSUME NEW js \in SUBSET Nat, IsFiniteSet(js), NEW j \in js, NEW k \in js, j < k
    PROVE  Rank(j, js) < Rank(k, js)
<1> DEFINE lower == {i \in js : i < j}
           higher == {i \in js : i < k}
<1>1. lower \cup {j} \subseteq higher /\ j \notin lower
  <2>1. j \in Nat /\ k \in Nat /\ \A i \in js : i \in Nat
    OBVIOUS
  <2>2. \A i \in js : i < j => i < k
    BY <2>1
  <2>3. ~(j < j)
    BY <2>1
  <2> QED  BY <2>2, <2>3
<1>2. IsFiniteSet(lower) /\ IsFiniteSet(higher)
  BY FS_Subset
<1>3. /\ IsFiniteSet(lower \cup {j})
      /\ Cardinality(lower \cup {j}) = Cardinality(lower) + 1
  BY <1>1, <1>2, FS_AddElement
<1>4. Cardinality(lower \cup {j}) <= Cardinality(higher)
  BY <1>1, <1>2, FS_Subset
<1>5. Cardinality(lower) \in Nat /\ Cardinality(higher) \in Nat
  BY <1>2, FS_CardinalityType
<1> HIDE DEF lower, higher
<1>6. Cardinality(lower) < Cardinality(higher)
  BY <1>3, <1>4, <1>5
<1> QED  BY <1>6 DEF Rank, lower, higher

\* Every rank is taken.
LEMMA RankExists ==
    ASSUME NEW js \in SUBSET Nat, IsFiniteSet(js), NEW n \in 0..(Cardinality(js) - 1)
    PROVE  \E j \in js : Rank(j, js) = n
<1> DEFINE m == Cardinality(js)
           f == [j \in js |-> Rank(j, js)]
<1>1. m \in Nat
  BY FS_CardinalityType
<1>2. f \in [js -> 0..(m - 1)]
  BY RankIsBelow
<1>3. ASSUME NEW j \in js, NEW k \in js, f[j] = f[k] PROVE j = k
  <2>1. Rank(j, js) \in 0..(m - 1) /\ Rank(k, js) \in 0..(m - 1)
    BY RankIsBelow
  <2>2. ~(j < k) /\ ~(k < j)
    BY <1>1, <1>3, <2>1, RankGrows
  <2> QED  BY <2>2
<1>4. IsFiniteSet(0..(m - 1)) /\ Cardinality(0..(m - 1)) = m
  <2>1. 0 \in Int /\ m - 1 \in Int
    BY <1>1
  <2>2. /\ IsFiniteSet(0..(m - 1))
        /\ Cardinality(0..(m - 1)) = IF 0 > m - 1 THEN 0 ELSE (m - 1) - 0 + 1
    BY <2>1, FS_Interval
  <2> HIDE DEF m
  <2>3. (IF 0 > m - 1 THEN 0 ELSE (m - 1) - 0 + 1) = m
    BY <1>1
  <2> QED  BY <2>2, <2>3
<1> HIDE DEF f
<1>5. f \in Injection(js, 0..(m - 1))
  BY <1>2, <1>3, Fun_IsInj
<1>6. f \in Surjection(js, 0..(m - 1))
  BY <1>4, <1>5, FS_Injection
<1>7. \E j \in js : f[j] = n
  BY <1>6 DEF Surjection
<1> QED  BY <1>7 DEF f

\* A batch: sets of jobs, none of them empty and no job in two.
Batches == Seq((SUBSET Jobs) \ {{}})

SplitOf(s, js) ==
    /\ s \in Batches
    /\ \A i \in DOMAIN s : s[i] \subseteq js
    /\ \A i, k \in DOMAIN s : i # k => s[i] \cap s[k] = {}

\* Sorted or as one, all the jobs are in the batch, each of them once.
LEMMA SortBySplits ==
    ASSUME NEW js \in SUBSET Jobs, js # {}, NEW s \in {SortBy(js), <<js>>}
    PROVE  SplitOf(s, js) /\ s # <<>> /\ \A j \in js : \E i \in DOMAIN s : j \in s[i]
<1>1. CASE s = <<js>>
  <2>1. js \in (SUBSET Jobs) \ {{}} /\ DOMAIN s = {1} /\ s[1] = js
    BY <1>1
  <2>2. s \in Batches /\ s # <<>>
    BY <1>1, <2>1 DEF Batches
  <2> QED  BY <2>1, <2>2 DEF SplitOf
<1>2. CASE s = SortBy(js)
  <2> DEFINE n == Cardinality(js)
  <2>1. js \in SUBSET Nat /\ IsFiniteSet(js)
    <3>1. IsFiniteSet(1..JobCount)
      BY FS_Interval, CountAssumption
    <3>2. 1..JobCount \in SUBSET Nat
      BY CountAssumption
    <3>3. js \subseteq 1..JobCount
      BY DEF Jobs
    <3>4. IsFiniteSet(js)
      BY <3>1, <3>3, FS_Subset
    <3> QED  BY <3>2, <3>3, <3>4
  <2>2. n \in Nat /\ n # 0
    BY <2>1, FS_CardinalityType, FS_EmptySet
  <2>3. s = [i \in 1..n |-> {j \in js : Rank(j, js) = i - 1}]
    BY <1>2 DEF SortBy, Rank
  <2> HIDE DEF n
  <2>4. ASSUME NEW i \in 1..n PROVE s[i] \in (SUBSET Jobs) \ {{}}
    <3>1. i - 1 \in 0..(n - 1)
      BY <2>2
    <3>2. \E j \in js : Rank(j, js) = i - 1
      BY <2>1, <3>1, RankExists DEF n
    <3>3. s[i] = {j \in js : Rank(j, js) = i - 1}
      BY <2>3
    <3>4. s[i] \in SUBSET Jobs
      BY <3>3
    <3>5. s[i] # {}
      BY <3>2, <3>3
    <3> QED  BY <3>4, <3>5
  <2>5. s \in Batches
    BY <2>2, <2>3, <2>4 DEF Batches
  <2>6. DOMAIN s = 1..n
    BY <2>3
  <2>7. \A i \in DOMAIN s : s[i] \subseteq js
    BY <2>3, <2>6
  <2>8. ASSUME NEW i \in 1..n, NEW k \in 1..n, i # k
        PROVE  s[i] \cap s[k] = {}
    BY <2>3, <2>8
  <2>9. ASSUME NEW j \in js PROVE \E i \in 1..n : j \in s[i]
    <3>1. Rank(j, js) \in 0..(n - 1)
      BY <2>1, RankIsBelow DEF n
    <3>2. Rank(j, js) + 1 \in 1..n /\ (Rank(j, js) + 1) - 1 = Rank(j, js)
      BY <2>2, <3>1
    <3> QED  BY <2>3, <3>2
  <2>10. s # <<>>
    BY <2>2, <2>6
  <2> QED  BY <2>5, <2>6, <2>7, <2>8, <2>9, <2>10 DEF SplitOf
<1> QED  BY <1>1, <1>2

\* The rest of a batch, place by place.
LEMMA TailIndex ==
    ASSUME NEW js, NEW s, SplitOf(s, js), s # <<>>
    PROVE  \A i \in DOMAIN Tail(s) : i + 1 \in DOMAIN s /\ Tail(s)[i] = s[i + 1]
<1>1. /\ s \in Batches /\ Len(s) \in Nat /\ DOMAIN s = 1..Len(s) /\ Len(s) # 0
  BY LenProperties, EmptySeq DEF SplitOf, Batches
<1>2. /\ Tail(s) \in Batches /\ Len(Tail(s)) = Len(s) - 1
      /\ \A i \in 1..(Len(s) - 1) : Tail(s)[i] = s[i + 1]
  BY <1>1, HeadTailProperties DEF Batches
<1>3. DOMAIN Tail(s) = 1..(Len(s) - 1)
  BY <1>2, LenProperties DEF Batches
<1> QED  BY <1>1, <1>2, <1>3

\* What is left of a batch when its first set has been added.
LEMMA TailSplits ==
    ASSUME NEW js, NEW s, SplitOf(s, js), s # <<>>
    PROVE  /\ Head(s) = s[1] /\ 1 \in DOMAIN s
           /\ Head(s) \subseteq js
           /\ SplitOf(Tail(s), js)
           /\ Len(s) # 1 => Tail(s) # <<>>
           /\ \A j : (\E i \in DOMAIN s : j \in s[i])
                       => j \in Head(s) \/ \E i \in DOMAIN Tail(s) : j \in Tail(s)[i]
           /\ \A j \in Head(s) : \A i \in DOMAIN Tail(s) : j \notin Tail(s)[i]
<1>1. /\ s \in Batches /\ Len(s) \in Nat /\ DOMAIN s = 1..Len(s) /\ Len(s) # 0
  BY LenProperties, EmptySeq DEF SplitOf, Batches
<1>2. /\ Head(s) = s[1] /\ Tail(s) \in Batches /\ Len(Tail(s)) = Len(s) - 1
      /\ \A i \in 1..(Len(s) - 1) : Tail(s)[i] = s[i + 1]
  BY <1>1, HeadTailProperties DEF Batches
<1>3. DOMAIN Tail(s) = 1..(Len(s) - 1)
  BY <1>2, LenProperties DEF Batches
<1>4. 1 \in DOMAIN s /\ Head(s) \subseteq js
  BY <1>1, <1>2 DEF SplitOf
<1>5. ASSUME NEW i \in DOMAIN Tail(s)
      PROVE  i + 1 \in DOMAIN s /\ i + 1 # 1 /\ Tail(s)[i] = s[i + 1]
  BY <1>1, <1>2, <1>3
<1>6. ASSUME NEW i \in DOMAIN Tail(s), NEW k \in DOMAIN Tail(s), i # k
      PROVE  Tail(s)[i] \cap Tail(s)[k] = {}
  <2>1. i + 1 # k + 1
    BY <1>1, <1>3, <1>6
  <2> QED  BY <1>5, <2>1 DEF SplitOf
<1>7. SplitOf(Tail(s), js)
  <2>1. \A i \in DOMAIN Tail(s) : Tail(s)[i] \subseteq js
    BY <1>5 DEF SplitOf
  <2> QED  BY <1>2, <1>6, <2>1 DEF SplitOf
<1>8. \A j \in Head(s) : \A i \in DOMAIN Tail(s) : j \notin Tail(s)[i]
  BY <1>2, <1>4, <1>5 DEF SplitOf
<1>9. ASSUME NEW j, NEW i \in DOMAIN s, j \in s[i]
      PROVE  j \in Head(s) \/ \E k \in DOMAIN Tail(s) : j \in Tail(s)[k]
  <2>1. CASE i = 1
    BY <1>2, <1>9, <2>1
  <2>2. CASE i # 1
    <3>1. i - 1 \in DOMAIN Tail(s) /\ (i - 1) + 1 = i
      BY <1>1, <1>3, <2>2
    <3> QED  BY <1>5, <1>9, <3>1
  <2> QED  BY <2>1, <2>2
<1>10. ASSUME Len(s) # 1 PROVE Tail(s) # <<>>
  <2>1. Len(Tail(s)) # 0
    BY <1>1, <1>2, <1>10
  <2> QED  BY <1>2, <2>1, EmptySeq
<1> QED  BY <1>2, <1>4, <1>5, <1>7, <1>8, <1>9, <1>10

-----------------------------------------------------------------------------
(* Inside a flush().                                                       *)

FlushTypes ==
    /\ store \in Stores
    /\ todo \in [Flushes -> SUBSET Buffers]
    /\ key \in [Flushes -> SUBSET Buffers]
    /\ at \in [Flushes -> 0..Len(places)]
    /\ batch \in [Flushes -> Batches]
    /\ visited \in [Flushes -> SUBSET Places]
    /\ queued \in [Jobs -> Nat]

\* A flush() whose loop has not begun has been nowhere.  The place the loop is at is
\* the last one it visited, the buffer there has jobs in the result, and what is
\* left of the reduced jobs is a part of them.
AtWork(f) ==
    /\ flushing[f] \in {"idle", "scanning", "reading", "deleting"} =>
          at[f] = NoPlace /\ visited[f] = {}
    /\ flushing[f] \in {"visiting", "reducing", "adding"} =>
          \A p \in visited[f] : p <= at[f]
    /\ flushing[f] \in {"reducing", "adding"} =>
          at[f] \in visited[f] /\ taken[f][places[at[f]]] # {}
    /\ flushing[f] = "adding" =>
          batch[f] # <<>> /\ SplitOf(batch[f], taken[f][places[at[f]]])

\* flush() still has to add job j for place p.
Awaited(f, p, j) ==
    /\ p = at[f]
    /\ flushing[f] \in {"reducing", "adding"}
    /\ flushing[f] = "adding" => \E i \in DOMAIN batch[f] : j \in batch[f][i]

\* Of the places the loop has come to, every job it took is queued or awaited.
DeliveredBy(f) ==
    flushing[f] \in {"visiting", "reducing", "adding"} =>
        \A p \in live : p <= at[f] =>
            \A j \in taken[f][places[p]] : queued[j] > 0 \/ Awaited(f, p, j)

FlushInv ==
    /\ FlushTypes
    /\ \A f \in Flushes : AtWork(f) /\ DeliveredBy(f)

LEMMA InitFlushInv == Init => FlushInv
<1> SUFFICES ASSUME Init PROVE FlushInv
  OBVIOUS
<1>1. <<>> \in Batches
  BY EmptySeq DEF Batches
<1>2. FlushTypes
  <2>1. Len(places) = 0
    BY DEF Init
  <2> QED  BY <1>1, <2>1 DEF Init, FlushTypes, NoPlace
<1>3. \A f \in Flushes : AtWork(f) /\ DeliveredBy(f)
  BY DEF Init, AtWork, DeliveredBy
<1> QED  BY <1>2, <1>3 DEF FlushInv

\* A flush() that does not step keeps what is said of it: a place that is added
\* comes after the one its loop is at, and the counts only grow.
LEMMA OtherFlushes ==
    ASSUME Types, FlushInv, NEW f \in Flushes,
           UNCHANGED <<flushing[f], at[f], taken[f], batch[f], visited[f]>>,
           queued' \in [Jobs -> Nat], \A j \in Jobs : queued[j] <= queued'[j],
           \A p \in Places : places'[p] = places[p],
           live' \subseteq live \cup {Len(places) + 1}
    PROVE  AtWork(f)' /\ DeliveredBy(f)'
<1>1. /\ AtWork(f) /\ DeliveredBy(f) /\ FlushTypes
      /\ at[f] \in 0..Len(places) /\ visited[f] \subseteq Places
  BY DEF FlushInv, FlushTypes
<1>2. Len(places) \in Nat /\ live \in SUBSET Nat /\ live \subseteq Places
  BY PlacesAre DEF Types
<1>3. AtWork(f)'
  BY <1>1 DEF AtWork
<1>4. ASSUME flushing[f] \in {"visiting", "reducing", "adding"},
             NEW p \in live', p <= at[f], NEW j \in taken[f][places'[p]]
      PROVE  queued'[j] > 0 \/ Awaited(f, p, j)
  <2>1. p \in live
    BY <1>1, <1>2, <1>4
  <2>2. p \in Places /\ places'[p] = places[p] /\ places[p] \in Buffers
    BY <1>2, <2>1, PlacesAre
  <2>3. queued[j] > 0 \/ Awaited(f, p, j)
    BY <1>1, <1>4, <2>1, <2>2 DEF DeliveredBy
  <2>4. j \in Jobs
    BY <1>4, <2>2 DEF Types
  <2>5. queued[j] \in Nat /\ queued'[j] \in Nat /\ queued[j] <= queued'[j]
    BY <1>1, <2>4 DEF FlushTypes
  <2> QED  BY <2>3, <2>5
<1>5. DeliveredBy(f)'
  <2>1. \A p, j : Awaited(f, p, j)' <=> Awaited(f, p, j)
    BY DEF Awaited
  <2> QED  BY <1>4, <2>1 DEF DeliveredBy
<1> QED  BY <1>3, <1>5

\* The buffers come and go.
LEMMA BufferStepsFlushInv ==
    ASSUME Types, FlushInv, BufferSteps
    PROVE  FlushInv'
<1>1. UNCHANGED <<store, addVars, flushVars, stored, queued>>
  BY DEF BufferSteps, AddBuffer, RemoveBuffer
<1>2. /\ Len(places) \in Nat /\ Len(places') \in Nat /\ Len(places) <= Len(places')
      /\ Places \subseteq Places' /\ \A p \in Places : places'[p] = places[p]
      /\ live' \subseteq live \cup {Len(places) + 1}
  <2>1. Len(places) \in Nat
    BY PlacesAre
  <2>2. CASE \E b \in Buffers : AddBuffer(b)
    <3>1. PICK b \in Buffers : AddBuffer(b)
      BY <2>2
    <3>2. /\ Len(places') = Len(places) + 1 /\ live' = live \cup {Len(places) + 1}
          /\ Places \subseteq Places' /\ \A p \in Places : places'[p] = places[p]
      BY <3>1, AddBufferAppends
    <3> QED  BY <2>1, <3>2
  <2>3. CASE \E p \in live : RemoveBuffer(p)
    BY <2>1, <2>3 DEF RemoveBuffer, Places
  <2> QED  BY <2>2, <2>3 DEF BufferSteps
<1>3. FlushTypes'
  <2>1. 0..Len(places) \subseteq 0..Len(places')
    BY <1>2
  <2>2. FlushTypes
    BY DEF FlushInv
  <2> QED  BY <1>1, <1>2, <2>1, <2>2 DEF FlushTypes, flushVars
<1>4. ASSUME NEW f \in Flushes PROVE AtWork(f)' /\ DeliveredBy(f)'
  <2>1. UNCHANGED <<flushing[f], at[f], taken[f], batch[f], visited[f], queued>>
    BY <1>1 DEF flushVars
  <2>2. queued' \in [Jobs -> Nat] /\ \A j \in Jobs : queued[j] <= queued'[j]
    BY <2>1 DEF FlushInv, FlushTypes
  <2> QED  BY <1>2, <2>1, <2>2, OtherFlushes
<1> QED  BY <1>3, <1>4 DEF FlushInv

\* A call of add().
LEMMA AddStepsFlushInv ==
    ASSUME Types, FlushInv, NEW j \in Jobs, AddSteps(j)
    PROVE  FlushInv'
<1>1. /\ UNCHANGED <<bufferVars, flushVars>>
      /\ queued' \in [Jobs -> Nat] /\ \A i \in Jobs : queued[i] <= queued'[i]
  <2>1. UNCHANGED <<bufferVars, flushVars>> /\ (queued' = queued \/ Enqueue(j))
    BY DEF AddSteps, Add, Declined, Collected, CollectThrows, StoreThrows, StoreAnswers,
           Enqueue, EnqueueThrows
  <2>2. queued \in [Jobs -> Nat]
    BY DEF FlushInv, FlushTypes
  <2>3. CASE queued' = queued
    BY <2>1, <2>2, <2>3
  <2>4. CASE Enqueue(j)
    BY <2>1, <2>2, <2>4 DEF Enqueue
  <2> QED  BY <2>1, <2>3, <2>4
<1>2. FlushTypes'
  BY <1>1 DEF FlushInv, FlushTypes, Places, bufferVars, flushVars
<1>3. ASSUME NEW f \in Flushes PROVE AtWork(f)' /\ DeliveredBy(f)'
  <2>1. UNCHANGED <<flushing[f], at[f], taken[f], batch[f], visited[f], places, live>>
    BY <1>1 DEF flushVars, bufferVars
  <2>2. /\ \A p \in Places : places'[p] = places[p]
        /\ live' \subseteq live \cup {Len(places) + 1}
    BY <2>1
  <2> QED  BY <1>1, <2>1, <2>2, OtherFlushes
<1> QED  BY <1>2, <1>3 DEF FlushInv

\* What one step of a flush() leaves alone: the buffers, the calls of add(), and
\* the other flushes.  The counts grow.
LEMMA FlushFrame ==
    ASSUME Types, FlushInv, NEW f \in Flushes, FlushSteps(f)
    PROVE  /\ UNCHANGED <<bufferVars, addVars>>
           /\ \A g \in Flushes \ {f} :
                 UNCHANGED <<flushing[g], at[g], taken[g], batch[g], visited[g]>>
           /\ queued' \in [Jobs -> Nat] /\ \A j \in Jobs : queued[j] <= queued'[j]
<1>1. FlushTypes
  BY DEF FlushInv
<1>2. UNCHANGED <<bufferVars, addVars>>
  BY DEF FlushSteps, FlushMemory, FlushRedis, Scan, ReadList, DeleteList, ParseThrows,
         Visit, Visits, Reduce, AddReduced, AddReducedThrows
<1>3. /\ \A g \in Flushes \ {f} : flushing'[g] = flushing[g] /\ at'[g] = at[g]
      /\ \A g \in Flushes \ {f} : taken'[g] = taken[g] /\ batch'[g] = batch[g]
      /\ \A g \in Flushes \ {f} : visited'[g] = visited[g]
  <2>1. CASE \E ids \in SUBSET Buffers : FlushMemory(f, ids)
    BY <1>1, <2>1 DEF FlushMemory, Take, Types, FlushTypes
  <2>2. CASE \E ids \in SUBSET Buffers : FlushRedis(f, ids)
    BY <1>1, <2>2 DEF FlushRedis, Types, FlushTypes
  <2>3. CASE Scan(f) \/ Visit(f)
    BY <1>1, <2>3 DEF Scan, Visit, Visits, Types, FlushTypes
  <2>4. CASE ReadList(f)
    BY <1>1, <2>4 DEF ReadList, Take, Types, FlushTypes
  <2>5. CASE DeleteList(f) \/ ParseThrows(f)
    BY <1>1, <2>5 DEF DeleteList, ParseThrows, Types, FlushTypes
  <2>6. CASE Reduce(f)
    BY <1>1, <2>6 DEF Reduce, Types, FlushTypes
  <2>7. CASE AddReduced(f) \/ AddReducedThrows(f)
    BY <1>1, <2>7 DEF AddReduced, AddReducedThrows, Types, FlushTypes
  <2> QED  BY <2>1, <2>2, <2>3, <2>4, <2>5, <2>6, <2>7 DEF FlushSteps
<1>4. queued' \in [Jobs -> Nat] /\ \A j \in Jobs : queued[j] <= queued'[j]
  <2>1. queued \in [Jobs -> Nat]
    BY <1>1 DEF FlushTypes
  <2>2. queued' = queued \/ AddReduced(f)
    BY DEF FlushSteps, FlushMemory, FlushRedis, Scan, ReadList, DeleteList, ParseThrows,
           Visit, Visits, Reduce, AddReducedThrows
  <2>3. CASE AddReduced(f)
    <3>1. PICK work : queued' = [j \in Jobs |-> IF j \in work THEN queued[j] + 1
                                                ELSE queued[j]]
      BY <2>3 DEF AddReduced
    <3> QED  BY <2>1, <3>1
  <2> QED  BY <2>1, <2>2, <2>3
<1> QED  BY <1>2, <1>3, <1>4

\* What a step of a flush() does to its own work: proved step by step below.
Works(f) ==
    /\ todo' \in [Flushes -> SUBSET Buffers]
    /\ key' \in [Flushes -> SUBSET Buffers]
    /\ at' \in [Flushes -> 0..Len(places)]
    /\ batch' \in [Flushes -> Batches]
    /\ visited' \in [Flushes -> SUBSET Places]
    /\ AtWork(f)' /\ DeliveredBy(f)'

\* The steps of the store: the loop has not begun.
LEMMA FetchWorks ==
    ASSUME Types, FlushInv, NEW f \in Flushes,
           \/ \E ids \in SUBSET Buffers : FlushMemory(f, ids) \/ FlushRedis(f, ids)
           \/ Scan(f) \/ ReadList(f) \/ DeleteList(f) \/ ParseThrows(f)
    PROVE  Works(f)
<1>1. FlushTypes /\ AtWork(f)
  BY DEF FlushInv
<1>2. /\ UNCHANGED <<at, batch, visited, live>>
      /\ flushing[f] \in {"idle", "scanning", "reading", "deleting"}
      /\ flushing'[f] \in {"scanning", "reading", "deleting", "visiting", "rejected"}
      /\ todo' \in [Flushes -> SUBSET Buffers] /\ key' \in [Flushes -> SUBSET Buffers]
  <2>1. CASE \E ids \in SUBSET Buffers : FlushMemory(f, ids)
    BY <1>1, <2>1 DEF FlushMemory, Types, FlushTypes, bufferVars
  <2>2. CASE \E ids \in SUBSET Buffers : FlushRedis(f, ids)
    BY <1>1, <2>2 DEF FlushRedis, Types, FlushTypes, bufferVars
  <2>3. CASE Scan(f)
    BY <1>1, <2>3 DEF Scan, Types, FlushTypes, bufferVars
  <2>4. CASE ReadList(f)
    <3>1. PICK b \in todo[f] : key' = [key EXCEPT ![f] = {b}]
      BY <2>4 DEF ReadList
    <3>2. {b} \in SUBSET Buffers
      BY <1>1 DEF FlushTypes
    <3> QED  BY <1>1, <2>4, <3>1, <3>2 DEF ReadList, Types, FlushTypes, bufferVars
  <2>5. CASE DeleteList(f)
    BY <1>1, <2>5 DEF DeleteList, Types, FlushTypes, bufferVars
  <2>6. CASE ParseThrows(f)
    BY <1>1, <2>6 DEF ParseThrows, Types, FlushTypes, bufferVars
  <2> QED  BY <2>1, <2>2, <2>3, <2>4, <2>5, <2>6
<1>3. at[f] = 0 /\ visited[f] = {}
  BY <1>1, <1>2 DEF AtWork, NoPlace
<1>4. AtWork(f)'
  BY <1>2, <1>3 DEF AtWork, NoPlace
<1>5. DeliveredBy(f)'
  <2>1. \A p \in live : ~(p <= 0)
    BY PlacesAre DEF Types, Places
  <2> QED  BY <1>2, <1>3, <2>1 DEF DeliveredBy
<1> QED  BY <1>1, <1>2, <1>4, <1>5 DEF Works, FlushTypes

\* The loop goes on to the next place whose buffer has jobs: those in between have
\* none.
LEMMA VisitIs ==
    ASSUME Types, FlushInv, NEW f \in Flushes, Visit(f)
    PROVE  \E next \in SUBSET live :
               /\ next = {p \in live : at[f] < p /\ taken[f][places[p]] # {}}
               /\ flushing[f] = "visiting"
               /\ UNCHANGED <<bufferVars, addVars, wanted, todo, key, taken, batch, stored,
                              queued>>
               /\ \/ /\ next = {} /\ flushing' = [flushing EXCEPT ![f] = "done"]
                     /\ at' = [at EXCEPT ![f] = 0] /\ visited' = visited
                  \/ \E q \in next :
                        /\ \A p \in next : q <= p
                        /\ flushing' = [flushing EXCEPT ![f] = "reducing"]
                        /\ at' = [at EXCEPT ![f] = q]
                        /\ visited' = [visited EXCEPT ![f] = @ \cup {q}]
<1> DEFINE next == {p \in After(at[f]) : taken[f][places[p]] # {}}
<1>1. next = {p \in live : at[f] < p /\ taken[f][places[p]] # {}}
  BY PlacesAre DEF After, FlushInv, FlushTypes
<1>2. next \in SUBSET live /\ next \in SUBSET Nat
  BY <1>1, PlacesAre
<1>3. Visits(f, next)
  BY DEF Visit
<1> HIDE DEF next
<1>4. CASE next = {}
  BY <1>1, <1>2, <1>3, <1>4 DEF Visits, NoPlace
<1>5. CASE next # {}
  <2>1. Min(next) \in next /\ \A p \in next : Min(next) <= p
    BY <1>2, <1>5, MinIsLeast
  <2> QED  BY <1>1, <1>2, <1>3, <1>5, <2>1 DEF Visits
<1> QED  BY <1>4, <1>5

LEMMA VisitWorks ==
    ASSUME Types, FlushInv, NEW f \in Flushes, Visit(f)
    PROVE  Works(f)
<1>1. FlushTypes /\ AtWork(f) /\ DeliveredBy(f) /\ at[f] \in 0..Len(places)
  BY DEF FlushInv, FlushTypes
<1>2. PICK next \in SUBSET live :
          /\ next = {p \in live : at[f] < p /\ taken[f][places[p]] # {}}
          /\ flushing[f] = "visiting"
          /\ UNCHANGED <<bufferVars, addVars, wanted, todo, key, taken, batch, stored, queued>>
          /\ \/ /\ next = {} /\ flushing' = [flushing EXCEPT ![f] = "done"]
                /\ at' = [at EXCEPT ![f] = 0] /\ visited' = visited
             \/ \E q \in next :
                   /\ \A p \in next : q <= p
                   /\ flushing' = [flushing EXCEPT ![f] = "reducing"]
                   /\ at' = [at EXCEPT ![f] = q]
                   /\ visited' = [visited EXCEPT ![f] = @ \cup {q}]
  BY VisitIs
<1>3. Len(places) \in Nat /\ live \in SUBSET Nat /\ live \subseteq Places
  BY PlacesAre DEF Types
<1>4. UNCHANGED <<places, live, taken, batch, queued>>
  BY <1>2 DEF bufferVars
<1>5. CASE flushing' = [flushing EXCEPT ![f] = "done"] /\ at' = [at EXCEPT ![f] = 0]
           /\ visited' = visited
  <2>1. at' \in [Flushes -> 0..Len(places)]
    BY <1>1, <1>3, <1>5 DEF FlushTypes
  <2>2. flushing'[f] = "done"
    BY <1>5 DEF Types
  <2>3. AtWork(f)' /\ DeliveredBy(f)'
    BY <2>2 DEF AtWork, DeliveredBy
  <2> QED  BY <1>1, <1>2, <1>5, <2>1, <2>3 DEF Works, FlushTypes
<1>6. CASE \E q \in next :
               /\ \A p \in next : q <= p
               /\ flushing' = [flushing EXCEPT ![f] = "reducing"]
               /\ at' = [at EXCEPT ![f] = q]
               /\ visited' = [visited EXCEPT ![f] = @ \cup {q}]
  <2>1. PICK q \in next :
            /\ \A p \in next : q <= p
            /\ flushing' = [flushing EXCEPT ![f] = "reducing"]
            /\ at' = [at EXCEPT ![f] = q]
            /\ visited' = [visited EXCEPT ![f] = @ \cup {q}]
    BY <1>6
  <2>2. q \in Places /\ q \in live /\ at[f] < q /\ taken[f][places[q]] # {}
    BY <1>2, <1>3
  <2>3. q \in 0..Len(places)
    BY <1>3, <2>2 DEF Places
  <2>4. at' \in [Flushes -> 0..Len(places)] /\ at'[f] = q
    BY <1>1, <2>1, <2>3 DEF FlushTypes
  <2>5. visited' \in [Flushes -> SUBSET Places] /\ visited'[f] = visited[f] \cup {q}
    BY <1>1, <2>1, <2>2 DEF FlushTypes
  <2>6. flushing'[f] = "reducing"
    BY <2>1 DEF Types
  <2>7. AtWork(f)'
    <3>1. \A p \in visited[f] : p \in Nat /\ p <= at[f]
      BY <1>1, <1>2, PlacesAre DEF AtWork, FlushTypes
    <3>2. \A p \in visited'[f] : p <= q
      BY <1>1, <1>3, <2>2, <2>3, <2>5, <3>1
    <3> QED  BY <1>4, <2>2, <2>4, <2>5, <2>6, <3>2 DEF AtWork
  <2>8. ASSUME NEW p \in live, p <= q, NEW j \in taken[f][places[p]]
        PROVE  queued[j] > 0 \/ Awaited(f, p, j)'
    <3>1. CASE p <= at[f]
      BY <1>1, <1>2, <2>8, <3>1 DEF DeliveredBy, Awaited
    <3>2. CASE ~(p <= at[f])
      <4>1. p \in Nat /\ at[f] < p
        BY <1>1, <1>3, <3>2
      <4>2. p \in next
        BY <1>2, <2>8, <4>1
      <4>3. q <= p /\ p <= q /\ q \in Nat
        BY <1>3, <2>1, <2>2, <2>8, <4>2
      <4>4. p = q
        BY <4>1, <4>3
      <4> QED  BY <2>4, <2>6, <4>4 DEF Awaited
    <3> QED  BY <3>1, <3>2
  <2>9. DeliveredBy(f)'
    BY <1>4, <2>4, <2>8 DEF DeliveredBy
  <2> QED  BY <1>1, <1>2, <2>4, <2>5, <2>7, <2>9 DEF Works, FlushTypes
<1> QED  BY <1>2, <1>5, <1>6

\* reduce() answers with jobs that stand for all of those it was given.
LEMMA ReduceWorks ==
    ASSUME Types, FlushInv, NEW f \in Flushes, Reduce(f)
    PROVE  Works(f)
<1> DEFINE js == taken[f][places[at[f]]]
<1>1. FlushTypes /\ AtWork(f) /\ DeliveredBy(f)
  BY DEF FlushInv
<1>2. /\ flushing[f] = "reducing" /\ flushing'[f] = "adding"
      /\ UNCHANGED <<places, live, todo, key, at, taken, visited, queued>>
  BY DEF Reduce, Types, bufferVars
<1>3. at[f] \in Places /\ at[f] \in visited[f] /\ js # {} /\ js \in SUBSET Jobs
  <2>1. at[f] \in Places /\ at[f] \in visited[f] /\ js # {}
    BY <1>1, <1>2 DEF AtWork, FlushTypes
  <2> QED  BY <2>1, PlacesAre DEF Types
<1>4. PICK s \in {SortBy(js), <<js>>} : batch' = [batch EXCEPT ![f] = s]
  BY DEF Reduce
<1> HIDE DEF js
<1>5. SplitOf(s, js) /\ s # <<>> /\ \A j \in js : \E i \in DOMAIN s : j \in s[i]
  BY <1>3, SortBySplits
<1>6. batch' \in [Flushes -> Batches] /\ batch'[f] = s
  BY <1>1, <1>4, <1>5 DEF FlushTypes, SplitOf
<1>7. AtWork(f)'
  BY <1>1, <1>2, <1>3, <1>5, <1>6 DEF AtWork, js
<1>8. ASSUME NEW p \in live, p <= at[f], NEW j \in taken[f][places[p]]
      PROVE  queued[j] > 0 \/ Awaited(f, p, j)'
  <2>1. CASE p = at[f]
    BY <1>2, <1>5, <1>6, <1>8, <2>1 DEF Awaited, js
  <2>2. CASE p # at[f]
    BY <1>1, <1>2, <1>8, <2>2 DEF DeliveredBy, Awaited
  <2> QED  BY <2>1, <2>2
<1>9. DeliveredBy(f)'
  BY <1>2, <1>8 DEF DeliveredBy
<1> QED  BY <1>1, <1>2, <1>6, <1>7, <1>9 DEF Works, FlushTypes

\* A job that was awaited is queued now or is still in the batch.
LEMMA AddReducedWorks ==
    ASSUME Types, FlushInv, NEW f \in Flushes, AddReduced(f)
    PROVE  Works(f)
<1> DEFINE s == batch[f]
           js == taken[f][places[at[f]]]
<1>1. FlushTypes /\ AtWork(f) /\ DeliveredBy(f)
  BY DEF FlushInv
<1>2. /\ flushing[f] = "adding"
      /\ flushing'[f] = IF Len(s) = 1 THEN "visiting" ELSE "adding"
      /\ queued' = [j \in Jobs |-> IF j \in Head(s) THEN queued[j] + 1 ELSE queued[j]]
      /\ batch' = [batch EXCEPT ![f] = Tail(s)]
      /\ UNCHANGED <<places, live, todo, key, at, taken, visited>>
  BY DEF AddReduced, Types, bufferVars
<1>3. /\ at[f] \in visited[f] /\ js # {} /\ s # <<>> /\ SplitOf(s, js)
      /\ \A p \in visited[f] : p <= at[f]
  BY <1>1, <1>2 DEF AtWork
<1> HIDE DEF s, js
<1>4. /\ SplitOf(Tail(s), js)
      /\ Len(s) # 1 => Tail(s) # <<>>
      /\ \A j : (\E i \in DOMAIN s : j \in s[i])
                  => j \in Head(s) \/ \E i \in DOMAIN Tail(s) : j \in Tail(s)[i]
  BY <1>3, TailSplits
<1>5. batch' \in [Flushes -> Batches] /\ batch'[f] = Tail(s)
  BY <1>1, <1>2, <1>4 DEF FlushTypes, SplitOf
<1>6. AtWork(f)'
  BY <1>2, <1>3, <1>4, <1>5 DEF AtWork, js
<1>7. ASSUME NEW p \in live, p <= at[f], NEW j \in taken[f][places[p]]
      PROVE  queued'[j] > 0 \/ Awaited(f, p, j)'
  <2>1. places[p] \in Buffers
    BY PlacesAre DEF Types
  <2>2. j \in Jobs /\ queued[j] \in Nat
    BY <1>1, <1>7, <2>1 DEF Types, FlushTypes
  <2>3. CASE queued[j] > 0
    BY <1>2, <2>2, <2>3
  <2>4. CASE Awaited(f, p, j)
    <3>1. p = at[f] /\ (j \in Head(s) \/ \E i \in DOMAIN Tail(s) : j \in Tail(s)[i])
      BY <1>2, <1>4, <2>4 DEF Awaited, s
    <3>2. CASE j \in Head(s)
      BY <1>2, <2>2, <3>2
    <3>3. CASE \E i \in DOMAIN Tail(s) : j \in Tail(s)[i]
      <4>1. Len(s) # 1
        <5>1. s \in Batches /\ Tail(s) \in Batches
          BY <1>3, <1>4 DEF SplitOf
        <5>2. Len(Tail(s)) = Len(s) - 1 /\ DOMAIN Tail(s) = 1..Len(Tail(s))
          BY <1>3, <5>1, HeadTailProperties, LenProperties DEF Batches
        <5>3. ASSUME Len(s) = 1 PROVE DOMAIN Tail(s) = {}
          <6>1. Len(Tail(s)) = 0
            BY <5>2, <5>3
          <6>2. DOMAIN Tail(s) = 1..0
            BY <5>2, <6>1
          <6> QED  BY <6>2
        <5> QED  BY <3>3, <5>3
      <4> QED  BY <1>2, <1>5, <3>1, <3>3, <4>1 DEF Awaited
    <3> QED  BY <3>1, <3>2, <3>3
  <2> QED  BY <1>1, <1>2, <1>7, <2>3, <2>4 DEF DeliveredBy
<1>8. DeliveredBy(f)'
  BY <1>2, <1>7 DEF DeliveredBy
<1> QED  BY <1>1, <1>2, <1>5, <1>6, <1>8 DEF Works, FlushTypes

LEMMA AddReducedThrowsWorks ==
    ASSUME Types, FlushInv, NEW f \in Flushes, AddReducedThrows(f)
    PROVE  Works(f)
<1>1. FlushTypes
  BY DEF FlushInv
<1>2. <<>> \in Batches /\ NoPlace \in 0..Len(places)
  BY EmptySeq, PlacesAre DEF Batches, NoPlace
<1>3. /\ flushing'[f] = "rejected"
      /\ at' = [at EXCEPT ![f] = NoPlace] /\ batch' = [batch EXCEPT ![f] = <<>>]
      /\ UNCHANGED <<todo, key, taken, visited>>
  BY DEF AddReducedThrows, Types
<1>4. AtWork(f)' /\ DeliveredBy(f)'
  BY <1>3 DEF AtWork, DeliveredBy
<1> QED  BY <1>1, <1>2, <1>3, <1>4 DEF Works, FlushTypes

\* A call of flush().
LEMMA FlushStepsFlushInv ==
    ASSUME Types, FlushInv, NEW f \in Flushes, FlushSteps(f)
    PROVE  FlushInv'
<1>1. Works(f)
  BY FetchWorks, VisitWorks, ReduceWorks, AddReducedWorks, AddReducedThrowsWorks
  DEF FlushSteps
<1>2. /\ UNCHANGED <<bufferVars, addVars>>
      /\ \A g \in Flushes \ {f} :
            UNCHANGED <<flushing[g], at[g], taken[g], batch[g], visited[g]>>
      /\ queued' \in [Jobs -> Nat] /\ \A j \in Jobs : queued[j] <= queued'[j]
  BY FlushFrame
<1>3. FlushTypes'
  BY <1>1, <1>2 DEF FlushInv, FlushTypes, Works, Places, bufferVars
<1>4. ASSUME NEW g \in Flushes PROVE AtWork(g)' /\ DeliveredBy(g)'
  <2>1. CASE g = f
    BY <1>1, <2>1 DEF Works
  <2>2. CASE g # f
    <3>1. /\ \A p \in Places : places'[p] = places[p]
          /\ live' \subseteq live \cup {Len(places) + 1}
      BY <1>2 DEF bufferVars
    <3> QED  BY <1>2, <2>2, <3>1, OtherFlushes
  <2> QED  BY <2>1, <2>2
<1> QED  BY <1>3, <1>4 DEF FlushInv

LEMMA NextFlushInv == IInv /\ FlushInv /\ [Next]_vars => FlushInv'
<1> SUFFICES ASSUME IInv, FlushInv, [Next]_vars PROVE FlushInv'
  OBVIOUS
<1>1. CASE UNCHANGED vars
  BY <1>1 DEF vars, bufferVars, addVars, flushVars, FlushInv, FlushTypes, Places,
              AtWork, DeliveredBy, Awaited
<1>2. CASE Next
  BY <1>2, BufferStepsFlushInv, AddStepsFlushInv, FlushStepsFlushInv DEF Next, IInv
<1> QED  BY <1>1, <1>2

LEMMA FlushInvariant == Spec => []FlushInv
BY InitFlushInv, NextFlushInv, Invariant, PTL DEF Spec

\* Every value has its type, also while batches shrink and buffers come, go and come
\* back.
THEOREM TypeCorrect == Spec => []TypeOK
<1>1. IInv /\ FlushInv => TypeOK
  BY DEF IInv, FlushInv, Types, FlushTypes, TypeOK, Batches, Places
<1> QED  BY <1>1, Invariant, FlushInvariant, PTL

\* A step that ends a flush() is the one of its loop that finds no buffer left.
LEMMA DoneByVisit ==
    ASSUME IInv, FlushInv, Next, NEW f \in Flushes, flushing[f] # "done",
           flushing'[f] = "done"
    PROVE  Visit(f)
<1>1. Types
  BY DEF IInv
<1>2. ~BufferSteps
  BY DEF BufferSteps, AddBuffer, RemoveBuffer, flushVars
<1>3. \A j \in Jobs : ~AddSteps(j)
  BY DEF AddSteps, Add, Declined, Collected, CollectThrows, StoreThrows, StoreAnswers,
         Enqueue, EnqueueThrows, flushVars
<1>4. PICK g \in Flushes : FlushSteps(g)
  BY <1>2, <1>3 DEF Next
<1>5. g = f
  BY <1>1, <1>4, FlushFrame
<1>6. ASSUME ~Visit(f) PROVE flushing'[f] # "done"
  BY <1>1, <1>4, <1>5, <1>6
  DEF FlushSteps, FlushMemory, FlushRedis, Scan, ReadList, DeleteList, ParseThrows,
      Reduce, AddReduced, AddReducedThrows, Types
<1> QED  BY <1>6

\* A flush() that resolves has queued all it took from the buffers that are
\* registered then, whatever was added, removed, registered again, collected or
\* reduced meanwhile.
THEOREM FlushDeliversCorrect == Spec => FlushDelivers
<1>1. ASSUME IInv, FlushInv, [Next]_vars
      PROVE  [\A f \in Flushes : flushing[f] # "done" /\ flushing'[f] = "done" =>
                 \A p \in live : \A j \in taken[f][places[p]] : queued[j] > 0]_vars
  <2> SUFFICES ASSUME Next, NEW f \in Flushes, flushing[f] # "done",
                      flushing'[f] = "done", NEW p \in live,
                      NEW j \in taken[f][places[p]]
               PROVE  queued[j] > 0
    BY <1>1
  <2>1. Types /\ Visit(f) /\ DeliveredBy(f)
    BY <1>1, DoneByVisit DEF IInv, FlushInv
  <2>2. PICK next \in SUBSET live :
            /\ next = {q \in live : at[f] < q /\ taken[f][places[q]] # {}}
            /\ flushing[f] = "visiting"
            /\ \/ next = {}
               \/ flushing' = [flushing EXCEPT ![f] = "reducing"]
    BY <1>1, <2>1, VisitIs
  <2>3. next = {}
    BY <2>1, <2>2 DEF Types
  <2>4. ~(at[f] < p)
    BY <2>2, <2>3
  <2>5. p <= at[f]
    <3>1. p \in Nat /\ at[f] \in 0..Len(places) /\ Len(places) \in Nat
      BY <1>1, <2>1, PlacesAre DEF FlushInv, FlushTypes
    <3> QED  BY <2>4, <3>1
  <2> QED  BY <2>1, <2>2, <2>5 DEF DeliveredBy, Awaited
<1> QED  BY <1>1, Invariant, FlushInvariant, PTL DEF Spec, FlushDelivers


-----------------------------------------------------------------------------
(* The work of a job in memory: queued once for every visit of a flush()   *)
(* that took the job to a place of its buffer.                             *)

\* The visits of job j that are over: the loop has handed the job over, or failed.
Handed(j) ==
    {v \in Flushes \X Places :
        /\ v[2] \in visited[v[1]]
        /\ j \in taken[v[1]][places[v[2]]]
        /\ ~Awaited(v[1], v[2], j)}

Enqueued(j) == IF adding[j] = "queued" THEN 1 ELSE 0

\* A job is enqueued by its own add() only when no buffer collected it.
EnqueuedAlone ==
    \A j \in Jobs :
        adding[j] \in {"enqueueing", "queued", "swallowed"} => collectedBy[j] = {}

OncePerVisit ==
    store = "memory" =>
        \A j \in Jobs : queued[j] <= Cardinality(Handed(j)) + Enqueued(j)

OnceInv == EnqueuedAlone /\ OncePerVisit

\* Visits are finitely many, and more of them count for more.
LEMMA VisitsAreFinite ==
    ASSUME Types, NEW S, S \subseteq Flushes \X Places
    PROVE  IsFiniteSet(S) /\ Cardinality(S) \in Nat
<1>1. IsFiniteSet(Places)
  BY PlacesAre, FS_Interval DEF Places
<1>2. IsFiniteSet(Flushes \X Places)
  BY <1>1, FlushesAssumption, FS_Product
<1>3. IsFiniteSet(S)
  BY <1>2, FS_Subset
<1> QED  BY <1>3, FS_CardinalityType

LEMMA VisitsGrow ==
    ASSUME Types, NEW T, T \subseteq Flushes \X Places, NEW S, S \subseteq T
    PROVE  Cardinality(S) <= Cardinality(T)
BY VisitsAreFinite, FS_Subset

LEMMA InitOnceInv == Init => OnceInv
<1> SUFFICES ASSUME Init PROVE OnceInv
  OBVIOUS
<1>1. EnqueuedAlone
  BY DEF Init, EnqueuedAlone
<1>2. ASSUME NEW j \in Jobs PROVE queued[j] <= Cardinality(Handed(j)) + Enqueued(j)
  <2>1. Cardinality(Handed(j)) \in Nat
    <3>1. Types
      BY InitInvariant DEF IInv
    <3> QED  BY <3>1, VisitsAreFinite DEF Handed
  <2>2. queued[j] = 0 /\ Enqueued(j) = 0
    BY DEF Init, Enqueued
  <2> QED  BY <2>1, <2>2
<1> QED  BY <1>1, <1>2 DEF OnceInv, OncePerVisit

\* The calls of add(): one that enqueues its job has no buffer to its name.
LEMMA EnqueuedAloneStays ==
    ASSUME Types, AsksInOrder, EnqueuedAlone, Next
    PROVE  EnqueuedAlone'
<1>1. CASE BufferSteps
  BY <1>1 DEF BufferSteps, AddBuffer, RemoveBuffer, addVars, EnqueuedAlone
<1>2. ASSUME NEW f \in Flushes, FlushSteps(f) PROVE EnqueuedAlone'
  <2>1. UNCHANGED addVars
    BY <1>2 DEF FlushSteps, FlushMemory, FlushRedis, Scan, ReadList, DeleteList,
                ParseThrows, Visit, Visits, Reduce, AddReduced, AddReducedThrows
  <2> QED  BY <2>1 DEF addVars, EnqueuedAlone
<1>3. ASSUME NEW j \in Jobs, AddSteps(j) PROVE EnqueuedAlone'
  <2>1. CASE Add(j)
    <3>1. AskAfter(j, NoPlace, {}) /\ collectedBy' = collectedBy /\ collectedBy[j] = {}
      BY <2>1 DEF Add, AsksInOrder
    <3>2. PICK pc \in {"asking", "enqueueing", "buffered"} :
              adding' = [adding EXCEPT ![j] = pc]
      BY <3>1 DEF AskAfter
    <3> QED  BY <3>1, <3>2 DEF EnqueuedAlone, Types
  <2>2. CASE Declined(j) \/ StoreAnswers(j)
    <3>1. AskAfter(j, asked[j], collectedBy[j]) /\ collectedBy' = collectedBy
      BY <2>2 DEF Declined, StoreAnswers
    <3>2. PICK pc \in {"asking", "enqueueing", "buffered"} :
              /\ adding' = [adding EXCEPT ![j] = pc]
              /\ pc = "enqueueing" => collectedBy[j] = {}
      BY <3>1 DEF AskAfter
    <3> QED  BY <3>1, <3>2 DEF EnqueuedAlone, Types
  <2>3. CASE Collected(j)
    BY <2>3 DEF Collected, EnqueuedAlone, Types
  <2>4. CASE CollectThrows(j) \/ StoreThrows(j)
    BY <2>4 DEF CollectThrows, StoreThrows, EnqueuedAlone, Types
  <2>5. CASE Enqueue(j) \/ EnqueueThrows(j)
    BY <2>5 DEF Enqueue, EnqueueThrows, EnqueuedAlone, Types
  <2> QED  BY <1>3, <2>1, <2>2, <2>3, <2>4, <2>5 DEF AddSteps
<1> QED  BY <1>1, <1>2, <1>3 DEF Next

\* What a flush() is through with, it stays through with.
LEMMA HandledStays ==
    ASSUME Types, FlushInv, FlushesAtOnce, store = "memory", NEW f \in Flushes,
           FlushSteps(f), NEW p \in visited[f], NEW j \in taken[f][places[p]],
           ~Awaited(f, p, j)
    PROVE  p \in visited'[f] /\ j \in taken'[f][places[p]] /\ ~Awaited(f, p, j)'
<1>1. FlushTypes /\ AtWork(f)
  BY DEF FlushInv
<1>2. flushing[f] \notin {"idle", "scanning", "reading", "deleting"}
  BY <1>1 DEF AtWork
<1>3. Visit(f) \/ Reduce(f) \/ AddReduced(f) \/ AddReducedThrows(f)
  BY <1>2 DEF FlushSteps, FlushMemory, FlushRedis, Scan, ReadList, DeleteList, ParseThrows
<1>4. CASE Visit(f)
  <2>1. PICK next \in SUBSET live :
            /\ next = {q \in live : at[f] < q /\ taken[f][places[q]] # {}}
            /\ flushing[f] = "visiting" /\ taken' = taken
            /\ \/ /\ next = {} /\ flushing' = [flushing EXCEPT ![f] = "done"]
                  /\ at' = [at EXCEPT ![f] = 0] /\ visited' = visited
               \/ \E q \in next :
                     /\ flushing' = [flushing EXCEPT ![f] = "reducing"]
                     /\ at' = [at EXCEPT ![f] = q]
                     /\ visited' = [visited EXCEPT ![f] = @ \cup {q}]
    BY <1>4, VisitIs
  <2>2. p <= at[f] /\ p \in Nat /\ at[f] \in Nat
    BY <1>1, <2>1, PlacesAre DEF AtWork, FlushTypes
  <2>3. CASE flushing' = [flushing EXCEPT ![f] = "done"] /\ visited' = visited
    BY <2>1, <2>3 DEF Awaited, Types
  <2>4. CASE \E q \in next :
                 /\ flushing' = [flushing EXCEPT ![f] = "reducing"]
                 /\ at' = [at EXCEPT ![f] = q]
                 /\ visited' = [visited EXCEPT ![f] = @ \cup {q}]
    <3>1. PICK q \in next : /\ at' = [at EXCEPT ![f] = q]
                            /\ visited' = [visited EXCEPT ![f] = @ \cup {q}]
      BY <2>4
    <3>2. at[f] < q /\ q \in Nat
      BY <2>1, PlacesAre
    <3>3. p # q
      BY <2>2, <3>2
    <3> QED  BY <1>1, <2>1, <3>1, <3>3 DEF Awaited, FlushTypes
  <2> QED  BY <2>1, <2>3, <2>4
<1>5. CASE Reduce(f)
  <2>1. flushing[f] = "reducing" /\ UNCHANGED <<at, taken, visited>>
    BY <1>5 DEF Reduce
  <2> QED  BY <2>1 DEF Awaited
<1>6. CASE AddReduced(f)
  <2>1. /\ flushing[f] = "adding" /\ flushing'[f] \in {"adding", "visiting"}
        /\ UNCHANGED <<at, taken, visited>> /\ batch'[f] = Tail(batch[f])
    BY <1>1, <1>6 DEF AddReduced, Types, FlushTypes
  <2>2. SplitOf(batch[f], taken[f][places[at[f]]]) /\ batch[f] # <<>>
    BY <1>1, <2>1 DEF AtWork
  <2>3. \A i \in DOMAIN Tail(batch[f]) :
            i + 1 \in DOMAIN batch[f] /\ Tail(batch[f])[i] = batch[f][i + 1]
    BY <2>2, TailIndex
  <2>4. Awaited(f, p, j)' => Awaited(f, p, j)
    <3> SUFFICES ASSUME Awaited(f, p, j)' PROVE Awaited(f, p, j)
      OBVIOUS
    <3>1. p = at[f] /\ flushing'[f] = "adding"
      BY <2>1 DEF Awaited
    <3>2. PICK i \in DOMAIN Tail(batch[f]) : j \in Tail(batch[f])[i]
      BY <2>1, <3>1 DEF Awaited
    <3>3. j \in batch[f][i + 1] /\ i + 1 \in DOMAIN batch[f]
      BY <2>3, <3>2
    <3> QED  BY <2>1, <3>1, <3>3 DEF Awaited
  <2> QED  BY <2>1, <2>4
<1>7. CASE AddReducedThrows(f)
  BY <1>7 DEF AddReducedThrows, Awaited, Types
<1> QED  BY <1>3, <1>4, <1>5, <1>6, <1>7

\* The visits that are over stay over.
LEMMA HandedStays ==
    ASSUME Types, FlushInv, FlushesAtOnce, store = "memory",
           NEW f \in Flushes, FlushSteps(f), NEW j \in Jobs
    PROVE  Handed(j) \subseteq Handed(j)'
<1> SUFFICES ASSUME NEW v \in Handed(j) PROVE v \in Handed(j)'
  OBVIOUS
<1>1. PICK g \in Flushes, p \in Places :
          /\ v = <<g, p>> /\ p \in visited[g] /\ j \in taken[g][places[p]]
          /\ ~Awaited(g, p, j)
  BY DEF Handed
<1>2. /\ UNCHANGED <<bufferVars, addVars>>
      /\ \A h \in Flushes \ {f} :
            UNCHANGED <<flushing[h], at[h], taken[h], batch[h], visited[h]>>
  BY FlushFrame
<1>3. places' = places /\ Places' = Places
  BY <1>2 DEF bufferVars, Places
<1>4. p \in visited'[g] /\ j \in taken'[g][places[p]] /\ ~Awaited(g, p, j)'
  <2>1. CASE g = f
    BY <1>1, <2>1, HandledStays
  <2>2. CASE g # f
    BY <1>1, <1>2, <2>2 DEF Awaited
  <2> QED  BY <2>1, <2>2
<1> QED  BY <1>1, <1>3, <1>4 DEF Handed

\* A job that AddReduced queues was not handed over on this visit before.
LEMMA AddReducedHands ==
    ASSUME Types, FlushInv, NEW f \in Flushes, AddReduced(f), NEW j \in Head(batch[f])
    PROVE  <<f, at[f]>> \in Handed(j)' \ Handed(j)
<1>1. /\ flushing[f] = "adding" /\ flushing'[f] \in {"adding", "visiting"}
      /\ UNCHANGED <<places, at, taken, visited>> /\ batch'[f] = Tail(batch[f])
  BY DEF AddReduced, Types, FlushInv, FlushTypes, bufferVars
<1>2. /\ at[f] \in visited[f] /\ at[f] \in Places
      /\ SplitOf(batch[f], taken[f][places[at[f]]]) /\ batch[f] # <<>>
  BY <1>1 DEF FlushInv, FlushTypes, AtWork
<1>3. /\ Head(batch[f]) = batch[f][1] /\ 1 \in DOMAIN batch[f]
      /\ Head(batch[f]) \subseteq taken[f][places[at[f]]]
      /\ \A i \in DOMAIN Tail(batch[f]) : j \notin Tail(batch[f])[i]
  BY <1>2, TailSplits
<1>4. j \in taken[f][places[at[f]]] /\ Awaited(f, at[f], j)
  BY <1>1, <1>3 DEF Awaited
<1>5. ~Awaited(f, at[f], j)'
  <2>1. \A i \in DOMAIN batch'[f] : j \notin batch'[f][i]
    BY <1>1, <1>3
  <2> QED  BY <1>1, <2>1 DEF Awaited
<1>6. Places' = Places
  BY <1>1 DEF Places
<1>7. <<f, at[f]>> \in Handed(j)'
  BY <1>1, <1>2, <1>4, <1>5, <1>6 DEF Handed
<1>8. <<f, at[f]>> \notin Handed(j)
  BY <1>4 DEF Handed
<1> QED  BY <1>7, <1>8

\* Places that are added change nothing of the visits there were.
LEMMA HandedByOthers ==
    ASSUME Types, FlushInv, Next, NEW j \in Jobs, UNCHANGED flushVars
    PROVE  Handed(j) \subseteq Handed(j)'
<1>1. Places \subseteq Places' /\ \A p \in Places : places'[p] = places[p]
  BY PlacesGrow
<1>2. \A f, p : Awaited(f, p, j)' <=> Awaited(f, p, j)
  BY DEF Awaited, flushVars
<1> QED  BY <1>1, <1>2 DEF Handed, flushVars

LEMMA NextOnceInv ==
    IInv /\ FlushInv /\ IInv' /\ FlushInv' /\ OnceInv /\ [Next]_vars => OnceInv'
<1> SUFFICES ASSUME IInv, FlushInv, IInv', FlushInv', OnceInv, [Next]_vars PROVE OnceInv'
  OBVIOUS
<1>1. Types /\ Types' /\ AsksInOrder /\ FlushesAtOnce /\ EnqueuedAlone
  BY DEF IInv, OnceInv
<1>2. CASE UNCHANGED vars
  <2>1. \A j \in Jobs : Handed(j)' = Handed(j) /\ Enqueued(j)' = Enqueued(j)
    BY <1>2 DEF vars, bufferVars, addVars, flushVars, Handed, Awaited, Enqueued, Places
  <2> QED
    BY <1>2, <2>1
    DEF vars, bufferVars, addVars, OnceInv, EnqueuedAlone, OncePerVisit
<1>3. CASE Next /\ store # "memory"
  <2>1. store' # "memory"
    BY <1>3, StoreStays
  <2> QED  BY <1>1, <1>3, <2>1, EnqueuedAloneStays DEF OnceInv, OncePerVisit
<1>4. CASE Next /\ store = "memory"
  <2>1. EnqueuedAlone'
    BY <1>1, <1>4, EnqueuedAloneStays
  <2>2. ASSUME NEW j \in Jobs
        PROVE  queued'[j] <= Cardinality(Handed(j)') + Enqueued(j)'
    <3>1. /\ queued[j] <= Cardinality(Handed(j)) + Enqueued(j)
          /\ queued[j] \in Nat /\ queued'[j] \in Nat
      BY <1>4 DEF OnceInv, OncePerVisit, FlushInv, FlushTypes
    <3>2. Handed(j) \subseteq Handed(j)'
      <4>1. CASE BufferSteps
        <5>1. UNCHANGED flushVars
          BY <4>1 DEF BufferSteps, AddBuffer, RemoveBuffer
        <5> QED  BY <1>1, <1>4, <5>1, HandedByOthers
      <4>2. CASE \E i \in Jobs : AddSteps(i)
        <5>1. UNCHANGED flushVars
          BY <4>2 DEF AddSteps, Add, Declined, Collected, CollectThrows, StoreThrows,
                      StoreAnswers, Enqueue, EnqueueThrows
        <5> QED  BY <1>1, <1>4, <5>1, HandedByOthers
      <4>3. CASE \E f \in Flushes : FlushSteps(f)
        BY <1>1, <1>4, <4>3, HandedStays
      <4> QED  BY <1>4, <4>1, <4>2, <4>3 DEF Next
    <3>3. PICK G : G = Handed(j)' /\ G \subseteq Flushes \X Places'
      BY DEF Handed
    <3>4. PICK H : H = Handed(j) /\ H \subseteq Flushes \X Places
      BY DEF Handed
    <3>5. H \subseteq G /\ \A S : S \subseteq G => IsFiniteSet(S) /\ Cardinality(S) \in Nat
      <4>1. \A S : S \subseteq G => S \subseteq Flushes \X Places'
        BY <3>3
      <4>2. IsFiniteSet(G)
        <5>1. Len(places') \in Nat
          BY <1>1, LenProperties DEF Types
        <5>2. IsFiniteSet(Places')
          BY <5>1, FS_Interval DEF Places
        <5>3. IsFiniteSet(Flushes \X Places')
          BY <5>2, FlushesAssumption, FS_Product
        <5> QED  BY <3>3, <5>3, FS_Subset
      <4>3. \A S : S \subseteq G => IsFiniteSet(S)
        BY <4>2, FS_Subset
      <4> QED  BY <3>2, <3>3, <3>4, <4>3, FS_CardinalityType
    <3>6. Cardinality(H) \in Nat /\ Cardinality(G) \in Nat /\ IsFiniteSet(H)
      BY <3>5
    <3>7. Cardinality(H) <= Cardinality(G)
      BY <3>5, FS_Subset
    <3>8. queued[j] <= Cardinality(H) + Enqueued(j)
      BY <3>1, <3>4
    <3> SUFFICES queued'[j] <= Cardinality(G) + Enqueued(j)'
      BY <3>3
    <3>9. Enqueued(j) \in {0, 1} /\ Enqueued(j)' \in {0, 1}
      BY DEF Enqueued
    <3>10. CASE BufferSteps
      <4>1. UNCHANGED <<addVars, queued>>
        BY <3>10 DEF BufferSteps, AddBuffer, RemoveBuffer
      <4>2. Enqueued(j)' = Enqueued(j) /\ queued'[j] = queued[j]
        BY <4>1 DEF Enqueued, addVars
      <4> QED  BY <3>1, <3>6, <3>7, <3>8, <3>9, <4>2
    <3>11. ASSUME NEW i \in Jobs, AddSteps(i)
           PROVE  queued'[j] <= Cardinality(G) + Enqueued(j)'
      <4>1. CASE Enqueue(i) /\ i = j
        <5>1. /\ adding[j] = "enqueueing" /\ adding'[j] = "queued"
              /\ queued'[j] = queued[j] + 1
          BY <1>1, <4>1 DEF Enqueue, Types, FlushInv, FlushTypes
        <5>2. Enqueued(j) = 0 /\ Enqueued(j)' = 1
          BY <5>1 DEF Enqueued
        <5> QED  BY <3>1, <3>6, <3>7, <3>8, <5>1, <5>2
      <4>2. CASE ~(Enqueue(i) /\ i = j)
        <5>1. queued'[j] = queued[j]
          BY <3>11, <4>2 DEF AddSteps, Add, Declined, Collected, CollectThrows, StoreThrows,
                             StoreAnswers, Enqueue, EnqueueThrows, FlushInv, FlushTypes
        <5>2. adding[j] = "queued" => adding'[j] = "queued"
          <6>1. CASE i = j
            BY <3>11, <6>1 DEF AddSteps, Add, Declined, Collected, CollectThrows,
                               StoreThrows, StoreAnswers, Enqueue, EnqueueThrows
          <6>2. CASE i # j
            BY <1>1, <3>11, <6>2
            DEF AddSteps, Add, Declined, Collected, CollectThrows, StoreThrows,
                StoreAnswers, Enqueue, EnqueueThrows, AskAfter, Types
          <6> QED  BY <6>1, <6>2
        <5>3. Enqueued(j) <= Enqueued(j)'
          BY <5>2 DEF Enqueued
        <5> QED  BY <3>1, <3>6, <3>7, <3>8, <3>9, <5>1, <5>3
      <4> QED  BY <4>1, <4>2
    <3>12. ASSUME NEW f \in Flushes, FlushSteps(f)
           PROVE  queued'[j] <= Cardinality(G) + Enqueued(j)'
      <4>1. Enqueued(j)' = Enqueued(j)
        <5>1. UNCHANGED addVars
          BY <1>1, <3>12, FlushFrame
        <5> QED  BY <5>1 DEF addVars, Enqueued
      <4>2. CASE AddReduced(f) /\ j \in Head(batch[f])
        <5>1. queued'[j] = queued[j] + 1
          BY <4>2 DEF AddReduced
        <5>2. <<f, at[f]>> \in G \ H
          BY <1>1, <3>3, <3>4, <4>2, AddReducedHands
        <5>3. Cardinality(H \cup {<<f, at[f]>>}) = Cardinality(H) + 1
          BY <3>6, <5>2, FS_AddElement
        <5>4. H \cup {<<f, at[f]>>} \subseteq G /\ IsFiniteSet(G)
          BY <3>5, <5>2
        <5>5. Cardinality(H) + 1 <= Cardinality(G)
          BY <5>3, <5>4, FS_Subset
        <5> QED  BY <3>1, <3>6, <3>8, <3>9, <4>1, <5>1, <5>5
      <4>3. CASE ~(AddReduced(f) /\ j \in Head(batch[f]))
        <5>1. queued'[j] = queued[j]
          BY <3>12, <4>3
          DEF FlushSteps, FlushMemory, FlushRedis, Scan, ReadList, DeleteList, ParseThrows,
              Visit, Visits, Reduce, AddReduced, AddReducedThrows
        <5> QED  BY <3>1, <3>6, <3>7, <3>8, <3>9, <4>1, <5>1
      <4> QED  BY <4>2, <4>3
    <3> QED  BY <1>4, <3>10, <3>11, <3>12 DEF Next
  <2>3. OncePerVisit'
    BY <2>2 DEF OncePerVisit
  <2> QED  BY <2>1, <2>3 DEF OnceInv
<1> QED  BY <1>2, <1>3, <1>4

LEMMA OnceInvariant == Spec => []OnceInv
<1>1. Init => OnceInv
  BY InitOnceInv
<1> QED  BY <1>1, NextOnceInv, Invariant, FlushInvariant, PTL DEF Spec

\* In memory the work of a job is queued at most once for every visit of a flush()
\* that took it to a place of its buffer, or once by its own add() if no buffer
\* collected it.
THEOREM QueuedOncePerVisitCorrect == Spec => []QueuedOncePerVisit
<1>1. IInv /\ FlushInv /\ OnceInv => QueuedOncePerVisit
  <2> SUFFICES ASSUME IInv, FlushInv, OnceInv, store = "memory", NEW j \in Jobs
               PROVE  queued[j] <= IF collectedBy[j] = {} THEN 1
                         ELSE Cardinality({v \in Flushes \X (1..Len(places)) :
                                             /\ v[2] \in visited[v[1]]
                                             /\ j \in taken[v[1]][places[v[2]]]})
    BY DEF QueuedOncePerVisit
  <2> DEFINE visits == {v \in Flushes \X (1..Len(places)) :
                           /\ v[2] \in visited[v[1]]
                           /\ j \in taken[v[1]][places[v[2]]]}
  <2>1. Types /\ MemoryTakesOnce
    BY DEF IInv
  <2>2. visits \subseteq Flushes \X Places /\ Handed(j) \subseteq visits
    BY DEF Handed, Places
  <2> HIDE DEF visits
  <2>3. /\ Cardinality(Handed(j)) \in Nat /\ Cardinality(visits) \in Nat
        /\ Cardinality(Handed(j)) <= Cardinality(visits)
    <3>1. Handed(j) \subseteq Flushes \X Places
      BY <2>2
    <3> QED  BY <2>1, <2>2, <3>1, VisitsAreFinite, VisitsGrow
  <2>4. /\ queued[j] <= Cardinality(Handed(j)) + Enqueued(j)
        /\ queued[j] \in Nat /\ Enqueued(j) \in {0, 1}
    BY DEF OnceInv, OncePerVisit, Enqueued, FlushInv, FlushTypes
  <2>5. CASE collectedBy[j] = {}
    <3>1. Handed(j) = {}
      <4> SUFFICES ASSUME NEW v \in Handed(j) PROVE FALSE
        OBVIOUS
      <4>1. PICK f \in Flushes, p \in Places : j \in taken[f][places[p]]
        BY DEF Handed
      <4>2. places[p] \in Buffers
        BY <2>1, PlacesAre
      <4> QED  BY <2>1, <2>5, <4>1, <4>2, KeptWasCollected
    <3>2. Cardinality(Handed(j)) = 0
      BY <3>1, FS_EmptySet
    <3> QED  BY <2>4, <2>5, <3>2
  <2>6. CASE collectedBy[j] # {}
    <3>1. Enqueued(j) = 0
      BY <2>6 DEF OnceInv, EnqueuedAlone, Enqueued
    <3>2. queued[j] <= Cardinality(visits)
      BY <2>3, <2>4, <3>1
    <3> QED  BY <2>6, <3>2 DEF visits
  <2> QED  BY <2>5, <2>6
<1> QED  BY <1>1, Invariant, FlushInvariant, OnceInvariant, PTL

=============================================================================
