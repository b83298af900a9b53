----------------------------- MODULE JobQueries -----------------------------
(***************************************************************************)
(* findMany() as an operator from the stored jobs to a page of them: on    *)
(* the in-memory adapter (adapters/in-memory-job-queue-adapter.ts) and, as *)
(* the script getJobsByType that Redis runs, on the BullMQ adapter.        *)
(*                                                                         *)
(* A job is a record of the fields a query looks at.  A filter is a        *)
(* function from fields to operators and an operator a function from the   *)
(* names of its operands to their values, so what a caller leaves out is   *)
(* outside the domain.  The operand contains, which looks into a string,   *)
(* is left out.  JavaScript takes an operand 0 for one that is not given.  *)
(***************************************************************************)
EXTENDS Integers, Sequences, SequencesExt, FiniteSets

\* A field without a value, such as settledAt of a job that is not settled: it
\* passes no comparison, and sorts like 0.
Undefined == -1

\* take is optional.
NoTake == -1

Smaller(a, b) == IF a < b THEN a ELSE b

\* The elements of a finite set one after the other: before the n-th of them
\* there are n - 1.  (With \o TLC evaluates the function once, not at every use.)
Ranked(S, Before(_, _)) ==
    [n \in 1..Cardinality(S) |->
        CHOOSE x \in S : Cardinality({y \in S : Before(y, x)}) = n - 1] \o <<>>

\* What the sequence has at these places, one after the other.
Arranged(items, places) == [n \in DOMAIN places |-> items[places[n]]] \o <<>>

\* What is left when all other places are dropped.
Remaining(items, places) == Arranged(items, Ranked(places, LAMBDA p, q : p < q))

-----------------------------------------------------------------------------
(* The in-memory adapter.                                                  *)

Given(op, name) == name \in DOMAIN op

Truthy(op, name) == Given(op, name) /\ op[name] # 0

Passes(value, op) ==
    /\ Given(op, "eq") => value = op.eq
    /\ Truthy(op, "gt") => value # Undefined /\ value > op.gt
    /\ Truthy(op, "gte") => value # Undefined /\ value >= op.gte
    /\ Truthy(op, "lt") => value # Undefined /\ value < op.lt
    /\ Truthy(op, "lte") => value # Undefined /\ value <= op.lte
    /\ Given(op, "before") => value # Undefined /\ value <= op.before
    /\ Given(op, "after") => value # Undefined /\ value >= op.after
    /\ Given(op, "between") =>
          value # Undefined /\ value > op.between.start /\ value < op.between.end

\* Variant of ApplyFilters: only one of the filters is applied.
ApplyAnyFilter(items, filters) ==
    Remaining(items, {i \in DOMAIN items :
                         \/ filters = <<>>
                         \/ \E key \in DOMAIN filters :
                               Passes(items[i][key], filters[key])})

\* One filter after the other.
ApplyFilters(items, filters) ==
    Remaining(items, {i \in DOMAIN items : \A key \in DOMAIN filters :
                                              Passes(items[i][key], filters[key])})

SortValue(job, key) == IF job[key] = Undefined THEN 0 ELSE job[key]

\* The comparison never returns 0: equal items keep their order when it is ASC,
\* and are reversed when it is DESC.
ComesBefore(items, prop, i, j) ==
    LET a == SortValue(items[i], prop.key)
        b == SortValue(items[j], prop.key)
    IN  IF prop.order = "ASC" THEN a < b \/ (a = b /\ i < j)
        ELSE a > b \/ (a = b /\ i > j)

SortOn(items, prop) ==
    Arranged(items, Ranked(DOMAIN items, LAMBDA i, j : ComesBefore(items, prop, i, j)))

\* One property after the other, so that the last one decides.
ApplySort(items, sort) ==
    LET sorted[n \in 0..Len(sort)] ==
            IF n = 0 THEN items ELSE SortOn(sorted[n - 1], sort[n])
    IN  sorted[Len(sort)]

\* Variant of ApplyPagination: the end is taken for the last item of the page.
PaginateInclusive(items, skip, take) ==
    SubSeq(items, skip + 1,
           IF take = NoTake THEN Len(items) ELSE Smaller(skip + take + 1, Len(items)))

ApplyPagination(items, skip, take) ==
    SubSeq(items, skip + 1,
           IF take = NoTake THEN Len(items) ELSE Smaller(skip + take, Len(items)))

\* A page of no items at the very beginning is no page: all items are returned.
\* totalItems is counted when the page has been cut out.
FindMany(all, options) ==
    LET found == ApplyFilters(ApplySort(all, options.sort), options.filter)
        items == IF options.skip > 0 \/ options.take > 0
                 THEN ApplyPagination(found, options.skip, options.take)
                 ELSE found
    IN  [items |-> items, totalItems |-> Len(items)]

-----------------------------------------------------------------------------
(* The BullMQ adapter.  Jobs that are tried again are in delayed, and those *)
(* that were cancelled are in no list.                                     *)

AllJobTypes == {"completed", "failed", "delayed", "repeat", "waiting-children",
                "active", "wait", "paused"}

JobTypesOf == [PENDING |-> {"wait"}, RUNNING |-> {"active"},
               COMPLETED |-> {"completed"}, RETRYING |-> {"repeat"},
               FAILED |-> {"failed"}, CANCELLED |-> {"failed"}]

\* The lists to look into: isSettled overrides state.
JobTypes(filter) ==
    IF "isSettled" \in DOMAIN filter
    THEN IF filter.isSettled.eq THEN {"completed", "failed"}
         ELSE AllJobTypes \ {"completed", "failed"}
    ELSE IF "state" \in DOMAIN filter THEN JobTypesOf[filter.state.eq]
    ELSE AllJobTypes

\* Variant of ScriptRange: the place where the range starts is not in it.
ScriptRangeAfter(ids, skip, take) ==
    LET first == IF skip = 0 THEN 1 ELSE skip + 2
    IN  SubSeq(ids, first, Smaller(first + take - 1, Len(ids)))

\* The loop of the script: take ids from position skip on.
ScriptRange(ids, skip, take) ==
    SubSeq(ids, skip + 1, Smaller(skip + take, Len(ids)))

\* table.sort(): descending.
NewestFirst(ids) == Ranked(ids, LAMBDA i, j : i > j)

\* The script: the ids in all these lists, the newest first, without those of
\* other queues.
GetJobsByType(all, types, filter, skip, take) ==
    LET found == {job \in all :
                    /\ job.list \in types
                    /\ "queueName" \in DOMAIN filter =>
                          job.queueName = filter.queueName.eq}
    IN  [jobIds |-> ScriptRange(NewestFirst({job.id : job \in found}), skip, take),
         totalItems |-> Cardinality(found)]

-----------------------------------------------------------------------------
(* What a page is, without saying how it is found.                         *)

Matching(all, filter) ==
    {job \in Range(all) : \A key \in DOMAIN filter :
                             Passes(job[key], filter[key])}

\* page holds the jobs of ranks skip + 1 to skip + take among the matching ones,
\* in the order of the last sort property.
IsPage(page, all, options) ==
    LET jobs == Matching(all, options.filter)
        left == Cardinality(jobs) - options.skip
        prop == Last(options.sort)
        Rank(job, strictly) ==
            Cardinality({other \in jobs :
                LET a == SortValue(other, prop.key)
                    b == SortValue(job, prop.key)
                IN  \/ ~strictly /\ a = b
                    \/ IF prop.order = "ASC" THEN a < b ELSE a > b})
    IN  /\ Range(page) \subseteq jobs
        /\ IsInjective(page)
        /\ Len(page) = IF left < 0 THEN 0 ELSE Smaller(left, options.take)
        /\ options.sort # <<>> =>
              \A i \in DOMAIN page :
                  /\ Rank(page[i], TRUE) < options.skip + i
                  /\ options.skip + i <= Rank(page[i], FALSE)

=============================================================================
