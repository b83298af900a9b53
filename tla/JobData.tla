------------------------------ MODULE JobData ------------------------------
(***************************************************************************)
(* What the constructor of Job makes of the data of a client               *)
(* (packages/core/src/job.ts), and what is left of a job that was put into *)
(* a buffer on Redis and taken out again                                   *)
(* (bufstores/bufstore-redis/src/redis-job-bufstore.ts).                   *)
(*                                                                         *)
(* The objects of a client are a heap: a tuple of objects, whose fields    *)
(* hold values, among them references to objects, which may go in circles. *)
(* A job has copies in their place.  A field that is undefined or null is  *)
(* not in the domain.                                                      *)
(***************************************************************************)
EXTENDS Naturals, Sequences, SequencesExt, FiniteSets, TLC

CONSTANT MaxDepth   \* 10 in the code

ASSUME MaxDepthAssumption == MaxDepth \in Nat

\* The kinds of values.  A copy has the fields in itself.
Scalar == [kind |-> "scalar"]
Date == [kind |-> "date"]
ISOString == [kind |-> "isoString"]
MaxDepthReached == [kind |-> "maxDepthReached"]
Reference(o) == [kind |-> "reference", to |-> o]
CopyOf(type, fields) ==
    [kind |-> "copy", type |-> type, fields |-> fields, getters |-> <<>>]
Missing == [kind |-> "missing"]

\* Arrays are objects whose keys are indexes.  Getters are those of the
\* prototype of a class instance, with the values they return.
Target(heap, value) == IF value.kind = "reference" THEN heap[value.to] ELSE value
HasFields(value) == value.kind \in {"reference", "copy"}
NoHeap == <<>>

-----------------------------------------------------------------------------
(* The constructor of Job.                                                 *)

\* Variant of IsTooDeep: an off-by-one.
IsTooDeepEarly(depth) == MaxDepth <= depth

IsTooDeep(depth) == MaxDepth < depth

\* Own fields are copied down to the maximal depth, where everything, a scalar
\* too, gives way to a text.  What a getter returns is taken as it is.
RECURSIVE EnsureDataIsSerializable(_, _, _)
EnsureDataIsSerializable(heap, data, depth) ==
    IF IsTooDeep(depth) THEN MaxDepthReached
    ELSE IF data = Date THEN ISOString
    ELSE IF HasFields(data)
    THEN LET object == Target(heap, data)
             own == [key \in DOMAIN object.fields |->
                       EnsureDataIsSerializable(heap, object.fields[key], depth + 1)]
         IN  CopyOf(IF object.type = "array" THEN "array" ELSE "plain",
                    object.getters @@ own)
    ELSE data

\* The fields of the configuration replace the defaults.
NewJob(heap, config, now) ==
    [data |-> EnsureDataIsSerializable(heap, config.data, 0)] @@ config
        @@ [state |-> "PENDING", retries |-> 0, attempts |-> 0, progress |-> 0,
            createdAt |-> now]

\* JobQueue.add()
NewQueuedJob(heap, data, queueName, options, now) ==
    NewJob(heap, [data |-> data, queueName |-> queueName] @@ options, now)

-----------------------------------------------------------------------------
(* The Redis store.  A string stands for the configuration it can be parsed *)
(* to.                                                                      *)

\* Variant of ToJobConfigString: the time of creation is a private field as well.
ToUndatedString(job) ==
    Restrict(job, DOMAIN job \ {"state", "attempts", "progress", "createdAt"})

\* Spreading a job gives its public fields; the private ones come under names
\* that no constructor reads, and only data is added by hand.
ToJobConfigString(job) ==
    Restrict(job, DOMAIN job \ {"state", "attempts", "progress"})

ToJob(jobConfigString, now) == NewJob(NoHeap, jobConfigString, now)

-----------------------------------------------------------------------------
(* The data of clients: two objects that may refer to each other.           *)

References == {Reference(1), Reference(2)}
Values == {Scalar, Date} \cup References
FieldsOn(keys) == UNION {[some -> Values] : some \in SUBSET keys}
ObjectsWith(keys) ==
    [type : {"plain", "array", "instance"}, fields : FieldsOn(keys), getters : {<<>>}]
        \cup [type : {"instance"}, fields : FieldsOn(keys), getters : [{"get"} -> Values]]
Keys == {"a", "b"}
Heaps ==
    {<<first, second>> : first \in ObjectsWith(Keys),
                         second \in {o \in ObjectsWith({"a"}) : o.getters = <<>>}}

JobOptions ==
    {<<>>, [retries |-> 2], [priority |-> 1], [retries |-> 2, priority |-> 1]}

-----------------------------------------------------------------------------
(* Correctness.                                                             *)

Paths == SeqOf(Keys, MaxDepth + 2)

\* The value at the end of a path of keys.
Follow(heap, data, path) ==
    FoldLeft(LAMBDA value, key :
                IF HasFields(value) /\ key \in DOMAIN Target(heap, value).fields
                THEN Target(heap, value).fields[key] ELSE Missing,
             data, path)

\* A copy stands for an object if it has the own fields and the getters of it.
StandsFor(copy, object) ==
    /\ copy.kind = "copy"
    /\ copy.type = "array" <=> object.type = "array"
    /\ DOMAIN copy.fields = DOMAIN object.fields \cup DOMAIN object.getters
    /\ \A key \in DOMAIN object.getters : copy.fields[key] = object.getters[key]

\* The data of a job is that of the client, whatever refers to what: at the end
\* of every path there is the value the client has there, dates as strings and
\* objects as copies, so that what the client does to its objects later does not
\* reach the job.  Only what lies too deep is cut off, also if it has no end.
CopyIsFaithful ==
    \A heap \in Heaps, data \in Values :
        LET copy == EnsureDataIsSerializable(heap, data, 0)
        IN  \A path \in Paths :
                LET before == Follow(heap, data, path)
                    after == Follow(NoHeap, copy, path)
                IN  CASE Len(path) > MaxDepth ->
                            after = IF Len(path) = MaxDepth + 1 /\ before # Missing
                                    THEN MaxDepthReached ELSE Missing
                      [] before = Date -> after = ISOString
                      [] HasFields(before) -> StandsFor(after, Target(heap, before))
                      [] OTHER -> after = before

\* A job that was in a buffer on Redis is the job that was added: its data, which
\* the constructor copies a second time, its options and the time of its creation,
\* by which reduce() orders the jobs.  (Not so where getters gave it values that
\* had not been copied.)
BufferedJobIsSame ==
    \A heap \in {h \in Heaps : \A o \in DOMAIN h : h[o].getters = <<>>},
       data \in Values, options \in JobOptions :
        LET job == NewQueuedJob(heap, data, "queue", options, 1)
        IN  ToJob(ToJobConfigString(job), 2) = job

=============================================================================
