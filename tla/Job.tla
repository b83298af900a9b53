-------------------------------- MODULE Job --------------------------------
(***************************************************************************)
(* The Job value of packages/core/src/job.ts: the part of it that decides  *)
(* what happens to the job.  A job is a record of its state, the retries   *)
(* it may use, the attempts it has used, and whether settledAt was ever    *)
(* assigned.  Each method that changes the job is an operator from the job *)
(* before the call to the job after it.  Payload, progress, result, error  *)
(* and the other dates decide nothing and are left out.                    *)
(***************************************************************************)
EXTENDS Naturals

JobState ==
    {"CANCELLED", "COMPLETED", "FAILED", "PENDING", "RETRYING", "RUNNING"}

\* What update() of the in-memory adapter puts back into the queue.
Waiting == {"PENDING", "RETRYING"}

\* The states that the getter isSettled asks for.
Final == {"COMPLETED", "FAILED", "CANCELLED"}

JobRecord ==
    [state : JobState, retries : Nat, attempts : Nat, settledAt : BOOLEAN]

NewJob(retries) ==
    [state |-> "PENDING", retries |-> retries, attempts |-> 0,
     settledAt |-> FALSE]

IsSettled(job) == job.settledAt /\ job.state \in Final

\* Variant of StartJob: next() that forgets to call it.
StartNothing(job) == job

\* start() is a no-op on a job that is not waiting: a CANCELLED job keeps
\* its state and its count of attempts.
StartJob(job) ==
    IF job.state \in Waiting
    THEN [job EXCEPT !.state = "RUNNING", !.attempts = @ + 1]
    ELSE job

\* complete() does not look at the state it replaces.
CompleteJob(job) == [job EXCEPT !.state = "COMPLETED", !.settledAt = TRUE]

\* Variant of FailJob: one retry too many.
FailJobLate(job) ==
    IF job.retries + 1 >= job.attempts
    THEN [job EXCEPT !.state = "RETRYING"]
    ELSE [job EXCEPT !.state = IF @ = "CANCELLED" THEN @ ELSE "FAILED",
                     !.settledAt = TRUE]

\* fail() compares the counts first, so the test for CANCELLED is only
\* reached when no retry is left.
FailJob(job) ==
    IF job.retries >= job.attempts
    THEN [job EXCEPT !.state = "RETRYING"]
    ELSE [job EXCEPT !.state = IF @ = "CANCELLED" THEN @ ELSE "FAILED",
                     !.settledAt = TRUE]

CancelJob(job) == [job EXCEPT !.state = "CANCELLED", !.settledAt = TRUE]

\* defer() gives the attempts back, on a RUNNING job only.
DeferJob(job) ==
    IF job.state = "RUNNING"
    THEN [job EXCEPT !.state = "PENDING", !.attempts = 0]
    ELSE job

=============================================================================
