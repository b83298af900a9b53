------------------------------ MODULE BufStore ------------------------------
(***************************************************************************)
(* What a JobBufStore promises (packages/core/src/job-buf-store.ts): add() *)
(* persists a job under a buffer, and flush() clears the jobs of the       *)
(* buffers it is asked for, or of all if it is asked for none, and returns *)
(* them, both at once.  So a job added to a buffer is in the result of     *)
(* exactly one flush, or still held.  (An add() of what is held is a       *)
(* stuttering step.)                                                       *)
(***************************************************************************)
CONSTANTS Buffers, Jobs, Flushes

VARIABLES
    held,       \* the jobs of each buffer
    over,       \* the calls of flush() that were answered
    asked,      \* the ids each of them was asked for
    given       \* what each of them has returned, by buffer

vars == <<held, over, asked, given>>

Nothing == [b \in Buffers |-> {}]

Init ==
    /\ held = Nothing
    /\ over = {}
    /\ asked = [f \in Flushes |-> {}]
    /\ given = [f \in Flushes |-> Nothing]

Add(b, j) ==
    /\ j \notin held[b]
    /\ held' = [held EXCEPT ![b] = @ \cup {j}]
    /\ UNCHANGED <<over, asked, given>>

\* An empty list of ids means all buffers.
Flush(f, ids) ==
    LET cleared == IF ids = {} THEN Buffers ELSE ids
    IN  /\ f \notin over
        /\ over' = over \cup {f}
        /\ asked' = [asked EXCEPT ![f] = ids]
        /\ held' = [b \in Buffers |-> IF b \in cleared THEN {} ELSE held[b]]
        /\ given' = [given EXCEPT
                       ![f] = [b \in Buffers |->
                                 IF b \in cleared THEN held[b] ELSE {}]]

Next ==
    \/ \E b \in Buffers, j \in Jobs : Add(b, j)
    \/ \E f \in Flushes, ids \in SUBSET Buffers : Flush(f, ids)

Spec == Init /\ [][Next]_vars

=============================================================================
