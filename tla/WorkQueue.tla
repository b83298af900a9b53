----------------------------- MODULE WorkQueue -----------------------------
(***************************************************************************)
(* What a job queue promises about the custody of its items, whatever it   *)
(* is built from.  An item is submitted once, waits, is claimed by one     *)
(* worker at a time, and is given back or finished by its claimant.  A     *)
(* finished item is never claimed again.  A claim need not end: a worker   *)
(* may keep an item for ever.                                              *)
(***************************************************************************)
CONSTANTS Items, Workers

VARIABLES
    waiting,    \* items submitted that nobody has claimed
    claims,     \* who holds what: pairs of an item and a worker
    finished    \* items that are over

vars == <<waiting, claims, finished>>

Claimed == {claim[1] : claim \in claims}

Init ==
    /\ waiting = {}
    /\ claims = {}
    /\ finished = {}

Submit(i) ==
    /\ i \notin waiting \cup Claimed \cup finished
    /\ waiting' = waiting \cup {i}
    /\ UNCHANGED <<claims, finished>>

Claim(i) ==
    /\ i \in waiting \ Claimed
    /\ waiting' = waiting \ {i}
    /\ \E w \in Workers : claims' = claims \cup {<<i, w>>}
    /\ UNCHANGED finished

GiveBack(i) ==
    /\ waiting' = waiting \cup {i}
    /\ \E w \in Workers : /\ <<i, w>> \in claims
                          /\ claims' = claims \ {<<i, w>>}
    /\ UNCHANGED finished

Finish(i) ==
    /\ finished' = finished \cup {i}
    /\ \E w \in Workers : /\ <<i, w>> \in claims
                          /\ claims' = claims \ {<<i, w>>}
    /\ UNCHANGED waiting

Next == \E i \in Items : Submit(i) \/ Claim(i) \/ GiveBack(i) \/ Finish(i)

Spec == Init /\ [][Next]_vars

=============================================================================
