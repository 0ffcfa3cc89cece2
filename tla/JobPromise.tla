----------------------------- MODULE JobPromise -----------------------------
(***************************************************************************)
(* What the table of backup jobs promises whoever reads it, whatever       *)
(* sessions write it concurrently: an archive is offered only once it is   *)
(* stored, and neither an offer, nor a stored archive, nor a request to    *)
(* cancel is ever taken back.                                              *)
(***************************************************************************)
CONSTANTS
    Jobs,        \* all jobs
    Restores     \* those that produce no archive

VARIABLES
    stored,      \* jobs whose archive exists
    offered,     \* jobs whose row names its output
    requested    \* jobs somebody asked to cancel

pvars == <<stored, offered, requested>>

PInit == stored = {} /\ offered = {} /\ requested = {}

Store(j) ==
    /\ stored' = stored \cup {j}
    /\ UNCHANGED <<offered, requested>>

Offer(j) ==
    /\ j \in stored \cup Restores
    /\ offered' = offered \cup {j}
    /\ UNCHANGED <<stored, requested>>

RequestCancel(j) ==
    /\ requested' = requested \cup {j}
    /\ UNCHANGED <<stored, offered>>

PNext == \E j \in Jobs : Store(j) \/ Offer(j) \/ RequestCancel(j)

PSpec == PInit /\ [][PNext]_pvars
=============================================================================
