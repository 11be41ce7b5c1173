---------------------------- MODULE JobOwnership ----------------------------
(***************************************************************************)
(* What the jobs table promises its callers, without leases, clocks,       *)
(* workers or errors: a job is executed by one owner at a time, is handed  *)
(* out at most Budget[j] times, goes back to the queue only while a        *)
(* hand-out is left, and once closed is never handed out again.            *)
(* JobQueue implements this specification.                                 *)
(***************************************************************************)
EXTENDS Naturals

CONSTANTS
    Jobs,    \* the job rows
    Budget   \* Budget[j]: how often row j may be handed out (jobs.max_attempts)

VARIABLES
    phase,   \* "waiting" for an owner, "owned" by one, or "closed"
    claims   \* how often the row was handed out

vars == <<phase, claims>>

Init ==
    /\ phase = [j \in Jobs |-> "waiting"]
    /\ claims = [j \in Jobs |-> 0]

Take(j) ==
    /\ phase[j] = "waiting"
    /\ claims[j] < Budget[j]
    /\ phase' = [phase EXCEPT ![j] = "owned"]
    /\ claims' = [claims EXCEPT ![j] = @ + 1]

GiveBack(j) ==
    /\ phase[j] = "owned"
    /\ claims[j] < Budget[j]
    /\ phase' = [phase EXCEPT ![j] = "waiting"]
    /\ UNCHANGED claims

Close(j) ==
    /\ phase[j] = "owned"
    /\ phase' = [phase EXCEPT ![j] = "closed"]
    /\ UNCHANGED claims

Next == \E j \in Jobs : Take(j) \/ GiveBack(j) \/ Close(j)

Spec == Init /\ [][Next]_vars
=============================================================================
