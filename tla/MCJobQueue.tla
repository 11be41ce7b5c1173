----------------------------- MODULE MCJobQueue -----------------------------
(* Instances of JobQueue for TLC.  A tick is a fraction of the lease window *)
(* large enough for a lease of two ticks to be extended, lost and reaped.   *)
EXTENDS JobQueue

CONSTANT Budget   \* max_attempts of every job of the instance

\* Every worker process registers every kind.
AllHandle == [w \in Workers |-> Jobs]

MCMaxAttempts == [j \in Jobs |-> Budget]

\* One kind that meets every class of failure.
AllRaise == [j \in Jobs |-> FailureClasses]
=============================================================================
