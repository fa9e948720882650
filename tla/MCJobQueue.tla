------------------------------ MODULE MCJobQueue ------------------------------
(* Instances of JobQueue for TLC. *)
EXTENDS JobQueue, TLC

CONSTANTS d1, p1

\* The delayed job is due when the periodic one is, so that ties happen.
MCDelay == [j \in {d1, p1} |-> 1]

=============================================================================
