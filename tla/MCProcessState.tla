--------------------------- MODULE MCProcessState ---------------------------
(* ProcessState for TLC: the threads are interchangeable, so a state is seen *)
(* with the number of threads that are at the same point.                    *)
EXTENDS ProcessState

Point(t) == <<job[t], modules[t], worker = t>>

UpToThreads ==
  <<[p \in {Point(t) : t \in Threads} |-> Cardinality({t \in Threads : Point(t) = p})],
    initPhase, importing, runInitializers, tactics, envs, opens>>
=============================================================================
