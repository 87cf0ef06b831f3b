------------------------------ MODULE MCRuntime -----------------------------
(* Runtime and TaskManager for TLC.  All threads may call at once, but some  *)
(* call once only, and some use the task manager in with_lean only.  Outside *)
(* of its calls a thread uses it before the first one: when it is through    *)
(* with a call, the boot is over and nothing but the guard is left to meet.  *)
EXTENDS TaskManager

CONSTANTS
  OneCall,   \* threads that make one call
  EarlyUse   \* threads that use the task manager before their first call

Bounded ==
  \A t \in Threads :
    /\ t \in OneCall => calls'[t] <= 1
    /\ pc'[t] = "idle" /\ (calls'[t] > 0 \/ t \notin EarlyUse) => use'[t] = "out"

RuntimeNext == ManagerNext /\ Bounded

RuntimeFairSpec ==
  /\ ManagerInit /\ [][RuntimeNext]_tmVars
  /\ \A t \in Threads : WF_tmVars(CallerMoves(t)) /\ WF_tmVars(ManagerStep(t))
  /\ WF_tmVars(WorkerMoves)
=============================================================================
