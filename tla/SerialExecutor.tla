--------------------------- MODULE SerialExecutor ---------------------------
(***************************************************************************)
(* What leo3's runtime worker promises the threads that call run_worker    *)
(* (leo3/src/runtime.rs), with no Once, channel or mutex in sight:         *)
(*                                                                         *)
(*   - calls are executed one at a time;                                   *)
(*   - the closure of a call runs at most once, and a call that returns a  *)
(*     value returns it after its own closure ran to the end;              *)
(*   - a call fails only once the executor is dead, and a dead executor    *)
(*     never runs anything again.                                          *)
(*                                                                         *)
(* Runtime is shown to implement this module.                              *)
(***************************************************************************)
CONSTANT Threads  \* the threads that submit calls

VARIABLES
  status,  \* what has become of the current call of each thread
  alive    \* FALSE once the executor can run nothing any more

vars == <<status, alive>>

Statuses == {"idle", "waiting", "running", "finished", "lost"}

TypeOK ==
  /\ status \in [Threads -> Statuses]
  /\ alive \in BOOLEAN

Init ==
  /\ status = [t \in Threads |-> "idle"]
  /\ alive = TRUE

Become(t, from, to) ==
  /\ status[t] = from
  /\ status' = [status EXCEPT ![t] = to]

Submit(t) == Become(t, "idle", "waiting") /\ UNCHANGED alive

Start(t) ==
  /\ alive
  /\ \A u \in Threads : status[u] # "running"
  /\ Become(t, "waiting", "running")
  /\ UNCHANGED alive

Finish(t) == Become(t, "running", "finished") /\ UNCHANGED alive

\* The closure of t unwinds and takes the executor with it.
Crash(t) == Become(t, "running", "lost") /\ alive' = FALSE

Deliver(t) == Become(t, "finished", "idle") /\ UNCHANGED alive

\* The caller of a crashed closure learns of it.
Lose(t) == Become(t, "lost", "idle") /\ UNCHANGED alive

\* A call that never started fails, and only for want of an executor.
Refuse(t) == Become(t, "waiting", "idle") /\ alive' = FALSE

\* The executor never comes up.
Retire == alive' = FALSE /\ UNCHANGED status

Next ==
  \/ Retire
  \/ \E t \in Threads :
       \/ Submit(t) \/ Start(t) \/ Finish(t) \/ Crash(t)
       \/ Deliver(t) \/ Lose(t) \/ Refuse(t)

Spec == Init /\ [][Next]_vars

=============================================================================
