----------------------- MODULE ProcessAndSessionsProofs ---------------------
(***************************************************************************)
(* Theorems about the state of the process and about proof sessions, each  *)
(* by itself.                                                              *)
(*                                                                         *)
(* ProcessState, for every set of threads and every number of builtin      *)
(* tactics: the initialization phase ends once, importing mode is switched *)
(* off by every way out, the tactics are registered at most once, and      *)
(* imports run the initializers of their modules.                          *)
(*                                                                         *)
(* ProofSession, for any number of names, arguments, hypotheses and        *)
(* snapshots: what it promises its caller.  Every trip to the worker       *)
(* extends the context: it keeps what is declared and assigned, takes new  *)
(* names from the generator, gives what it declares at least the           *)
(* hypotheses of the goal it is for, and leaves that goal alone when it    *)
(* fails.  Extension is transitive, so a tactic of several trips extends   *)
(* the context as well, wherever it fails.  This holds whatever references *)
(* the caller has, so that a failure leaves its goal open in the context;  *)
(* the rest holds until run_tactic goes on from a reference that is out of *)
(* step with the context (strayed).  Of the goals that a tactic lists,     *)
(* each trip keeps that they cover what is mentioned and not assigned, so  *)
(* that the list loses nothing, and that they are declared where they      *)
(* belong.                                                                 *)
(***************************************************************************)
EXTENDS ProcessState, ProofSession, FiniteSetTheorems, TLAPS

\* The types of everything but the count of open libraries, which LibraryInv has.
TypesInv ==
  /\ job \in [Threads -> Job]
  /\ worker \in Threads \cup {None}
  /\ initializing \in BOOLEAN /\ finalized \in BOOLEAN /\ marks \in Nat
  /\ importing \in BOOLEAN /\ runInitializers \in BOOLEAN
  /\ registered \in BOOLEAN /\ table \in [Tactics -> Nat] /\ gaveUp \in BOOLEAN
  /\ envs \subseteq Environment
  /\ modules \in [Threads -> {"none", "initialized", "uninitialized"}]

\* Who has a library mapped, and that somebody loading holds no module yet.
Users ==
  {t \in Threads : modules[t] = "initialized" \/ job[t].at \in LoadPlaces \ {"dlopen", "dlfailed"}}

LibraryInv ==
  /\ IsFiniteSet(Users) /\ opens = Cardinality(Users)
  /\ \A t \in Threads : modules[t] # "uninitialized"
  /\ \A t \in Threads : job[t].at \in LoadPlaces => modules[t] = "none"

\* Where a call is says which call it is, the worker runs the closure of the one
\* thread that waits for it, and the tactic counter starts at zero.
JobInv ==
  \A t \in Threads :
    /\ job[t].at \in WorkerPlaces <=> worker = t
    /\ job[t].at \in LoadPlaces => job[t].via = "load"
    /\ job[t].at \in CallerPlaces \cup WorkerPlaces => job[t].via \in {"import", "empty"}
    /\ job[t].at \in {"search_path", "tactics", "register"} => job[t].via = "import"
    /\ job[t].at \in WorkerPlaces \ {"mk_empty"} => job[t].via = "import"
    /\ job[t].at = "mk_empty" => job[t].via = "empty"
    /\ job[t].at \in {"search_path", "finalize", "mark", "tactics"} => job[t].nth = 0

\* One thread at most has won the swap of FINALIZED and not yet made the call.
PhaseInv ==
  /\ PhaseEndsOnce
  /\ ~finalized => initializing
  /\ \A t \in Threads : At(t, "mark") => finalized /\ initializing
  /\ \A t, u \in Threads : At(t, "mark") /\ At(u, "mark") => t = u

\* How far the one registration has come.
Added(n) == [i \in Tactics |-> AddedAtBoot[i] + (IF i <= n THEN 1 ELSE 0)]

TacticsInv ==
  /\ ~registered => table = Added(0) /\ ~gaveUp
  /\ \A t \in Threads : At(t, "register") =>
       registered /\ ~gaveUp /\ job[t].nth < NTactics /\ table = Added(job[t].nth)
  /\ \A t, u \in Threads : At(t, "register") /\ At(u, "register") => t = u
  /\ \E n \in 0..NTactics : table = Added(n)
  /\ registered /\ ~gaveUp /\ (\A t \in Threads : ~At(t, "register")) => table = Added(NTactics)

\* The switch stays on from the closure's first step to the import itself.
SwitchInv ==
  /\ ImportsAreEnabled
  /\ \A t \in Threads : job[t].at \in {"with_importing", "import"} => runInitializers

ProcessInv == TypesInv /\ LibraryInv /\ JobInv /\ PhaseInv /\ WindowCloses /\ TacticsInv /\ SwitchInv

-----------------------------------------------------------------------------
\* Before the first call the invariant holds.
LEMMA InitEstablishesProcessInv == ProcessInit => ProcessInv
<1> SUFFICES ASSUME ProcessInit PROVE ProcessInv
  OBVIOUS
<1> USE ProcessStateAssumption DEF ProcessInit, Idle
<1>1. TypesInv
  <2>1. Idle \in Job
    BY DEF Job, Places
  <2>2. table \in [Tactics -> Nat]
    BY DEF AddedAtBoot, Tactics
  <2> QED
    BY <2>1, <2>2 DEF TypesInv
<1>2. JobInv
  BY DEF JobInv, LoadPlaces, CallerPlaces, WorkerPlaces
<1>3. PhaseInv
  <2>1. marks <= 1 /\ (initializing <=> marks = 0) /\ initializing /\ ~finalized
    OBVIOUS
  <2>2. \A t \in Threads : ~At(t, "mark")
    BY DEF At
  <2> QED
    BY <2>1, <2>2 DEF PhaseInv, PhaseEndsOnce
<1>4. WindowCloses
  BY DEF WindowCloses
<1>5. TacticsInv
  <2>1. table = Added(0)
    BY DEF Added, AddedAtBoot, Tactics
  <2>2. \E n \in 0..NTactics : table = Added(n)
    BY <2>1
  <2> QED
    BY <2>1, <2>2 DEF TacticsInv, At
<1>6. SwitchInv
  BY DEF SwitchInv, ImportsAreEnabled
<1>7. LibraryInv
  <2>1. Users = {}
    BY DEF Users, LoadPlaces
  <2> QED
    BY <2>1, FS_EmptySet DEF LibraryInv, LoadPlaces
<1> QED
  BY <1>1, <1>2, <1>3, <1>4, <1>5, <1>6, <1>7 DEF ProcessInv

-----------------------------------------------------------------------------
(* What the steps do to the place of a call.                               *)

Elsewhere(t) == \A u \in Threads : u # t => job'[u] = job[u]

\* A thread that moves within its call moves alone.
LEMMA Moves ==
  ASSUME TypesInv, NEW t \in Threads, NEW place \in Places, Goto(t, place)
  PROVE  /\ job' \in [Threads -> Job]
         /\ job'[t].at = place /\ job'[t].via = job[t].via /\ job'[t].nth = job[t].nth
         /\ Elsewhere(t)
<1>1. job[t] \in Job
  BY DEF TypesInv
<1>2. job' = [job EXCEPT ![t] = [job[t] EXCEPT !.at = place]]
  BY DEF Goto
<1>3. [job[t] EXCEPT !.at = place] \in Job
  BY <1>1 DEF Job
<1>4. job' \in [Threads -> Job] /\ job'[t] = [job[t] EXCEPT !.at = place] /\ Elsewhere(t)
  BY <1>2, <1>3 DEF TypesInv, Elsewhere
<1> QED
  BY <1>1, <1>4 DEF Job

\* A thread that starts a call leaves the calls of others alone.
LEMMA Starts ==
  ASSUME TypesInv, NEW t \in Threads, NEW j \in Job, job' = [job EXCEPT ![t] = j]
  PROVE  job' \in [Threads -> Job] /\ job'[t] = j /\ Elsewhere(t)
BY DEF TypesInv, Elsewhere

\* A thread that returns is idle, and leaves the calls of others alone.
LEMMA Returns ==
  ASSUME TypesInv, NEW t \in Threads, Return(t)
  PROVE  job' \in [Threads -> Job] /\ job'[t].at = "idle" /\ Elsewhere(t)
<1>1. Idle \in Job /\ Idle.at = "idle"
  BY ProcessStateAssumption DEF Idle, Job, Places
<1> QED
  BY <1>1, Starts DEF Return

\* Registering moves the counter on, or ends the call.
LEMMA Registers ==
  ASSUME TypesInv, NEW t \in Threads, Register(t), job[t].nth < NTactics
  PROVE  /\ job' \in [Threads -> Job] /\ Elsewhere(t)
         /\ \/ /\ job'[t].via = job[t].via /\ job'[t].nth = job[t].nth + 1
               /\ job'[t].at = IF job'[t].nth = NTactics THEN "call" ELSE "register"
               /\ table' = [table EXCEPT ![job'[t].nth] = @ + 1] /\ gaveUp' = gaveUp
            \/ job'[t].at = "idle" /\ table' = table /\ gaveUp' = TRUE
<1> DEFINE i == job[t].nth + 1
           j == [job[t] EXCEPT !.nth = i, !.at = IF i = NTactics THEN "call" ELSE @]
<1>1. job[t] \in Job /\ i \in 0..NTactics /\ job[t].at = "register"
  BY ProcessStateAssumption DEF TypesInv, Job, Register, At
<1>2. CASE Return(t) /\ table' = table /\ gaveUp' = TRUE
  BY <1>2, Returns
<1>3. CASE /\ job' = [job EXCEPT ![t] = j]
           /\ table' = [table EXCEPT ![i] = @ + 1] /\ gaveUp' = gaveUp
  <2>1. j \in Job /\ j.via = job[t].via /\ j.nth = i /\ j.at = IF i = NTactics THEN "call" ELSE "register"
    BY <1>1 DEF Job, Places, CallerPlaces
  <2>2. job' \in [Threads -> Job] /\ job'[t] = j /\ Elsewhere(t)
    BY <1>3, <2>1, Starts
  <2> QED
    BY <1>3, <2>1, <2>2
<1>4. job' = [job EXCEPT ![t].nth = i, ![t].at = IF i = NTactics THEN "call" ELSE @] =>
        job' = [job EXCEPT ![t] = j]
  BY <1>1 DEF TypesInv, Job
<1> QED
  BY <1>2, <1>3, <1>4 DEF Register

-----------------------------------------------------------------------------
(* Each kind of step keeps the types and the place of every call.          *)

\* A registering thread has tactics left to add.
LEMMA TacticsFacts ==
  ASSUME ProcessInv, NEW t \in Threads, Register(t)
  PROVE  TypesInv /\ job[t].nth < NTactics
BY DEF ProcessInv, TacticsInv, Register

\* An import makes an environment.
LEMMA EnvironmentTyped ==
  ASSUME ProcessInv, NEW t \in Threads, At(t, "import") \/ At(t, "mk_empty")
  PROVE  NewEnvironment(t) \in Environment
<1>1. job[t].via \in {"import", "empty"}
  BY DEF ProcessInv, JobInv, At, WorkerPlaces
<1>2. (job[t].via = "import" /\ runInitializers) \in BOOLEAN
  OBVIOUS
<1> QED
  BY <1>1, <1>2 DEF NewEnvironment, Environment

\* The types of all but the count of open libraries.
LEMMA StepKeepsTypes ==
  ASSUME ProcessInv, [ProcessNext]_processVars
  PROVE  TypesInv'
<1> USE ProcessStateAssumption
    DEF ProcessInv, TypesInv, initPhase, tactics, loads, Elsewhere, At, Places, LoadPlaces, CallerPlaces, WorkerPlaces, Job, Environment, Tactics, Idle
<1>1. ASSUME NEW t \in Threads, Load(t) PROVE TypesInv'
  <2>1. CASE StartLoad(t)
    BY <2>1, Moves, Returns, Starts DEF StartLoad
  <2>2. CASE Dlopen(t)
    BY <2>2, Moves, Returns, Starts DEF Dlopen
  <2>3. CASE CloseAfterDlopen(t)
    BY <2>3, Moves, Returns, Starts DEF CloseAfterDlopen
  <2>4. CASE LookupInit(t)
    BY <2>4, Moves, Returns, Starts DEF LookupInit
  <2>5. CASE OpenForInit(t)
    BY <2>5, Moves, Returns, Starts DEF OpenForInit
  <2>6. CASE RunInit(t)
    BY <2>6, Moves, Returns, Starts DEF RunInit
  <2>7. CASE FinishLoad(t)
    BY <2>7, Moves, Returns, Starts DEF FinishLoad
  <2>8. CASE DropModule(t)
    BY <2>8, Moves, Returns, Starts DEF DropModule
  <2> QED
    BY <1>1, <2>1, <2>2, <2>3, <2>4, <2>5, <2>6, <2>7, <2>8 DEF Load
<1>2. ASSUME NEW t \in Threads, Prepare(t) PROVE TypesInv'
  <2>1. CASE StartImport(t)
    BY <2>1, Moves, Returns, Starts DEF StartImport
  <2>2. CASE StartEmpty(t)
    BY <2>2, Moves, Returns, Starts DEF StartEmpty
  <2>3. CASE SearchPath(t)
    BY <2>3, Moves, Returns, Starts DEF SearchPath
  <2>4. CASE SwapFinalized(t)
    BY <2>4, Moves, Returns, Starts DEF SwapFinalized, AfterPhase
  <2>5. CASE MarkEnd(t)
    <3>1. AfterPhase(t) \in Places
      BY DEF AfterPhase
    <3>2. job' \in [Threads -> Job]
      BY <2>5, <3>1, Moves DEF MarkEnd
    <3>3. marks' \in Nat
      BY <2>5 DEF MarkEnd
    <3> QED
      BY <2>5, <3>2, <3>3 DEF MarkEnd
  <2>6. CASE SwapRegistered(t)
    BY <2>6, Moves, Returns, Starts DEF SwapRegistered
  <2>7. CASE Register(t)
    <3>1. TypesInv /\ job[t].nth < NTactics
      BY <2>7, TacticsFacts
    <3>3. \A n \in Tactics : [table EXCEPT ![n] = @ + 1] \in [Tactics -> Nat]
      OBVIOUS
    <3>4. job[t].nth + 1 \in Tactics
      BY <3>1
    <3>2. job' \in [Threads -> Job]
      BY <2>7, <3>1, Registers
    <3>5. table' \in [Tactics -> Nat]
      BY <2>7, <3>3, <3>4 DEF Register
    <3>6. gaveUp' \in BOOLEAN
      BY <2>7 DEF Register
    <3> QED
      BY <2>7, <3>2, <3>5, <3>6 DEF Register
  <2> QED
    BY <1>2, <2>1, <2>2, <2>3, <2>4, <2>5, <2>6, <2>7 DEF Prepare
<1>3. ASSUME NEW t \in Threads, OnWorker(t) PROVE TypesInv'
  <2>1. CASE WithWorker(t)
    BY <2>1, Moves, Returns, Starts DEF WithWorker
  <2>2. CASE EnableInitializers(t)
    BY <2>2, Moves, Returns, Starts DEF EnableInitializers
  <2>3. CASE EnterImporting(t)
    BY <2>3, Moves, Returns, Starts DEF EnterImporting
  <2>4. CASE Import(t)
    <3>1. NewEnvironment(t) \in Environment /\ job' \in [Threads -> Job]
      BY <2>4, Moves, EnvironmentTyped DEF Import
    <3> QED
      BY <2>4, <3>1 DEF Import
  <2>5. CASE LeaveImporting(t)
    BY <2>5, Moves, Returns, Starts DEF LeaveImporting
  <2>6. CASE MkEmpty(t)
    <3>1. NewEnvironment(t) \in Environment /\ job' \in [Threads -> Job]
      BY <2>6, Returns, EnvironmentTyped DEF MkEmpty
    <3> QED
      BY <2>6, <3>1 DEF MkEmpty
  <2> QED
    BY <1>3, <2>1, <2>2, <2>3, <2>4, <2>5, <2>6 DEF OnWorker
<1>4. CASE UNCHANGED processVars
  BY <1>4 DEF processVars
<1> QED
  BY <1>1, <1>2, <1>3, <1>4 DEF ProcessNext

\* Each step moves a call along its own path.
LEMMA StepKeepsJobs ==
  ASSUME ProcessInv, [ProcessNext]_processVars
  PROVE  JobInv'
<1> USE ProcessStateAssumption
    DEF ProcessInv, TypesInv, initPhase, tactics, loads, Elsewhere, At, JobInv, Places, LoadPlaces, CallerPlaces, WorkerPlaces, Job, Idle
<1>1. ASSUME NEW t \in Threads, Load(t) PROVE JobInv'
  <2>1. CASE StartLoad(t)
    BY <2>1, Moves, Returns, Starts DEF StartLoad
  <2>2. CASE Dlopen(t)
    BY <2>2, Moves, Returns, Starts DEF Dlopen
  <2>3. CASE CloseAfterDlopen(t)
    BY <2>3, Moves, Returns, Starts DEF CloseAfterDlopen
  <2>4. CASE LookupInit(t)
    BY <2>4, Moves, Returns, Starts DEF LookupInit
  <2>5. CASE OpenForInit(t)
    BY <2>5, Moves, Returns, Starts DEF OpenForInit
  <2>6. CASE RunInit(t)
    BY <2>6, Moves, Returns, Starts DEF RunInit
  <2>7. CASE FinishLoad(t)
    BY <2>7, Moves, Returns, Starts DEF FinishLoad
  <2>8. CASE DropModule(t)
    BY <2>8, Moves, Returns, Starts DEF DropModule
  <2> QED
    BY <1>1, <2>1, <2>2, <2>3, <2>4, <2>5, <2>6, <2>7, <2>8 DEF Load
<1>2. ASSUME NEW t \in Threads, Prepare(t) PROVE JobInv'
  <2>1. CASE StartImport(t)
    BY <2>1, Moves, Returns, Starts DEF StartImport
  <2>2. CASE StartEmpty(t)
    BY <2>2, Moves, Returns, Starts DEF StartEmpty
  <2>3. CASE SearchPath(t)
    BY <2>3, Moves, Returns, Starts DEF SearchPath
  <2>4. CASE SwapFinalized(t)
    BY <2>4, Moves, Returns, Starts DEF SwapFinalized, AfterPhase
  <2>5. CASE MarkEnd(t)
    BY <2>5, Moves, Returns, Starts DEF MarkEnd, AfterPhase
  <2>6. CASE SwapRegistered(t)
    BY <2>6, Moves, Returns, Starts DEF SwapRegistered
  <2>7. CASE Register(t)
    <3>1. TypesInv /\ job[t].nth < NTactics
      BY <2>7, TacticsFacts
    <3>2. /\ job'[t].via = job[t].via \/ job'[t].at = "idle"
          /\ job'[t].at \in {"call", "register", "idle"}
          /\ Elsewhere(t)
      BY <2>7, <3>1, Registers
    <3>3. job[t].at = "register" /\ worker' = worker
      BY <2>7 DEF Register
    <3> QED
      BY <3>2, <3>3
  <2> QED
    BY <1>2, <2>1, <2>2, <2>3, <2>4, <2>5, <2>6, <2>7 DEF Prepare
<1>3. ASSUME NEW t \in Threads, OnWorker(t) PROVE JobInv'
  <2>1. CASE WithWorker(t)
    BY <2>1, Moves, Returns, Starts DEF WithWorker
  <2>2. CASE EnableInitializers(t)
    BY <2>2, Moves, Returns, Starts DEF EnableInitializers
  <2>3. CASE EnterImporting(t)
    BY <2>3, Moves, Returns, Starts DEF EnterImporting
  <2>4. CASE Import(t)
    BY <2>4, Moves, Returns, Starts DEF Import
  <2>5. CASE LeaveImporting(t)
    BY <2>5, Moves, Returns, Starts DEF LeaveImporting
  <2>6. CASE MkEmpty(t)
    BY <2>6, Moves, Returns, Starts DEF MkEmpty
  <2> QED
    BY <1>3, <2>1, <2>2, <2>3, <2>4, <2>5, <2>6 DEF OnWorker
<1>4. CASE UNCHANGED processVars
  BY <1>4 DEF processVars
<1> QED
  BY <1>1, <1>2, <1>3, <1>4 DEF ProcessNext

-----------------------------------------------------------------------------
(* Each kind of step keeps the five safety invariants.                     *)

Moved(t, from, to) == job[t].at \in from /\ job'[t].at \in to /\ Elsewhere(t)

\* The path of every action.
LEMMA Paths ==
  ASSUME ProcessInv, NEW t \in Threads
  PROVE
    /\ StartLoad(t) => Moved(t, {"idle"}, {"dlopen"})
    /\ Dlopen(t) => Moved(t, {"dlopen"}, {"dlopened", "dlfailed"})
    /\ CloseAfterDlopen(t) => Moved(t, {"dlopened", "dlfailed"}, {"lookup", "idle"})
    /\ LookupInit(t) => Moved(t, {"lookup"}, {"open_init", "idle"})
    /\ OpenForInit(t) => Moved(t, {"open_init"}, {"init"})
    /\ RunInit(t) => Moved(t, {"init"}, {"init_ok", "init_failed"})
    /\ FinishLoad(t) => Moved(t, {"init_ok", "init_failed"}, {"idle"})
    /\ DropModule(t) => Moved(t, {"idle"}, {"idle"})
    /\ StartImport(t) => Moved(t, {"idle"}, {"search_path"})
    /\ StartEmpty(t) => Moved(t, {"idle"}, {"finalize"})
    /\ SearchPath(t) => Moved(t, {"search_path"}, {"finalize", "idle"})
    /\ SwapFinalized(t) => Moved(t, {"finalize"}, {"mark", "tactics", "call"})
    /\ MarkEnd(t) => Moved(t, {"mark"}, {"tactics", "call"})
    /\ SwapRegistered(t) => Moved(t, {"tactics"}, {"register", "call"})
    /\ Register(t) => Moved(t, {"register"}, {"register", "call", "idle"})
    /\ WithWorker(t) => Moved(t, {"call"}, {"enable", "mk_empty"})
    /\ EnableInitializers(t) => Moved(t, {"enable"}, {"with_importing", "idle"})
    /\ EnterImporting(t) => Moved(t, {"with_importing"}, {"import"})
    /\ Import(t) => Moved(t, {"import"}, {"import_end"})
    /\ LeaveImporting(t) => Moved(t, {"import_end"}, {"idle"})
    /\ MkEmpty(t) => Moved(t, {"mk_empty"}, {"idle"})
<1>0. TypesInv
  BY DEF ProcessInv
<1> USE <1>0 DEF Moved, At
<1>1. ASSUME StartLoad(t) PROVE Moved(t, {"idle"}, {"dlopen"})
  <2>1. [at |-> "dlopen", via |-> "load", nth |-> 0] \in Job
    BY ProcessStateAssumption DEF Job, Places, LoadPlaces, CallerPlaces
  <2>2. job'[t] = [at |-> "dlopen", via |-> "load", nth |-> 0] /\ Elsewhere(t)
    BY <1>1, <2>1, Starts DEF StartLoad
  <2> QED
    BY <1>1, <2>2 DEF StartLoad
<1>2. ASSUME Dlopen(t) PROVE Moved(t, {"dlopen"}, {"dlopened", "dlfailed"})
  BY <1>2, Moves, Returns DEF Dlopen, Places, LoadPlaces, CallerPlaces, WorkerPlaces
<1>3. ASSUME CloseAfterDlopen(t) PROVE Moved(t, {"dlopened", "dlfailed"}, {"lookup", "idle"})
  BY <1>3, Moves, Returns DEF CloseAfterDlopen, Places, LoadPlaces, CallerPlaces, WorkerPlaces
<1>4. ASSUME LookupInit(t) PROVE Moved(t, {"lookup"}, {"open_init", "idle"})
  BY <1>4, Moves, Returns DEF LookupInit, Places, LoadPlaces, CallerPlaces, WorkerPlaces
<1>5. ASSUME OpenForInit(t) PROVE Moved(t, {"open_init"}, {"init"})
  BY <1>5, Moves, Returns DEF OpenForInit, Places, LoadPlaces, CallerPlaces, WorkerPlaces
<1>6. ASSUME RunInit(t) PROVE Moved(t, {"init"}, {"init_ok", "init_failed"})
  BY <1>6, Moves, Returns DEF RunInit, Places, LoadPlaces, CallerPlaces, WorkerPlaces
<1>7. ASSUME FinishLoad(t) PROVE Moved(t, {"init_ok", "init_failed"}, {"idle"})
  BY <1>7, Moves, Returns DEF FinishLoad, Places, LoadPlaces, CallerPlaces, WorkerPlaces
<1>8. ASSUME DropModule(t) PROVE Moved(t, {"idle"}, {"idle"})
  BY <1>8 DEF DropModule, Elsewhere
<1>9. ASSUME StartImport(t) PROVE Moved(t, {"idle"}, {"search_path"})
  <2>1. [at |-> "search_path", via |-> "import", nth |-> 0] \in Job
    BY ProcessStateAssumption DEF Job, Places, LoadPlaces, CallerPlaces
  <2>2. job'[t] = [at |-> "search_path", via |-> "import", nth |-> 0] /\ Elsewhere(t)
    BY <1>9, <2>1, Starts DEF StartImport
  <2> QED
    BY <1>9, <2>2 DEF StartImport
<1>10. ASSUME StartEmpty(t) PROVE Moved(t, {"idle"}, {"finalize"})
  <2>1. [at |-> "finalize", via |-> "empty", nth |-> 0] \in Job
    BY ProcessStateAssumption DEF Job, Places, LoadPlaces, CallerPlaces
  <2>2. job'[t] = [at |-> "finalize", via |-> "empty", nth |-> 0] /\ Elsewhere(t)
    BY <1>10, <2>1, Starts DEF StartEmpty
  <2> QED
    BY <1>10, <2>2 DEF StartEmpty
<1>11. ASSUME SearchPath(t) PROVE Moved(t, {"search_path"}, {"finalize", "idle"})
  BY <1>11, Moves, Returns DEF SearchPath, Places, LoadPlaces, CallerPlaces, WorkerPlaces
<1>12. ASSUME SwapFinalized(t) PROVE Moved(t, {"finalize"}, {"mark", "tactics", "call"})
  BY <1>12, Moves DEF SwapFinalized, AfterPhase, Places, CallerPlaces
<1>13. ASSUME MarkEnd(t) PROVE Moved(t, {"mark"}, {"tactics", "call"})
  BY <1>13, Moves DEF MarkEnd, AfterPhase, Places, CallerPlaces
<1>14. ASSUME SwapRegistered(t) PROVE Moved(t, {"tactics"}, {"register", "call"})
  BY <1>14, Moves, Returns DEF SwapRegistered, Places, LoadPlaces, CallerPlaces, WorkerPlaces
<1>15. ASSUME Register(t) PROVE Moved(t, {"register"}, {"register", "call", "idle"})
  <2>1. Elsewhere(t) /\ job'[t].at \in {"register", "call", "idle"}
    BY <1>15, TacticsFacts, Registers
  <2> QED
    BY <1>15, <2>1 DEF Register
<1>16. ASSUME WithWorker(t) PROVE Moved(t, {"call"}, {"enable", "mk_empty"})
  BY <1>16, Moves, Returns DEF WithWorker, Places, LoadPlaces, CallerPlaces, WorkerPlaces
<1>17. ASSUME EnableInitializers(t) PROVE Moved(t, {"enable"}, {"with_importing", "idle"})
  BY <1>17, Moves, Returns DEF EnableInitializers, Places, LoadPlaces, CallerPlaces, WorkerPlaces
<1>18. ASSUME EnterImporting(t) PROVE Moved(t, {"with_importing"}, {"import"})
  BY <1>18, Moves, Returns DEF EnterImporting, Places, LoadPlaces, CallerPlaces, WorkerPlaces
<1>19. ASSUME Import(t) PROVE Moved(t, {"import"}, {"import_end"})
  BY <1>19, Moves, Returns DEF Import, Places, LoadPlaces, CallerPlaces, WorkerPlaces
<1>20. ASSUME LeaveImporting(t) PROVE Moved(t, {"import_end"}, {"idle"})
  BY <1>20, Moves, Returns DEF LeaveImporting, Places, LoadPlaces, CallerPlaces, WorkerPlaces
<1>21. ASSUME MkEmpty(t) PROVE Moved(t, {"mk_empty"}, {"idle"})
  BY <1>21, Moves, Returns DEF MkEmpty, Places, LoadPlaces, CallerPlaces, WorkerPlaces
<1> QED
  BY <1>1, <1>2, <1>3, <1>4, <1>5, <1>6, <1>7, <1>8, <1>9, <1>10, <1>11, <1>12, <1>13, <1>14, <1>15, <1>16, <1>17, <1>18, <1>19, <1>20, <1>21

LoadPath == LoadPlaces \cup {"idle"}
CallerPath == CallerPlaces \cup {"idle"}
WorkerPath == WorkerPlaces \cup {"call", "idle"}

\* The paths of the three kinds of calls.
LEMMA PathsOfCalls ==
  ASSUME ProcessInv, NEW t \in Threads
  PROVE  /\ Load(t) => Moved(t, LoadPath, LoadPath)
         /\ Prepare(t) => Moved(t, CallerPath, CallerPath)
         /\ OnWorker(t) => Moved(t, WorkerPath, WorkerPath)
<1>1. Load(t) => Moved(t, LoadPath, LoadPath)
  BY Paths DEF Load, Moved, LoadPath, LoadPlaces
<1>2. Prepare(t) => Moved(t, CallerPath, CallerPath)
  BY Paths DEF Prepare, Moved, CallerPath, CallerPlaces
<1>3. OnWorker(t) => Moved(t, WorkerPath, WorkerPath)
  BY Paths DEF OnWorker, Moved, WorkerPath, WorkerPlaces
<1> QED
  BY <1>1, <1>2, <1>3

\* Steps that have nothing to do with the phase.
LEMMA PhaseFrame ==
  ASSUME ProcessInv, NEW t \in Threads, NEW from, NEW to, Moved(t, from, to),
         "mark" \notin from \cup to, UNCHANGED initPhase
  PROVE  PhaseInv'
<1>1. \A u \in Threads : At(u, "mark")' <=> At(u, "mark")
  BY DEF At, Moved, Elsewhere
<1>2. finalized' = finalized /\ initializing' = initializing /\ marks' = marks
  BY DEF initPhase
<1> QED
  BY <1>1, <1>2 DEF ProcessInv, PhaseInv, PhaseEndsOnce

\* Only the thread that wins the swap goes on to end the phase.
LEMMA StepKeepsPhase ==
  ASSUME ProcessInv, [ProcessNext]_processVars
  PROVE  PhaseInv'
<1>1. ASSUME NEW t \in Threads, Load(t) PROVE PhaseInv'
  <2>1. Moved(t, LoadPath, LoadPath)
    BY <1>1, PathsOfCalls
  <2>2. UNCHANGED initPhase
    BY <1>1 DEF Load, StartLoad, Dlopen, CloseAfterDlopen, LookupInit, OpenForInit, RunInit, FinishLoad, DropModule
  <2> QED
    BY <2>1, <2>2, PhaseFrame DEF LoadPath, LoadPlaces, WorkerPlaces
<1>2. ASSUME NEW t \in Threads, Prepare(t) PROVE PhaseInv'
  <2>1. CASE StartImport(t)
    <3>1. Moved(t, {"idle"}, {"search_path"})
      BY <2>1, Paths
    <3> QED
      BY <2>1, <3>1, PhaseFrame DEF StartImport
  <2>2. CASE StartEmpty(t)
    <3>1. Moved(t, {"idle"}, {"finalize"})
      BY <2>2, Paths
    <3> QED
      BY <2>2, <3>1, PhaseFrame DEF StartEmpty
  <2>3. CASE SearchPath(t)
    <3>1. Moved(t, {"search_path"}, {"finalize", "idle"})
      BY <2>3, Paths
    <3> QED
      BY <2>3, <3>1, PhaseFrame DEF SearchPath
  <2>4. CASE SwapFinalized(t)
    <3>1. Moved(t, {"finalize"}, {"mark", "tactics", "call"})
      BY <2>4, Paths
    <3>2. CASE finalized
      <4>1. job'[t].at # "mark" /\ job[t].at # "mark" /\ UNCHANGED initPhase
        BY <2>4, <3>1, <3>2, Moves DEF SwapFinalized, ProcessInv, AfterPhase, Places, CallerPlaces, Moved, initPhase
      <4>2. Moved(t, {"finalize"}, {"tactics", "call"})
        BY <3>1, <4>1 DEF Moved
      <4> QED
        BY <4>1, <4>2, PhaseFrame
    <3>3. CASE ~finalized
      <4>1. finalized' /\ initializing /\ initializing' /\ marks' = marks /\ marks = 0
        BY <2>4, <3>3 DEF SwapFinalized, ProcessInv, PhaseInv, PhaseEndsOnce
      <4>2. \A u \in Threads : ~At(u, "mark")
        BY <3>3 DEF ProcessInv, PhaseInv
      <4>3. job'[t].at = "mark"
        BY <2>4, <3>3, Moves DEF SwapFinalized, ProcessInv, Places, CallerPlaces
      <4>4. \A u \in Threads : At(u, "mark")' <=> u = t
        BY <3>1, <4>2, <4>3 DEF At, Moved, Elsewhere
      <4> QED
        BY <4>1, <4>4 DEF PhaseInv, PhaseEndsOnce
    <3> QED
      BY <3>2, <3>3
  <2>5. CASE MarkEnd(t)
    <3>1. Moved(t, {"mark"}, {"tactics", "call"})
      BY <2>5, Paths
    <3>2. At(t, "mark") /\ finalized /\ initializing /\ marks = 0
      BY <2>5 DEF MarkEnd, ProcessInv, PhaseInv, PhaseEndsOnce
    <3>3. \A u \in Threads : ~At(u, "mark")'
      BY <3>1, <3>2 DEF At, Moved, Elsewhere, ProcessInv, PhaseInv
    <3>4. finalized' = finalized /\ ~initializing' /\ marks' = 1
      BY <2>5, <3>2 DEF MarkEnd
    <3> QED
      BY <3>2, <3>3, <3>4 DEF PhaseInv, PhaseEndsOnce
  <2>6. CASE SwapRegistered(t)
    <3>1. Moved(t, {"tactics"}, {"register", "call"})
      BY <2>6, Paths
    <3> QED
      BY <2>6, <3>1, PhaseFrame DEF SwapRegistered
  <2>7. CASE Register(t)
    <3>1. Moved(t, {"register"}, {"register", "call", "idle"})
      BY <2>7, Paths
    <3> QED
      BY <2>7, <3>1, PhaseFrame DEF Register
  <2> QED
    BY <1>2, <2>1, <2>2, <2>3, <2>4, <2>5, <2>6, <2>7 DEF Prepare
<1>3. ASSUME NEW t \in Threads, OnWorker(t) PROVE PhaseInv'
  <2>1. Moved(t, WorkerPath, WorkerPath)
    BY <1>3, PathsOfCalls
  <2>2. UNCHANGED initPhase
    BY <1>3 DEF OnWorker, WithWorker, EnableInitializers, EnterImporting, Import, LeaveImporting, MkEmpty
  <2> QED
    BY <2>1, <2>2, PhaseFrame DEF WorkerPath, LoadPlaces, WorkerPlaces
<1>4. CASE UNCHANGED processVars
  BY <1>4 DEF processVars, initPhase, ProcessInv, PhaseInv, PhaseEndsOnce, At
<1> QED
  BY <1>1, <1>2, <1>3, <1>4 DEF ProcessNext

\* Steps that neither open the window nor leave it unclosed.
LEMMA WindowFrame ==
  ASSUME ProcessInv, NEW t \in Threads, NEW from, NEW to, Moved(t, from, to),
         \/ ~importing'
         \/ importing' /\ to \subseteq {"dlopen", "dlopened", "dlfailed", "init", "init_ok", "init_failed", "import"}
         \/ /\ UNCHANGED importing
            /\ from \cap {"dlopen", "dlopened", "dlfailed", "init", "init_ok", "init_failed",
                          "import", "import_end"} = {}
         \/ UNCHANGED importing /\ to = {"import_end"}
  PROVE  WindowCloses'
BY DEF ProcessInv, WindowCloses, InLoadWindow, InImportWindow, Moved, Elsewhere

\* Whoever leaves a window closes it.
LEMMA StepKeepsWindow ==
  ASSUME ProcessInv, [ProcessNext]_processVars
  PROVE  WindowCloses'
<1>1. ASSUME NEW t \in Threads, Load(t) PROVE WindowCloses'
  <2>1. CASE StartLoad(t)
    <3>1. Moved(t, {"idle"}, {"dlopen"})
      BY <2>1, Paths
    <3> QED
      BY <2>1, <3>1, WindowFrame DEF StartLoad
  <2>2. CASE Dlopen(t)
    <3>1. Moved(t, {"dlopen"}, {"dlopened", "dlfailed"})
      BY <2>2, Paths
    <3> QED
      BY <2>2, <3>1, WindowFrame DEF Dlopen
  <2>3. CASE CloseAfterDlopen(t)
    <3>1. Moved(t, {"dlopened", "dlfailed"}, {"lookup", "idle"})
      BY <2>3, Paths
    <3> QED
      BY <2>3, <3>1, WindowFrame DEF CloseAfterDlopen
  <2>4. CASE LookupInit(t)
    <3>1. Moved(t, {"lookup"}, {"open_init", "idle"})
      BY <2>4, Paths
    <3> QED
      BY <2>4, <3>1, WindowFrame DEF LookupInit
  <2>5. CASE OpenForInit(t)
    <3>1. Moved(t, {"open_init"}, {"init"})
      BY <2>5, Paths
    <3> QED
      BY <2>5, <3>1, WindowFrame DEF OpenForInit
  <2>6. CASE RunInit(t)
    <3>1. Moved(t, {"init"}, {"init_ok", "init_failed"})
      BY <2>6, Paths
    <3> QED
      BY <2>6, <3>1, WindowFrame DEF RunInit
  <2>7. CASE FinishLoad(t)
    <3>1. Moved(t, {"init_ok", "init_failed"}, {"idle"})
      BY <2>7, Paths
    <3> QED
      BY <2>7, <3>1, WindowFrame DEF FinishLoad
  <2>8. CASE DropModule(t)
    <3>1. Moved(t, {"idle"}, {"idle"})
      BY <2>8, Paths
    <3> QED
      BY <2>8, <3>1, WindowFrame DEF DropModule
  <2> QED
    BY <1>1, <2>1, <2>2, <2>3, <2>4, <2>5, <2>6, <2>7, <2>8 DEF Load
<1>2. ASSUME NEW t \in Threads, Prepare(t) PROVE WindowCloses'
  <2>1. Moved(t, CallerPath, CallerPath)
    BY <1>2, PathsOfCalls
  <2>2. UNCHANGED importing
    BY <1>2 DEF Prepare, StartImport, StartEmpty, SearchPath, SwapFinalized, MarkEnd, SwapRegistered, Register
  <2> QED
    BY <2>1, <2>2, WindowFrame DEF CallerPath, CallerPlaces
<1>3. ASSUME NEW t \in Threads, OnWorker(t) PROVE WindowCloses'
  <2>1. CASE WithWorker(t)
    <3>1. Moved(t, {"call"}, {"enable", "mk_empty"})
      BY <2>1, Paths
    <3> QED
      BY <2>1, <3>1, WindowFrame DEF WithWorker
  <2>2. CASE EnableInitializers(t)
    <3>1. Moved(t, {"enable"}, {"with_importing", "idle"})
      BY <2>2, Paths
    <3> QED
      BY <2>2, <3>1, WindowFrame DEF EnableInitializers
  <2>3. CASE EnterImporting(t)
    <3>1. Moved(t, {"with_importing"}, {"import"})
      BY <2>3, Paths
    <3> QED
      BY <2>3, <3>1, WindowFrame DEF EnterImporting
  <2>4. CASE Import(t)
    <3>1. Moved(t, {"import"}, {"import_end"})
      BY <2>4, Paths
    <3> QED
      BY <2>4, <3>1, WindowFrame DEF Import
  <2>5. CASE LeaveImporting(t)
    <3>1. Moved(t, {"import_end"}, {"idle"})
      BY <2>5, Paths
    <3> QED
      BY <2>5, <3>1, WindowFrame DEF LeaveImporting
  <2>6. CASE MkEmpty(t)
    <3>1. Moved(t, {"mk_empty"}, {"idle"})
      BY <2>6, Paths
    <3> QED
      BY <2>6, <3>1, WindowFrame DEF MkEmpty
  <2> QED
    BY <1>3, <2>1, <2>2, <2>3, <2>4, <2>5, <2>6 DEF OnWorker
<1>4. CASE UNCHANGED processVars
  BY <1>4 DEF processVars, ProcessInv, WindowCloses, InLoadWindow, InImportWindow
<1> QED
  BY <1>1, <1>2, <1>3, <1>4 DEF ProcessNext

\* Steps that leave the switch alone and reach no place that relies on it.
LEMMA SwitchFrame ==
  ASSUME ProcessInv, NEW t \in Threads, NEW from, NEW to, Moved(t, from, to),
         to \cap {"with_importing", "import"} = {}, UNCHANGED <<runInitializers, envs>>
  PROVE  SwitchInv'
BY DEF ProcessInv, SwitchInv, ImportsAreEnabled, Moved, Elsewhere

\* The switch is cleared only by the closure the worker runs, at its end.
LEMMA StepKeepsSwitch ==
  ASSUME ProcessInv, [ProcessNext]_processVars
  PROVE  SwitchInv'
<1>1. ASSUME NEW t \in Threads, Load(t) PROVE SwitchInv'
  <2>1. Moved(t, LoadPath, LoadPath)
    BY <1>1, PathsOfCalls
  <2>2. UNCHANGED <<runInitializers, envs>>
    BY <1>1 DEF Load, StartLoad, Dlopen, CloseAfterDlopen, LookupInit, OpenForInit, RunInit, FinishLoad, DropModule
  <2> QED
    BY <2>1, <2>2, SwitchFrame DEF LoadPath, LoadPlaces, CallerPlaces
<1>2. ASSUME NEW t \in Threads, Prepare(t) PROVE SwitchInv'
  <2>1. Moved(t, CallerPath, CallerPath)
    BY <1>2, PathsOfCalls
  <2>2. UNCHANGED <<runInitializers, envs>>
    BY <1>2 DEF Prepare, StartImport, StartEmpty, SearchPath, SwapFinalized, MarkEnd, SwapRegistered, Register
  <2> QED
    BY <2>1, <2>2, SwitchFrame DEF CallerPath, LoadPlaces, CallerPlaces
<1>3. ASSUME NEW t \in Threads, OnWorker(t) PROVE SwitchInv'
  <2>1. CASE WithWorker(t)
    <3>1. Moved(t, {"call"}, {"enable", "mk_empty"})
      BY <2>1, Paths
    <3> QED
      BY <2>1, <3>1, SwitchFrame DEF WithWorker
  <2>2. CASE EnableInitializers(t)
    <3>1. Moved(t, {"enable"}, {"with_importing", "idle"})
      BY <2>2, Paths
    <3> QED
      BY <2>2, <3>1, SwitchFrame, Moves, Returns DEF EnableInitializers, ProcessInv, SwitchInv, ImportsAreEnabled, Moved, Elsewhere, Places, WorkerPlaces
  <2>3. CASE EnterImporting(t)
    <3>1. Moved(t, {"with_importing"}, {"import"})
      BY <2>3, Paths
    <3> QED
      BY <2>3, <3>1 DEF EnterImporting, ProcessInv, SwitchInv, ImportsAreEnabled, Moved, Elsewhere
  <2>4. CASE Import(t)
    <3>1. Moved(t, {"import"}, {"import_end"})
      BY <2>4, Paths
    <3>2. runInitializers /\ runInitializers' = runInitializers
      BY <2>4, <3>1 DEF Import, ProcessInv, SwitchInv, Moved
    <3>4. NewEnvironment(t).enabled
      <4>1. job[t].via = "import"
        BY <3>1 DEF ProcessInv, JobInv, Moved, WorkerPlaces
      <4>2. NewEnvironment(t).enabled = (job[t].via = "import" /\ runInitializers)
        BY DEF NewEnvironment
      <4> QED
        BY <3>2, <4>1, <4>2
    <3>3. \A e \in envs' : e.via = "import" => e.enabled
      BY <2>4, <3>4 DEF Import, ProcessInv, SwitchInv, ImportsAreEnabled
    <3> QED
      BY <3>1, <3>2, <3>3 DEF ProcessInv, SwitchInv, ImportsAreEnabled, Moved, Elsewhere
  <2>5. CASE LeaveImporting(t)
    <3>1. Moved(t, {"import_end"}, {"idle"})
      BY <2>5, Paths
    <3>2. \A u \in Threads : job[u].at \in WorkerPlaces => u = t
      BY <3>1 DEF ProcessInv, JobInv, Moved, WorkerPlaces
    <3>3. \A u \in Threads : job'[u].at \notin {"with_importing", "import"}
      BY <3>1, <3>2 DEF Moved, Elsewhere, WorkerPlaces
    <3> QED
      BY <2>5, <3>3 DEF LeaveImporting, ProcessInv, SwitchInv, ImportsAreEnabled
  <2>6. CASE MkEmpty(t)
    <3>1. Moved(t, {"mk_empty"}, {"idle"})
      BY <2>6, Paths
    <3>2. job[t].via = "empty"
      BY <3>1 DEF ProcessInv, JobInv, Moved, WorkerPlaces
    <3>3. \A e \in envs' : e.via = "import" => e.enabled
      BY <2>6, <3>2 DEF MkEmpty, NewEnvironment, ProcessInv, SwitchInv, ImportsAreEnabled
    <3> QED
      BY <2>6, <3>1, <3>3 DEF MkEmpty, ProcessInv, SwitchInv, ImportsAreEnabled, Moved, Elsewhere
  <2> QED
    BY <1>3, <2>1, <2>2, <2>3, <2>4, <2>5, <2>6 DEF OnWorker
<1>4. CASE UNCHANGED processVars
  BY <1>4 DEF processVars, ProcessInv, SwitchInv, ImportsAreEnabled
<1> QED
  BY <1>1, <1>2, <1>3, <1>4 DEF ProcessNext

\* Steps that have nothing to do with the tactics.
LEMMA TacticsFrame ==
  ASSUME ProcessInv, NEW t \in Threads, NEW from, NEW to, Moved(t, from, to),
         "register" \notin from \cup to, UNCHANGED tactics
  PROVE  TacticsInv'
<1>1. \A u \in Threads : /\ At(u, "register")' <=> At(u, "register")
                         /\ At(u, "register") => job'[u] = job[u]
  BY DEF At, Moved, Elsewhere
<1>2. table' = table /\ gaveUp' = gaveUp /\ registered' = registered
  BY DEF tactics
<1> QED
  BY <1>1, <1>2 DEF ProcessInv, TacticsInv, Added

\* Adding the next tactic is one step of the count.
LEMMA AddNext ==
  ASSUME NEW n \in 0..NTactics, n < NTactics
  PROVE  [Added(n) EXCEPT ![n + 1] = @ + 1] = Added(n + 1)
<1> DEFINE next == [Added(n) EXCEPT ![n + 1] = @ + 1]
<1>1. n \in Nat /\ n + 1 \in Tactics
  BY ProcessStateAssumption DEF Tactics
<1>2. ASSUME NEW i \in Tactics PROVE next[i] = Added(n + 1)[i]
  <2>1. i \in Nat /\ AddedAtBoot[i] \in Nat
    BY ProcessStateAssumption DEF Tactics, AddedAtBoot
  <2>2. Added(n)[i] = AddedAtBoot[i] + (IF i <= n THEN 1 ELSE 0)
        /\ Added(n + 1)[i] = AddedAtBoot[i] + (IF i <= n + 1 THEN 1 ELSE 0)
    BY DEF Added
  <2>3. next[i] = IF i = n + 1 THEN Added(n)[i] + 1 ELSE Added(n)[i]
    BY DEF Added
  <2> QED
    BY <1>1, <2>1, <2>2, <2>3
<1>3. next = [i \in Tactics |-> next[i]] /\ Added(n + 1) = [i \in Tactics |-> Added(n + 1)[i]]
  BY DEF Added
<1> QED
  BY <1>2, <1>3

\* One thread registers, from the first tactic on, and nobody after it.
LEMMA StepKeepsTactics ==
  ASSUME ProcessInv, [ProcessNext]_processVars
  PROVE  TacticsInv'
<1>1. ASSUME NEW t \in Threads, Load(t) PROVE TacticsInv'
  <2>1. Moved(t, LoadPath, LoadPath)
    BY <1>1, PathsOfCalls
  <2>2. UNCHANGED tactics
    BY <1>1 DEF Load, StartLoad, Dlopen, CloseAfterDlopen, LookupInit, OpenForInit, RunInit, FinishLoad, DropModule
  <2> QED
    BY <2>1, <2>2, TacticsFrame DEF LoadPath, LoadPlaces, WorkerPlaces
<1>2. ASSUME NEW t \in Threads, Prepare(t) PROVE TacticsInv'
  <2>1. CASE StartImport(t)
    <3>1. Moved(t, {"idle"}, {"search_path"})
      BY <2>1, Paths
    <3> QED
      BY <2>1, <3>1, TacticsFrame DEF StartImport
  <2>2. CASE StartEmpty(t)
    <3>1. Moved(t, {"idle"}, {"finalize"})
      BY <2>2, Paths
    <3> QED
      BY <2>2, <3>1, TacticsFrame DEF StartEmpty
  <2>3. CASE SearchPath(t)
    <3>1. Moved(t, {"search_path"}, {"finalize", "idle"})
      BY <2>3, Paths
    <3> QED
      BY <2>3, <3>1, TacticsFrame DEF SearchPath
  <2>4. CASE SwapFinalized(t)
    <3>1. Moved(t, {"finalize"}, {"mark", "tactics", "call"})
      BY <2>4, Paths
    <3> QED
      BY <2>4, <3>1, TacticsFrame DEF SwapFinalized
  <2>5. CASE MarkEnd(t)
    <3>1. Moved(t, {"mark"}, {"tactics", "call"})
      BY <2>5, Paths
    <3> QED
      BY <2>5, <3>1, TacticsFrame DEF MarkEnd
  <2>6. CASE SwapRegistered(t)
    <3>1. Moved(t, {"tactics"}, {"register", "call"})
      BY <2>6, Paths
    <3>2. CASE registered
      <4>1. job'[t].at # "register" /\ UNCHANGED tactics
        BY <2>6, <3>2, Moves DEF SwapRegistered, ProcessInv, Places, CallerPlaces, tactics
      <4>2. Moved(t, {"tactics"}, {"call"})
        BY <3>1, <4>1 DEF Moved
      <4> QED
        BY <4>1, <4>2, TacticsFrame
    <3>3. CASE ~registered
      <4>1. registered' /\ ~gaveUp' /\ table' = Added(0) /\ 0 < NTactics
        BY <2>6, <3>3, ProcessStateAssumption DEF SwapRegistered, ProcessInv, TacticsInv
      <4>2. \A u \in Threads : ~At(u, "register")
        BY <3>3 DEF ProcessInv, TacticsInv
      <4>3. job'[t].at = "register" /\ job'[t].nth = 0
        BY <2>6, <3>1, <3>3, Moves DEF SwapRegistered, ProcessInv, JobInv, Moved, Places, CallerPlaces
      <4>4. \A u \in Threads : At(u, "register")' <=> u = t
        BY <3>1, <4>2, <4>3 DEF At, Moved, Elsewhere
      <4>5. 0 \in 0..NTactics
        BY <4>1, ProcessStateAssumption
      <4> QED
        BY <4>1, <4>3, <4>4, <4>5 DEF TacticsInv, Added
    <3> QED
      BY <3>2, <3>3
  <2>7. CASE Register(t)
    <3>1. Moved(t, {"register"}, {"register", "call", "idle"})
      BY <2>7, Paths
    <3>2. registered /\ registered' /\ ~gaveUp /\ job[t].nth \in 0..NTactics /\ job[t].nth < NTactics
          /\ table = Added(job[t].nth)
      BY <2>7 DEF Register, ProcessInv, TacticsInv, TypesInv, Job
    <3>3. \A u \in Threads : At(u, "register") => u = t
      BY <2>7 DEF Register, ProcessInv, TacticsInv
    <3>4. \A u \in Threads : At(u, "register")' => u = t
      BY <3>1, <3>3 DEF At, Moved, Elsewhere
    <3>5. CASE /\ job'[t].nth = job[t].nth + 1
               /\ job'[t].at = IF job'[t].nth = NTactics THEN "call" ELSE "register"
               /\ table' = [table EXCEPT ![job'[t].nth] = @ + 1] /\ gaveUp' = gaveUp
      <4>1. table' = Added(job'[t].nth) /\ ~gaveUp'
        BY <3>2, <3>5, AddNext
      <4>2. job'[t].nth \in 0..NTactics
        BY <3>2, <3>5, ProcessStateAssumption
      <4>3. CASE job'[t].nth = NTactics
        <5>1. \A u \in Threads : ~At(u, "register")'
          BY <3>4, <3>5, <4>3 DEF At
        <5> QED
          BY <3>2, <4>1, <4>2, <4>3, <5>1 DEF TacticsInv, Added
      <4>4. CASE job'[t].nth # NTactics
        <5>1. At(t, "register")' /\ job'[t].nth < NTactics
          BY <3>5, <4>2, <4>4, ProcessStateAssumption DEF At
        <5> QED
          BY <3>2, <3>4, <4>1, <4>2, <5>1 DEF TacticsInv, Added
      <4> QED
        BY <4>3, <4>4
    <3>6. CASE job'[t].at = "idle" /\ table' = table /\ gaveUp' = TRUE
      <4>1. \A u \in Threads : ~At(u, "register")'
        BY <3>4, <3>6 DEF At
      <4> QED
        BY <3>2, <3>6, <4>1 DEF TacticsInv, Added
    <3> QED
      BY <2>7, <3>5, <3>6, Registers, TacticsFacts
  <2> QED
    BY <1>2, <2>1, <2>2, <2>3, <2>4, <2>5, <2>6, <2>7 DEF Prepare
<1>3. ASSUME NEW t \in Threads, OnWorker(t) PROVE TacticsInv'
  <2>1. Moved(t, WorkerPath, WorkerPath)
    BY <1>3, PathsOfCalls
  <2>2. UNCHANGED tactics
    BY <1>3 DEF OnWorker, WithWorker, EnableInitializers, EnterImporting, Import, LeaveImporting, MkEmpty
  <2> QED
    BY <2>1, <2>2, TacticsFrame DEF WorkerPath, LoadPlaces, WorkerPlaces
<1>4. CASE UNCHANGED processVars
  BY <1>4 DEF processVars, ProcessInv, TacticsInv, tactics, At, Added
<1> QED
  BY <1>1, <1>2, <1>3, <1>4 DEF ProcessNext

Using == LoadPlaces \ {"dlopen", "dlfailed"}

\* Steps that neither map nor unmap a library.
LEMMA LibraryFrame ==
  ASSUME ProcessInv, NEW t \in Threads, NEW from, NEW to, Moved(t, from, to),
         \/ from \subseteq Using /\ to \subseteq Using
         \/ from \cap Using = {} /\ to \cap Using = {},
         from \subseteq LoadPlaces \/ to \cap LoadPlaces = {} \/ modules[t] = "none",
         UNCHANGED loads
  PROVE  LibraryInv'
<1>1. opens' = opens /\ modules' = modules
  BY DEF loads
<1>2. Users' = Users
  BY <1>1 DEF Users, Moved, Elsewhere, Using
<1> QED
  BY <1>1, <1>2 DEF ProcessInv, LibraryInv, Moved, Elsewhere

\* A step that maps a library.
LEMMA LibraryMapped ==
  ASSUME ProcessInv, NEW t \in Threads, Moved(t, {"dlopen"}, {"dlopened"}),
         opens' = opens + 1, UNCHANGED modules
  PROVE  LibraryInv'
<1>1. t \notin Users /\ modules[t] = "none"
  BY DEF ProcessInv, LibraryInv, Users, Moved, LoadPlaces
<1>2. Users' = Users \cup {t}
  BY DEF Users, Moved, Elsewhere, LoadPlaces
<1>3. IsFiniteSet(Users \cup {t}) /\ Cardinality(Users \cup {t}) = Cardinality(Users) + 1
  BY <1>1, FS_AddElement DEF ProcessInv, LibraryInv
<1>4. \A u \in Threads : modules'[u] # "uninitialized" /\ (job'[u].at \in LoadPlaces => modules'[u] = "none")
  BY <1>1 DEF ProcessInv, LibraryInv, Moved, Elsewhere
<1> QED
  BY <1>2, <1>3, <1>4 DEF ProcessInv, LibraryInv

\* A step that unmaps one.
LEMMA LibraryUnmapped ==
  ASSUME ProcessInv, NEW t \in Threads, NEW from, Moved(t, from, {"idle"}), t \in Users,
         opens' = opens - 1, modules' = [modules EXCEPT ![t] = "none"]
  PROVE  LibraryInv'
<1>1. modules' \in [Threads -> {"none", "initialized", "uninitialized"}] /\ modules'[t] = "none"
      /\ \A u \in Threads : u # t => modules'[u] = modules[u]
  BY DEF ProcessInv, TypesInv
<1>2. Users' = Users \ {t}
  BY <1>1 DEF Users, Moved, Elsewhere, LoadPlaces
<1>3. IsFiniteSet(Users \ {t}) /\ Cardinality(Users \ {t}) = Cardinality(Users) - 1
  BY FS_RemoveElement DEF ProcessInv, LibraryInv
<1>4. \A u \in Threads : modules'[u] # "uninitialized" /\ (job'[u].at \in LoadPlaces => modules'[u] = "none")
  BY <1>1 DEF ProcessInv, LibraryInv, Moved, Elsewhere, LoadPlaces
<1> QED
  BY <1>2, <1>3, <1>4 DEF ProcessInv, LibraryInv

\* Every way out of load that does not make a module closes the library.
LEMMA StepKeepsLibraries ==
  ASSUME ProcessInv, [ProcessNext]_processVars
  PROVE  LibraryInv'
<1>1. ASSUME NEW t \in Threads, Load(t) PROVE LibraryInv'
  <2>1. CASE StartLoad(t)
    <3>1. Moved(t, {"idle"}, {"dlopen"})
      BY <2>1, Paths
    <3> QED
      BY <2>1, <3>1, LibraryFrame DEF StartLoad, Using, LoadPlaces, loads
  <2>2. CASE Dlopen(t)
    <3>1. Moved(t, {"dlopen"}, {"dlopened", "dlfailed"})
      BY <2>2, Paths
    <3>2. CASE Goto(t, "dlopened") /\ opens' = opens + 1
      <4>1. job'[t].at = "dlopened"
        BY <3>2, Moves DEF ProcessInv, Places, LoadPlaces
      <4> QED
        BY <2>2, <3>1, <3>2, <4>1, LibraryMapped DEF Dlopen, Moved
    <3>3. CASE Goto(t, "dlfailed") /\ opens' = opens
      <4>1. job'[t].at = "dlfailed"
        BY <3>3, Moves DEF ProcessInv, Places, LoadPlaces
      <4>2. Moved(t, {"dlopen"}, {"dlfailed"}) /\ UNCHANGED loads
        BY <2>2, <3>1, <3>3, <4>1 DEF Dlopen, Moved, loads
      <4> QED
        BY <4>2, LibraryFrame DEF Using, LoadPlaces
    <3> QED
      BY <2>2, <3>2, <3>3 DEF Dlopen
  <2>3. CASE CloseAfterDlopen(t)
    <3>1. Moved(t, {"dlopened", "dlfailed"}, {"lookup", "idle"})
      BY <2>3, Paths
    <3>2. CASE At(t, "dlopened") /\ Goto(t, "lookup")
      <4>1. job'[t].at = "lookup" /\ job[t].at = "dlopened"
        BY <3>2, Moves DEF ProcessInv, Places, LoadPlaces, At
      <4>2. Moved(t, {"dlopened"}, {"lookup"}) /\ UNCHANGED loads
        BY <2>3, <3>1, <4>1 DEF CloseAfterDlopen, Moved
      <4> QED
        BY <4>2, LibraryFrame DEF Using, LoadPlaces
    <3>3. CASE At(t, "dlfailed") /\ Return(t)
      <4>1. job'[t].at = "idle" /\ job[t].at = "dlfailed"
        BY <3>3, Returns DEF ProcessInv, At
      <4>2. Moved(t, {"dlfailed"}, {"idle"}) /\ UNCHANGED loads
        BY <2>3, <3>1, <4>1 DEF CloseAfterDlopen, Moved
      <4> QED
        BY <4>2, LibraryFrame DEF Using, LoadPlaces
    <3> QED
      BY <2>3, <3>2, <3>3 DEF CloseAfterDlopen
  <2>4. CASE LookupInit(t)
    <3>1. Moved(t, {"lookup"}, {"open_init", "idle"})
      BY <2>4, Paths
    <3>2. CASE Goto(t, "open_init") /\ opens' = opens
      <4>1. job'[t].at = "open_init"
        BY <3>2, Moves DEF ProcessInv, Places, LoadPlaces
      <4>2. Moved(t, {"lookup"}, {"open_init"}) /\ UNCHANGED loads
        BY <2>4, <3>1, <3>2, <4>1 DEF LookupInit, Moved, loads
      <4> QED
        BY <4>2, LibraryFrame DEF Using, LoadPlaces
    <3>3. CASE Return(t) /\ opens' = opens - 1
      <4>1. Moved(t, {"lookup"}, {"idle"})
        BY <3>1, <3>3, Returns DEF ProcessInv, Moved
      <4>2. t \in Users /\ modules' = [modules EXCEPT ![t] = "none"]
        BY <2>4, <3>1 DEF LookupInit, ProcessInv, LibraryInv, TypesInv, Users, Moved, LoadPlaces
      <4> QED
        BY <3>3, <4>1, <4>2, LibraryUnmapped
    <3> QED
      BY <2>4, <3>2, <3>3 DEF LookupInit
  <2>5. CASE OpenForInit(t)
    <3>1. Moved(t, {"open_init"}, {"init"})
      BY <2>5, Paths
    <3> QED
      BY <2>5, <3>1, LibraryFrame DEF OpenForInit, Using, LoadPlaces, loads
  <2>6. CASE RunInit(t)
    <3>1. Moved(t, {"init"}, {"init_ok", "init_failed"})
      BY <2>6, Paths
    <3> QED
      BY <2>6, <3>1, LibraryFrame DEF RunInit, Using, LoadPlaces, loads
  <2>7. CASE FinishLoad(t)
    <3>1. Moved(t, {"init_ok", "init_failed"}, {"idle"})
      BY <2>7, Paths
    <3>2. CASE At(t, "init_ok") /\ modules' = [modules EXCEPT ![t] = "initialized"] /\ opens' = opens
      <4>1. modules'[t] = "initialized" /\ \A u \in Threads : u # t => modules'[u] = modules[u]
        BY <3>2 DEF ProcessInv, TypesInv
      <4>2. Users' = Users
        BY <3>1, <3>2, <4>1 DEF Users, Moved, Elsewhere, At, LoadPlaces
      <4>3. \A u \in Threads : modules'[u] # "uninitialized" /\ (job'[u].at \in LoadPlaces => modules'[u] = "none")
        BY <3>1, <4>1 DEF ProcessInv, LibraryInv, Moved, Elsewhere, LoadPlaces
      <4> QED
        BY <3>2, <4>2, <4>3 DEF ProcessInv, LibraryInv
    <3>3. CASE At(t, "init_failed") /\ modules' = modules /\ opens' = opens - 1
      <4>1. t \in Users /\ modules' = [modules EXCEPT ![t] = "none"]
        BY <3>1, <3>3 DEF ProcessInv, LibraryInv, TypesInv, Users, Moved, At, LoadPlaces
      <4> QED
        BY <3>1, <3>3, <4>1, LibraryUnmapped
    <3> QED
      BY <2>7, <3>2, <3>3 DEF FinishLoad
  <2>8. CASE DropModule(t)
    <3>1. Moved(t, {"idle"}, {"idle"})
      BY <2>8, Paths
    <3>2. t \in Users
      BY <2>8 DEF DropModule, ProcessInv, LibraryInv, TypesInv, Users
    <3> QED
      BY <2>8, <3>1, <3>2, LibraryUnmapped DEF DropModule
  <2> QED
    BY <1>1, <2>1, <2>2, <2>3, <2>4, <2>5, <2>6, <2>7, <2>8 DEF Load
<1>2. ASSUME NEW t \in Threads, Prepare(t) PROVE LibraryInv'
  <2>1. Moved(t, CallerPath, CallerPath)
    BY <1>2, PathsOfCalls
  <2>2. UNCHANGED loads
    BY <1>2 DEF Prepare, StartImport, StartEmpty, SearchPath, SwapFinalized, MarkEnd, SwapRegistered, Register
  <2> QED
    BY <2>1, <2>2, LibraryFrame DEF CallerPath, Using, LoadPlaces, CallerPlaces, WorkerPlaces
<1>3. ASSUME NEW t \in Threads, OnWorker(t) PROVE LibraryInv'
  <2>1. Moved(t, WorkerPath, WorkerPath)
    BY <1>3, PathsOfCalls
  <2>2. UNCHANGED loads
    BY <1>3 DEF OnWorker, WithWorker, EnableInitializers, EnterImporting, Import, LeaveImporting, MkEmpty
  <2> QED
    BY <2>1, <2>2, LibraryFrame DEF WorkerPath, Using, LoadPlaces, CallerPlaces, WorkerPlaces
<1>4. CASE UNCHANGED processVars
  BY <1>4 DEF processVars, ProcessInv, LibraryInv, loads, Users
<1> QED
  BY <1>1, <1>2, <1>3, <1>4 DEF ProcessNext

-----------------------------------------------------------------------------
\* The invariant holds of every state.
LEMMA ProcessInvHolds == ProcessSpec => []ProcessInv
<1>1. ProcessInv /\ [ProcessNext]_processVars => ProcessInv'
  BY StepKeepsTypes, StepKeepsJobs, StepKeepsPhase, StepKeepsWindow, StepKeepsSwitch,
     StepKeepsTactics, StepKeepsLibraries DEF ProcessInv
<1> QED
  BY InitEstablishesProcessInv, <1>1, PTL DEF ProcessSpec

\* The variables keep their types; in particular no library is closed more often
\* than it was opened (module.rs:158-215).
THEOREM TypeCorrect == ProcessSpec => []ProcessTypeOK
<1>1. ProcessInv => ProcessTypeOK
  BY FS_CardinalityType DEF ProcessInv, TypesInv, LibraryInv, ProcessTypeOK
<1> QED
  BY ProcessInvHolds, <1>1, PTL

\* No way out of a load or an import leaves importing mode on behind the last
\* window (module.rs:172-206).
THEOREM ImportingEnds == ProcessSpec => []WindowCloses
<1>1. ProcessInv => WindowCloses
  BY DEF ProcessInv
<1> QED
  BY ProcessInvHolds, <1>1, PTL

\* The end of the initialization phase is marked once however many threads ask for
\* it (runtime.rs:158-165).
THEOREM PhaseEndIsUnique == ProcessSpec => []PhaseEndsOnce
<1>1. ProcessInv => PhaseEndsOnce
  BY DEF ProcessInv, PhaseInv
<1> QED
  BY ProcessInvHolds, <1>1, PTL

\* No builtin tactic is added twice, and the table is complete when nobody is at
\* it any more (repl.rs:64-134).
THEOREM RegistrationIsUnique == ProcessSpec => []TacticsRegisteredOnce
<1> USE ProcessStateAssumption
<1>1. ASSUME NEW n \in 0..NTactics, table = Added(n)
      PROVE  \A i \in Tactics : table[i] \in {AddedAtBoot[i], AddedAtBoot[i] + 1}
  BY <1>1 DEF Added, AddedAtBoot, Tactics
<1>2. table = Added(NTactics) => \A i \in Tactics : table[i] = AddedAtBoot[i] + 1
  BY DEF Added, AddedAtBoot, Tactics
<1>3. ProcessInv => TacticsRegisteredOnce
  BY <1>1, <1>2 DEF ProcessInv, TacticsInv, TacticsRegisteredOnce
<1> QED
  BY ProcessInvHolds, <1>3, PTL

\* No import finds the switch off that another import left off (repl.rs:861-922).
THEOREM ImportsInitialize == ProcessSpec => []ImportsAreEnabled
<1>1. ProcessInv => ImportsAreEnabled
  BY DEF ProcessInv, SwitchInv
<1> QED
  BY ProcessInvHolds, <1>1, PTL

\* Libraries are mapped exactly while they are used (module.rs:173-214).
THEOREM LibrariesMatchUse == ProcessSpec => []LibraryOpenWhileUsed
<1>1. ProcessInv => LibraryOpenWhileUsed
  BY DEF ProcessInv, LibraryInv, LibraryOpenWhileUsed, Users
<1> QED
  BY ProcessInvHolds, <1>1, PTL

-----------------------------------------------------------------------------
(* Proof sessions.                                                          *)

IsContext(c) ==
  /\ c = [meta |-> c.meta, core |-> c.core, env |-> c.env, lctx |-> c.lctx]
  /\ c.core = [next |-> c.core.next, env |-> c.core.env, error |-> c.core.error]
  /\ c.meta = [decl |-> c.meta.decl, asg |-> c.meta.asg]
  /\ c.core.next \in Nat
  /\ \A n \in Declared(c.meta) : c.meta.decl[n].scope \in Nat

\* d keeps what c has
Keeps(c, d) ==
  /\ Declared(c.meta) \subseteq Declared(d.meta)
  /\ Assigned(c.meta) \subseteq Assigned(d.meta)
  /\ \A n \in Declared(c.meta) : d.meta.decl[n] = c.meta.decl[n]

\* what d has on top of c is new
Adds(c, d) ==
  /\ c.core.next <= d.core.next
  /\ \A n \in Declared(d.meta) \ Declared(c.meta) :
       /\ n \in c.core.next .. d.core.next - 1
       /\ d.meta.decl[n].parent \in Declared(c.meta)
       /\ c.meta.decl[d.meta.decl[n].parent].scope <= d.meta.decl[n].scope

\* the rest is the same
Leaves(c, d) ==
  d.env = c.env /\ d.core.env = c.core.env /\ d.core.error = c.core.error /\ d.lctx = c.lctx

ExtendsTo(c, d) == IsContext(d) /\ Keeps(c, d) /\ Adds(c, d) /\ Leaves(c, d)

\* an outcome of a call on c for goal g
Sound(c, g, o) ==
  /\ o.res \in {"ok", "err"}
  /\ ExtendsTo(c, o.c)
  /\ o.res = "err" /\ g \notin Assigned(c.meta) => g \notin Assigned(o.c.meta)

-----------------------------------------------------------------------------
\* A context extends itself.
LEMMA ExtendsRefl ==
  ASSUME NEW c, IsContext(c)
  PROVE  ExtendsTo(c, c)
BY DEF IsContext, ExtendsTo, Keeps, Adds, Leaves

\* What extends an extension extends the original, as long as what it adds is
\* for goals of the original.
LEMMA AssignExtends ==
  ASSUME NEW c, NEW d, NEW e, IsContext(c), ExtendsTo(c, d), ExtendsTo(d, e),
         Declared(e.meta) = Declared(d.meta)
  PROVE  ExtendsTo(c, e)
<1>1. Keeps(c, e)
  BY DEF ExtendsTo, Keeps
<1>2. Adds(c, e)
  BY DEF ExtendsTo, Adds, IsContext, Keeps
<1>3. Leaves(c, e)
  BY DEF ExtendsTo, Leaves
<1> QED
  BY <1>1, <1>2, <1>3 DEF ExtendsTo

\* Another local context makes another context, and the old one gives the old.
LEMMA ScopeChanges ==
  ASSUME NEW c, NEW l, NEW d, IsContext(c), d = [c EXCEPT !.lctx = l]
  PROVE  /\ IsContext(d) /\ d.meta = c.meta /\ d.core = c.core /\ d.env = c.env /\ d.lctx = l
         /\ [d EXCEPT !.lctx = c.lctx] = c
<1>1. d = [meta |-> c.meta, core |-> c.core, env |-> c.env, lctx |-> l]
  BY DEF IsContext
<1>2. [d EXCEPT !.lctx = c.lctx] = [meta |-> c.meta, core |-> c.core, env |-> c.env, lctx |-> c.lctx]
  <2>1. [[meta |-> c.meta, core |-> c.core, env |-> c.env, lctx |-> l] EXCEPT !.lctx = c.lctx]
          = [meta |-> c.meta, core |-> c.core, env |-> c.env, lctx |-> c.lctx]
    OBVIOUS
  <2> QED
    BY <1>1, <2>1
<1> QED
  BY <1>1, <1>2 DEF IsContext

\* An outcome of MVarId.checkedAssign: the goal gets its term when it succeeds, and what it
\* unifies on its way a closed one, also when it answers false.
AssignOutcome(c, g, t, o) ==
  /\ o = [res |-> o.res, c |-> o.c] /\ o.res \in {"ok", "err"}
  /\ IsContext(o.c) /\ o.c.meta.decl = c.meta.decl /\ o.c.core = c.core /\ Leaves(c, o.c)
  /\ o.c = c \/ o.c.meta.asg = [x \in Assigned(o.c.meta) |-> o.c.meta.asg[x]]
  /\ \E u \in SUBSET ((t \cap Open(c.meta)) \ {g}) :
       /\ Assigned(o.c.meta) = (Assigned(c.meta) \cup u) \cup (IF o.res = "ok" THEN {g} ELSE {})
       /\ \A x \in Assigned(o.c.meta) :
            o.c.meta.asg[x] = IF o.res = "ok" /\ x = g THEN t
                              ELSE IF x \in u THEN {} ELSE c.meta.asg[x]

\* Unifying leaves everything else as it is.
LEMMA UnifiedEffect ==
  ASSUME NEW c, NEW u, IsContext(c)
  PROVE  Unified(c, u)
           = [meta |-> [decl |-> c.meta.decl,
                        asg |-> [x \in DOMAIN c.meta.asg \cup u |->
                                   IF x \in u THEN {} ELSE c.meta.asg[x]]],
              core |-> c.core, env |-> c.env, lctx |-> c.lctx]
<1> DEFINE a == [x \in DOMAIN c.meta.asg \cup u |-> IF x \in u THEN {} ELSE c.meta.asg[x]]
           m == [c.meta EXCEPT !.asg = a]
<1>1. Unified(c, u) = [c EXCEPT !.meta = m]
  BY DEF Unified
<1>2. m = [decl |-> c.meta.decl, asg |-> a]
  <2> HIDE DEF a
  <2> QED
    BY DEF IsContext
<1> HIDE DEF a, m
<1>3. [c EXCEPT !.meta = m] = [meta |-> m, core |-> c.core, env |-> c.env, lctx |-> c.lctx]
  BY DEF IsContext
<1> QED
  BY <1>1, <1>2, <1>3 DEF a

\* There are no others.
LEMMA CheckedAssignEffect ==
  ASSUME NEW c, NEW g, NEW t, IsContext(c), NEW o \in CheckedAssign(c, g, t)
  PROVE  AssignOutcome(c, g, t, o)
<1>1. CASE o = [res |-> "err", c |-> c]
  <2>1. /\ Assigned(c.meta) = (Assigned(c.meta) \cup {}) \cup {}
        /\ {} \in SUBSET ((t \cap Open(c.meta)) \ {g})
    OBVIOUS
  <2>2. o.res = "err" /\ o.c = c /\ o = [res |-> o.res, c |-> o.c]
    BY <1>1
  <2> QED
    BY <2>1, <2>2 DEF Leaves, AssignOutcome
<1>2. ASSUME NEW u \in SUBSET ((t \cap Open(c.meta)) \ {g}), o = [res |-> "err", c |-> Unified(c, u)]
      PROVE  /\ o = [res |-> o.res, c |-> o.c] /\ o.res = "err"
             /\ IsContext(o.c) /\ o.c.meta.decl = c.meta.decl /\ o.c.core = c.core /\ Leaves(c, o.c)
             /\ o.c.meta.asg = [x \in Assigned(o.c.meta) |-> o.c.meta.asg[x]]
             /\ Assigned(o.c.meta) = Assigned(c.meta) \cup u
             /\ \A x \in Assigned(o.c.meta) :
                  o.c.meta.asg[x] = IF x \in u THEN {} ELSE c.meta.asg[x]
  BY <1>2 DEF Unified, IsContext, Leaves, Declared, Assigned
<1>3. ASSUME NEW u \in SUBSET ((t \cap Open(c.meta)) \ {g}),
             o = [res |-> "ok", c |-> [Unified(c, u) EXCEPT !.meta = Assign(@, g, t)]]
      PROVE  /\ o = [res |-> o.res, c |-> o.c] /\ o.res = "ok"
             /\ IsContext(o.c) /\ o.c.meta.decl = c.meta.decl /\ o.c.core = c.core /\ Leaves(c, o.c)
             /\ o.c.meta.asg = [x \in Assigned(o.c.meta) |-> o.c.meta.asg[x]]
             /\ Assigned(o.c.meta) = (Assigned(c.meta) \cup u) \cup {g}
             /\ \A x \in Assigned(o.c.meta) :
                  o.c.meta.asg[x] = IF x = g THEN t ELSE IF x \in u THEN {} ELSE c.meta.asg[x]
  <2> DEFINE d == Unified(c, u)
  <2>0. d = [meta |-> [decl |-> c.meta.decl,
                       asg |-> [x \in DOMAIN c.meta.asg \cup u |-> IF x \in u THEN {} ELSE c.meta.asg[x]]],
             core |-> c.core, env |-> c.env, lctx |-> c.lctx]
    BY UnifiedEffect
  <2>1. /\ d = [meta |-> d.meta, core |-> c.core, env |-> c.env, lctx |-> c.lctx]
        /\ d.meta = [decl |-> c.meta.decl, asg |-> d.meta.asg]
        /\ DOMAIN d.meta.asg = Assigned(c.meta) \cup u
        /\ \A x \in DOMAIN d.meta.asg : d.meta.asg[x] = IF x \in u THEN {} ELSE c.meta.asg[x]
    <3> HIDE DEF d
    <3> QED
      BY <2>0 DEF Assigned
  <2>2. o = [res |-> "ok", c |-> [d EXCEPT !.meta = Assign(d.meta, g, t)]]
    BY <1>3
  <2> HIDE DEF d
  <2> DEFINE m == Assign(d.meta, g, t)
  <2>3. m = [decl |-> c.meta.decl, asg |-> Override(d.meta.asg, g, t)]
    BY <2>1 DEF Assign
  <2>4. /\ m = [decl |-> c.meta.decl, asg |-> m.asg]
        /\ m.asg = [x \in DOMAIN m.asg |-> m.asg[x]]
        /\ DOMAIN m.asg = (Assigned(c.meta) \cup u) \cup {g}
        /\ \A x \in DOMAIN m.asg :
             m.asg[x] = IF x = g THEN t ELSE IF x \in u THEN {} ELSE c.meta.asg[x]
    BY <2>1, <2>3 DEF Override
  <2> HIDE DEF m
  <2>5. o.c = [meta |-> m, core |-> c.core, env |-> c.env, lctx |-> c.lctx]
    BY <2>1, <2>2 DEF m
  <2> QED
    BY <2>2, <2>4, <2>5 DEF IsContext, Leaves, Declared, Assigned
<1>4. \/ o = [res |-> "err", c |-> c]
      \/ \E u \in SUBSET ((t \cap Open(c.meta)) \ {g}) :
           \/ o = [res |-> "err", c |-> Unified(c, u)]
           \/ o = [res |-> "ok", c |-> [Unified(c, u) EXCEPT !.meta = Assign(@, g, t)]]
  BY DEF CheckedAssign
<1>5. ASSUME NEW u \in SUBSET ((t \cap Open(c.meta)) \ {g}), o = [res |-> "err", c |-> Unified(c, u)]
      PROVE  Assigned(o.c.meta) = (Assigned(c.meta) \cup u) \cup {}
  BY <1>2, <1>5
<1> QED
  BY <1>1, <1>2, <1>3, <1>4, <1>5 DEF AssignOutcome

\* It extends the context, and leaves its goal alone when it fails.
LEMMA CheckedAssignExtends ==
  ASSUME NEW c, NEW g, NEW t, IsContext(c), NEW o \in CheckedAssign(c, g, t)
  PROVE  /\ Sound(c, g, o)
         /\ Declared(o.c.meta) = Declared(c.meta)
<1>0. AssignOutcome(c, g, t, o)
  BY CheckedAssignEffect
<1>1. PICK u \in SUBSET ((t \cap Open(c.meta)) \ {g}) :
        Assigned(o.c.meta) = (Assigned(c.meta) \cup u) \cup (IF o.res = "ok" THEN {g} ELSE {})
  BY <1>0 DEF AssignOutcome
<1>2. /\ o.res \in {"ok", "err"} /\ IsContext(o.c) /\ o.c.meta.decl = c.meta.decl
      /\ o.c.core = c.core /\ Leaves(c, o.c)
  BY <1>0 DEF AssignOutcome
<1> QED
  BY <1>1, <1>2 DEF Sound, ExtendsTo, Keeps, Adds, Declared, IsContext

\* The same inside of with_local_context.
LEMMA AssignInScopeExtends ==
  ASSUME NEW c, NEW g, NEW t, IsContext(c), NEW o \in AssignInScope(c, g, t)
  PROVE  /\ Sound(c, g, o)
         /\ Declared(o.c.meta) = Declared(c.meta)
<1> DEFINE s == EnterScope(c, g)
<1>1. IsContext(s) /\ s.meta = c.meta /\ s.core = c.core /\ s.env = c.env
  BY ScopeChanges DEF EnterScope
<1>2. PICK p \in CheckedAssign(s, g, t) : o = [p EXCEPT !.c.lctx = c.lctx]
  BY DEF AssignInScope, LeaveScope
<1>3. p = [res |-> p.res, c |-> p.c]
  <2>1. AssignOutcome(s, g, t, p)
    BY <1>1, <1>2, CheckedAssignEffect
  <2> QED
    BY <2>1 DEF AssignOutcome
<1>4. Sound(s, g, p) /\ Declared(p.c.meta) = Declared(s.meta)
  BY <1>1, <1>2, CheckedAssignExtends
<1>5. IsContext(p.c)
  BY <1>4 DEF Sound, ExtendsTo
<1>6. o.res = p.res /\ o.c = [p.c EXCEPT !.lctx = c.lctx]
  BY <1>2, <1>3
<1>7. IsContext(o.c) /\ o.c.meta = p.c.meta /\ o.c.core = p.c.core /\ o.c.env = p.c.env
        /\ o.c.lctx = c.lctx
  BY <1>5, <1>6, ScopeChanges
<1> QED
  BY <1>1, <1>4, <1>6, <1>7 DEF Sound, ExtendsTo, Keeps, Adds, Leaves

\* Looking at a goal leaves the context as it was, its local context included,
\* and succeeds only for a goal that is declared.
LEMMA ExamineExtends ==
  ASSUME NEW c, NEW g, IsContext(c), NEW o \in Examine(c, g)
  PROVE  /\ o.c = c
         /\ o.res \in {"ok", "err"}
         /\ o.res = "ok" => g \in Declared(c.meta)
<1>1. \A p \in GetMVarDecl(c, g) :
        p.c = c /\ p.res \in {"ok", "err"} /\ (p.res = "ok" => g \in Declared(c.meta))
  BY DEF GetMVarDecl, Run
<1>2. CASE o \in Failed(GetMVarDecl(c, g))
  BY <1>1, <1>2 DEF Failed
<1>3. CASE o \notin Failed(GetMVarDecl(c, g))
  <2>1. PICK d \in Onward(GetMVarDecl(c, g)) : o \in LeaveScope(Run(EnterScope(d, g)), d)
    BY <1>3 DEF Examine
  <2>2. d = c /\ g \in Declared(c.meta)
    BY <1>1, <2>1 DEF Onward, Failed
  <2>3. PICK r \in {"ok", "err"} :
          o = [[res |-> r, c |-> EnterScope(c, g)] EXCEPT !.c.lctx = c.lctx]
    BY <2>1, <2>2 DEF LeaveScope, Run
  <2>4. o.c = [EnterScope(c, g) EXCEPT !.lctx = c.lctx] /\ o.res = r
    BY <2>3
  <2> QED
    BY <2>2, <2>4, ScopeChanges DEF EnterScope
<1> QED
  BY <1>2, <1>3

\* exact, rfl and assumption
LEMMA CloseGoalExtends ==
  ASSUME NEW c, NEW g, NEW t, IsContext(c), NEW o \in CloseGoal(c, g, t)
  PROVE  Sound(c, g, o)
<1>1. CASE o \in Failed(Examine(c, g))
  BY <1>1, ExamineExtends, ExtendsRefl DEF Failed, Sound
<1>2. CASE o \notin Failed(Examine(c, g))
  <2>1. PICK d \in Onward(Examine(c, g)) : o \in AssignInScope(d, g, t)
    BY <1>2 DEF CloseGoal
  <2>2. d = c
    BY <2>1, ExamineExtends DEF Onward, Failed
  <2> QED
    BY <2>1, <2>2, AssignInScopeExtends
<1> QED
  BY <1>1, <1>2

\* apply's loop over the binders
LEMMA PeelExtends ==
  ASSUME NEW c, NEW g \in Declared(c.meta), IsContext(c), NEW o \in Peel(c, g)
  PROVE  /\ ExtendsTo(c, o.c)
         /\ Assigned(o.c.meta) = Assigned(c.meta)
         /\ o.res \in {"ok", "err"}
<1>1. PICK r \in {"ok", "err"}, k \in 0 .. MaxNew(c) :
        o = [res |-> r, c |-> Peeled(c, g, k)]
  BY DEF Peel
<1>2. k \in Nat
  BY <1>1
<1> DEFINE n == c.core.next
           m == Declare(c.meta, n, k, c.meta.decl[g].scope, g)
<1>3. /\ o.res = r
      /\ o.c.meta = m
      /\ o.c.core = [next |-> n + k, env |-> c.core.env, error |-> c.core.error]
      /\ o.c = [meta |-> o.c.meta, core |-> o.c.core, env |-> o.c.env, lctx |-> o.c.lctx]
      /\ o.c.env = c.env /\ o.c.lctx = c.lctx
  BY <1>1 DEF IsContext, Peeled
<1>4. /\ m = [decl |-> m.decl, asg |-> c.meta.asg]
      /\ DOMAIN m.decl = DOMAIN c.meta.decl \cup n .. n + k - 1
      /\ \A x \in DOMAIN c.meta.decl : m.decl[x] = c.meta.decl[x]
      /\ \A x \in DOMAIN m.decl \ DOMAIN c.meta.decl :
           m.decl[x] = [scope |-> c.meta.decl[g].scope, parent |-> g]
  BY DEF IsContext, Declare
<1>5. c.meta.decl[g].scope \in Nat /\ n \in Nat
  BY DEF IsContext
<1>6. IsContext(o.c)
  BY <1>2, <1>3, <1>4, <1>5 DEF IsContext, Declared
<1>7. Keeps(c, o.c) /\ Leaves(c, o.c) /\ Assigned(o.c.meta) = Assigned(c.meta)
  BY <1>3, <1>4 DEF Keeps, Leaves, Declared, Assigned
<1>8. Adds(c, o.c)
  <2>1. c.core.next <= o.c.core.next
    BY <1>2, <1>3, <1>5
  <2>2. ASSUME NEW x \in Declared(o.c.meta) \ Declared(c.meta)
        PROVE  /\ x \in c.core.next .. o.c.core.next - 1
               /\ o.c.meta.decl[x] = [scope |-> c.meta.decl[g].scope, parent |-> g]
    <3>1. x \in DOMAIN m.decl \ DOMAIN c.meta.decl
      BY <1>3, <2>2 DEF Declared
    <3>2. o.c.core.next = n + k
      BY <1>3
    <3>3. x \in n .. n + k - 1
      BY <1>4, <3>1
    <3>4. x \in c.core.next .. o.c.core.next - 1
      BY <1>2, <1>5, <3>2, <3>3
    <3>5. o.c.meta.decl[x] = m.decl[x]
      BY <1>3
    <3>6. m.decl[x] = [scope |-> c.meta.decl[g].scope, parent |-> g]
      BY <1>4, <3>1
    <3> QED
      BY <3>4, <3>5, <3>6
  <2> QED
    BY <1>5, <2>1, <2>2 DEF Adds
<1> QED
  BY <1>3, <1>6, <1>7, <1>8 DEF ExtendsTo

\* Assigning a metavariable leaves the declarations alone.
LEMMA AssignEffect ==
  ASSUME NEW m, NEW g, NEW t, m = [decl |-> m.decl, asg |-> m.asg]
  PROVE  /\ Assign(m, g, t) = [decl |-> m.decl, asg |-> Assign(m, g, t).asg]
         /\ DOMAIN Assign(m, g, t).asg = DOMAIN m.asg \cup {g}
<1> DEFINE a == Override(m.asg, g, t)
<1>1. Assign(m, g, t) = [decl |-> m.decl, asg |-> a]
  BY DEF Assign
<1>2. DOMAIN a = DOMAIN m.asg \cup {g}
  BY DEF Override
<1> HIDE DEF a
<1> QED
  BY <1>1, <1>2

\* intro
LEMMA IntroExtends ==
  ASSUME NEW c, NEW g, IsContext(c), NEW o \in IntroGoal(c, g)
  PROVE  Sound(c, g, o)
<1> DEFINE n == c.core.next
<1>2. CASE o = [res |-> "err", c |-> c]
  BY <1>2, ExtendsRefl DEF Sound
<1>3. CASE o # [res |-> "err", c |-> c]
  <2>1. g \in Open(c.meta) /\ o.res = "ok"
    BY <1>3 DEF IntroGoal, RunPersistent
  <2>2. PICK s \in {c.meta.decl[g].scope + 1} \cap 0 .. MaxScope : o.c = Introduced(c, g, s)
    BY <1>3 DEF IntroGoal, RunPersistent
  <2>3. g \in DOMAIN c.meta.decl /\ n \in Nat /\ c.meta.decl[g].scope \in Nat
    BY <2>1 DEF Open, Declared, IsContext
  <2> DEFINE d == Declare(c.meta, n, 1, s, g)
             m == Assign(d, g, {n})
  <2>4. /\ d = [decl |-> d.decl, asg |-> c.meta.asg]
        /\ DOMAIN d.decl = DOMAIN c.meta.decl \cup {n}
        /\ \A x \in DOMAIN c.meta.decl : d.decl[x] = c.meta.decl[x]
        /\ n \notin DOMAIN c.meta.decl => d.decl[n] = [scope |-> s, parent |-> g]
    <3>1. n .. n + 1 - 1 = {n}
      BY <2>3
    <3> QED
      BY <3>1 DEF IsContext, Declare
  <2> HIDE DEF d, m
  <2>5. /\ m = [decl |-> d.decl, asg |-> m.asg]
        /\ DOMAIN m.asg = DOMAIN c.meta.asg \cup {g}
    <3>1. d = [decl |-> d.decl, asg |-> d.asg] /\ d.asg = c.meta.asg
      BY <2>4
    <3>2. /\ Assign(d, g, {n}) = [decl |-> d.decl, asg |-> Assign(d, g, {n}).asg]
          /\ DOMAIN Assign(d, g, {n}).asg = DOMAIN d.asg \cup {g}
      <4> HIDE DEF n
      <4> QED
        BY <3>1, AssignEffect, Zenon
    <3> QED
      BY <3>1, <3>2 DEF m
  <2>6. /\ o.c.meta = m
        /\ o.c.core = [next |-> n + 1, env |-> c.core.env, error |-> c.core.error]
        /\ o.c = [meta |-> o.c.meta, core |-> o.c.core, env |-> o.c.env, lctx |-> o.c.lctx]
        /\ o.c.env = c.env /\ o.c.lctx = c.lctx
    BY <2>2 DEF IsContext, Introduced, d, m
  <2>7. s \in Nat /\ c.meta.decl[g].scope <= s
    BY <2>2, <2>3
  <2>8. IsContext(o.c)
    <3>1. \A x \in DOMAIN d.decl : d.decl[x].scope \in Nat
      BY <2>4, <2>7 DEF IsContext, Declared
    <3> QED
      BY <2>3, <2>5, <2>6, <3>1 DEF IsContext, Declared
  <2>9. Keeps(c, o.c) /\ Leaves(c, o.c)
    BY <2>4, <2>5, <2>6 DEF Keeps, Leaves, Declared, Assigned
  <2>10. Adds(c, o.c)
    <3>1. c.core.next <= o.c.core.next
      BY <2>3, <2>6
    <3>2. ASSUME NEW x \in Declared(o.c.meta) \ Declared(c.meta)
          PROVE  /\ x \in c.core.next .. o.c.core.next - 1
                 /\ o.c.meta.decl[x] = [scope |-> s, parent |-> g]
      <4>1. o.c.meta.decl = d.decl
        BY <2>5, <2>6
      <4>2. x = n /\ n \notin DOMAIN c.meta.decl
        BY <2>4, <3>2, <4>1 DEF Declared
      <4>3. n \in n .. (n + 1) - 1
        BY <2>3
      <4>4. o.c.core.next = n + 1
        BY <2>6
      <4> QED
        BY <2>3, <2>4, <4>1, <4>2, <4>3, <4>4
    <3> QED
      BY <2>3, <2>7, <3>1, <3>2 DEF Adds, Declared
  <2> QED
    BY <2>1, <2>8, <2>9, <2>10 DEF Sound, ExtendsTo
<1> QED
  BY <1>2, <1>3

\* apply: wherever it fails, what it has declared stays, and its goal is not assigned.
LEMMA ApplyExtends ==
  ASSUME NEW c, NEW g, IsContext(c), NEW o \in ApplyGoal(c, g)
  PROVE  Sound(c, g, o)
<1> DEFINE peeled == UNION {Peel(d, g) : d \in Onward(Examine(c, g))}
<1>2. \A d \in Onward(Examine(c, g)) : d = c /\ g \in Declared(c.meta)
  BY ExamineExtends DEF Onward, Failed
<1>3. \A q \in peeled :
        ExtendsTo(c, q.c) /\ Assigned(q.c.meta) = Assigned(c.meta) /\ q.res \in {"ok", "err"}
  BY <1>2, PeelExtends
<1>4. CASE o \in Failed(Examine(c, g))
  BY <1>4, ExamineExtends, ExtendsRefl DEF Failed, Sound
<1>5. CASE o \in Failed(peeled)
  BY <1>3, <1>5 DEF Failed, Sound
<1>6. CASE \E d \in Onward(peeled) : o \in AssignInScope(d, g, Range(NewGoals(c, d)))
  <2>1. PICK d \in Onward(peeled) : o \in AssignInScope(d, g, Range(NewGoals(c, d)))
    BY <1>6
  <2>2. ExtendsTo(c, d) /\ Assigned(d.meta) = Assigned(c.meta)
    BY <1>3, <2>1 DEF Onward, Failed
  <2>3. Sound(d, g, o) /\ Declared(o.c.meta) = Declared(d.meta)
    BY <2>1, <2>2, AssignInScopeExtends DEF ExtendsTo
  <2>4. ExtendsTo(c, o.c)
    BY <2>2, <2>3, AssignExtends DEF Sound
  <2> QED
    BY <2>2, <2>3, <2>4 DEF Sound
<1> QED
  BY <1>4, <1>5, <1>6 DEF ApplyGoal

\* Every tactic of tactic.rs, on whatever list of goals.
LEMMA TacticsExtend ==
  ASSUME NEW c, NEW gs, NEW t, IsContext(c),
         NEW o \in Exact(c, gs, t) \cup Rfl(c, gs) \cup Assumption(c, gs) \cup Intro(c, gs)
                     \cup Apply(c, gs) \cup Focus(c, gs)
  PROVE  Sound(c, Head(gs), o)
<1>1. ASSUME NEW g, NEW p \in NoGoals(c) PROVE Sound(c, g, p)
  BY <1>1, ExtendsRefl DEF NoGoals, Sound
<1>2. ASSUME NEW u, NEW g, NEW hs, NEW p \in Leaving(CloseGoal(c, g, u), hs) PROVE Sound(c, g, p)
  BY <1>2, CloseGoalExtends DEF Leaving, Sound
<1>3. ASSUME NEW hs, NEW p \in Intro(c, hs) PROVE Sound(c, Head(hs), p)
  <2>1. CASE hs = <<>>
    BY <1>1, <1>3, <2>1 DEF Intro
  <2>2. CASE hs # <<>>
    BY <1>3, <2>2, IntroExtends DEF Intro, Leaving, Sound
  <2> QED
    BY <2>1, <2>2
<1>4. ASSUME NEW hs, NEW p \in Apply(c, hs) PROVE Sound(c, Head(hs), p)
  <2>1. CASE hs = <<>>
    BY <1>1, <1>4, <2>1 DEF Apply
  <2>2. CASE hs # <<>>
    BY <1>4, <2>2, ApplyExtends DEF Apply, Sound
  <2> QED
    BY <2>1, <2>2
<1>5. CASE o \in Focus(c, gs)
  <2>1. CASE gs = <<>>
    BY <1>1, <1>5, <2>1 DEF Focus
  <2>2. CASE gs # <<>>
    <3> DEFINE main == <<Head(gs)>>
    <3>1. PICK p \in Apply(c, main) \cup Intro(c, main) :
            o = [res |-> p.res, c |-> p.c, goals |-> p.goals \o Tail(gs)]
      BY <1>5, <2>2 DEF Focus
    <3>2. Head(main) = Head(gs)
      OBVIOUS
    <3> HIDE DEF main
    <3>3. Sound(c, Head(gs), p)
      BY <1>3, <1>4, <3>1, <3>2
    <3> QED
      BY <3>1, <3>3 DEF Sound
  <2> QED
    BY <2>1, <2>2
<1>6. CASE o \in Exact(c, gs, t) \cup Rfl(c, gs) \cup Assumption(c, gs)
  BY <1>1, <1>2, <1>6 DEF Exact, Rfl, Assumption
<1> QED
  BY <1>3, <1>4, <1>5, <1>6

-----------------------------------------------------------------------------
(* The inductive invariant.                                                *)

\* A Meta.State is a record in which local contexts are numbered.
Shaped(m) ==
  /\ m = [decl |-> m.decl, asg |-> m.asg]
  /\ \A n \in Declared(m) : m.decl[n].scope \in Nat

\* The names in a metavariable context come before the generator's next one, and
\* what was declared for a goal has its hypotheses.
GoodMeta(m, next) ==
  /\ m = [decl |-> m.decl, asg |-> m.asg]
  /\ \A n \in Declared(m) :
       /\ n \in 0 .. next - 1
       /\ m.decl[n].scope \in Nat
       /\ IF m.decl[n].parent = Missing THEN m.decl[n].scope = 0
          ELSE /\ m.decl[n].parent \in Declared(m)
               /\ m.decl[m.decl[n].parent].scope <= m.decl[n].scope

\* What the context and its snapshots are as long as run_tactic went on from no
\* reference that was out of step.
GoodInv ==
  /\ GoodMeta(session.meta, session.core.next)
  /\ \A s \in saved : GoodMeta(s.meta, session.core.next)

\* Between two calls, whatever references the caller uses: the context is in
\* nobody's scope and the environments are in step.
IInv ==
  /\ IsContext(session)
  /\ \A s \in saved : Shaped(s.meta)
  /\ ref # Missing => Shaped(ref)
  /\ session.lctx = 0
  /\ session.env \subseteq session.core.env
  /\ fetched # Missing => session.env \subseteq fetched
  /\ FailureLeavesGoalOpen
  /\ ~strayed => GoodInv

\* A later generator is as good.
LEMMA GoodMetaGrows ==
  ASSUME NEW m, NEW i \in Nat, NEW j \in Nat, i <= j, GoodMeta(m, i)
  PROVE  GoodMeta(m, j)
BY DEF GoodMeta

\* An extension of a good context is good.
LEMMA GoodMetaExtends ==
  ASSUME NEW c, NEW d, IsContext(c), GoodMeta(c.meta, c.core.next), ExtendsTo(c, d)
  PROVE  GoodMeta(d.meta, d.core.next)
<1>1. c.core.next \in Nat /\ d.core.next \in Nat /\ c.core.next <= d.core.next
  BY DEF ExtendsTo, IsContext, Adds
<1>2. ASSUME NEW n \in Declared(d.meta)
      PROVE  /\ n \in 0 .. d.core.next - 1
             /\ d.meta.decl[n].scope \in Nat
             /\ IF d.meta.decl[n].parent = Missing THEN d.meta.decl[n].scope = 0
                ELSE /\ d.meta.decl[n].parent \in Declared(d.meta)
                     /\ d.meta.decl[d.meta.decl[n].parent].scope <= d.meta.decl[n].scope
  <2>1. d.meta.decl[n].scope \in Nat
    BY <1>2 DEF ExtendsTo, IsContext
  <2>2. CASE n \in Declared(c.meta)
    BY <1>1, <2>1, <2>2 DEF GoodMeta, ExtendsTo, Keeps
  <2>3. CASE n \notin Declared(c.meta)
    <3>1. /\ n \in c.core.next .. d.core.next - 1
          /\ d.meta.decl[n].parent \in Declared(c.meta)
          /\ c.meta.decl[d.meta.decl[n].parent].scope <= d.meta.decl[n].scope
      BY <1>2, <2>3 DEF ExtendsTo, Adds
    <3>2. d.meta.decl[n].parent \in Nat
      BY <1>1, <3>1 DEF GoodMeta
    <3>3. d.meta.decl[n].parent # Missing
      BY <3>2, ProofSessionAssumption
    <3> DEFINE p == d.meta.decl[n].parent
    <3>4. p \in Declared(d.meta) /\ d.meta.decl[p] = c.meta.decl[p]
      BY <3>1 DEF ExtendsTo, Keeps
    <3>5. d.meta.decl[p].scope <= d.meta.decl[n].scope
      BY <3>1, <3>4
    <3>6. n \in 0 .. d.core.next - 1
      BY <1>1, <3>1
    <3> QED
      BY <2>1, <3>3, <3>4, <3>5, <3>6
  <2> QED
    BY <2>2, <2>3
<1> QED
  BY <1>2 DEF GoodMeta, ExtendsTo, IsContext

\* What run_tactic works on is a Meta.State, and that of the context unless the
\* reference is out of step.
LEMMA ViewOfContext ==
  ASSUME IInv
  PROVE  Shaped(View) /\ (~OutOfStep => View = session.meta)
BY DEF IInv, View, OutOfStep, Shaped, IsContext

\* A new context satisfies the invariant.
LEMMA InitInv == SessionInit => IInv
<1> SUFFICES ASSUME SessionInit PROVE IInv
  OBVIOUS
<1>1. IsContext(session) /\ GoodMeta(session.meta, session.core.next)
  BY DEF SessionInit, NoMeta, IsContext, GoodMeta, Declared
<1> QED
  BY <1>1 DEF SessionInit, IInv, GoodInv, FailureLeavesGoalOpen

-----------------------------------------------------------------------------
(* The steps.                                                              *)

\* The step form of NothingForgotten.
Remembers ==
  /\ \/ answer'.res = "branched"
     \/ OutOfStep /\ session'.meta = ref'
     \/ /\ Declared(session.meta) \subseteq Declared(session.meta)'
        /\ Assigned(session.meta) \subseteq Assigned(session.meta)'
  /\ session.env \subseteq session'.core.env

\* A call that is not run_tactic keeps the reference or drops it.
LEMMA RefStaysShaped ==
  ASSUME IInv, RefUnused
  PROVE  (ref' # Missing => Shaped(ref')) /\ strayed' = strayed
BY DEF IInv, RefUnused

\* A step that takes the context to an extension of it.
LEMMA ExtendingStep ==
  ASSUME IInv, ExtendsTo(session, session'), UNCHANGED <<fetched, saved, strayed>>,
         ref' # Missing => Shaped(ref'),
         answer'.res = "err" /\ answer'.goal # Missing =>
           answer'.goal \in Open(session.meta) /\ answer'.goal \notin Assigned(session'.meta)
  PROVE  IInv' /\ Remembers
<1>1. IsContext(session')
  BY DEF ExtendsTo
<1>2. ASSUME ~strayed PROVE GoodInv'
  <2>1. GoodMeta(session'.meta, session'.core.next)
    BY <1>2, GoodMetaExtends DEF IInv, GoodInv
  <2>2. /\ session.core.next \in Nat /\ session'.core.next \in Nat
        /\ session.core.next <= session'.core.next
    BY <1>1 DEF IInv, IsContext, ExtendsTo, Adds
  <2>3. \A s \in saved : GoodMeta(s.meta, session.core.next)
    BY <1>2 DEF IInv, GoodInv
  <2> QED
    BY <2>1, <2>2, <2>3, GoodMetaGrows DEF GoodInv
<1>3. /\ session'.lctx = 0
      /\ session'.env \subseteq session'.core.env
      /\ session.env \subseteq session'.core.env
      /\ fetched' # Missing => session'.env \subseteq fetched'
  BY DEF IInv, ExtendsTo, Leaves
<1>4. ~session'.core.error
  BY DEF IInv, ExtendsTo, Leaves, FailureLeavesGoalOpen
<1>5. Declared(session.meta) \subseteq Declared(session'.meta)
        /\ Assigned(session.meta) \subseteq Assigned(session'.meta)
  BY DEF ExtendsTo, Keeps
<1>6. answer'.res = "err" /\ answer'.goal # Missing => answer'.goal \in Open(session'.meta)
  BY <1>5 DEF Open
<1>7. FailureLeavesGoalOpen'
  BY <1>4, <1>6 DEF FailureLeavesGoalOpen
<1>8. IInv'
  BY <1>1, <1>2, <1>3, <1>7 DEF IInv
<1>9. Remembers
  BY <1>3, <1>5 DEF Remembers
<1> QED
  BY <1>8, <1>9

\* A tactic of tactic.rs
LEMMA ConcludeStep ==
  ASSUME IInv, NEW o, Sound(session, Head(goals), o), Conclude(o)
  PROVE  IInv' /\ Remembers
<1>1. session' = o.c /\ RefUnused /\ UNCHANGED <<fetched, saved>> /\ answer'.res = o.res
  BY DEF Conclude
<1>2. answer'.goal # Missing => answer'.goal = Head(goals) /\ answer'.goal \in Open(session.meta)
  BY DEF Conclude, IfOpen
<1>3. answer'.res = "err" /\ answer'.goal # Missing =>
        answer'.goal \in Open(session.meta) /\ answer'.goal \notin Assigned(session'.meta)
  BY <1>1, <1>2 DEF Sound, Open
<1>4. ExtendsTo(session, session')
  BY <1>1 DEF Sound
<1> QED
  BY <1>1, <1>3, <1>4, RefStaysShaped, ExtendingStep

\* mk_goal declares a goal without a parent in the local context of the session,
\* which is empty.
LEMMA MkGoalStep ==
  ASSUME IInv, MkGoal
  PROVE  IInv' /\ Remembers
<1> DEFINE n == session.core.next
           d == Declare(session.meta, n, 1, session.lctx, Missing)
           c == [session EXCEPT !.meta = Declare(@, session.core.next, 1, session.lctx, Missing),
                                !.core.next = @ + 1]
<1>1. /\ RefUnused /\ UNCHANGED <<fetched, saved>> /\ answer'.goal = Missing
      /\ session' = session \/ session' = c
  BY DEF MkGoal, RunPersistent
<1>2. (ref' # Missing => Shaped(ref')) /\ strayed' = strayed
  BY <1>1, RefStaysShaped
<1>3. CASE session' = session
  BY <1>1, <1>2, <1>3, ExtendsRefl, ExtendingStep DEF IInv
<1>4. CASE session' = c
  <2>1. n \in Nat /\ session.lctx = 0
    BY DEF IInv, IsContext
  <2>2. /\ d = [decl |-> d.decl, asg |-> session.meta.asg]
        /\ DOMAIN d.decl = DOMAIN session.meta.decl \cup {n}
        /\ \A x \in DOMAIN session.meta.decl : d.decl[x] = session.meta.decl[x]
        /\ n \notin DOMAIN session.meta.decl => d.decl[n] = [scope |-> 0, parent |-> Missing]
    <3>1. n .. n + 1 - 1 = {n}
      BY <2>1
    <3> QED
      BY <2>1, <3>1 DEF IInv, IsContext, Declare
  <2>3. /\ session'.meta = d
        /\ session'.core = [next |-> n + 1, env |-> session.core.env, error |-> session.core.error]
        /\ session' = [meta |-> session'.meta, core |-> session'.core, env |-> session'.env,
                       lctx |-> session'.lctx]
        /\ session'.env = session.env /\ session'.lctx = session.lctx
    BY <1>4 DEF IInv, IsContext
  <2> HIDE DEF d
  <2>4. IsContext(session')
    <3>1. \A x \in DOMAIN d.decl : d.decl[x].scope \in Nat
      BY <2>2 DEF IInv, IsContext, Declared
    <3>2. n + 1 \in Nat
      BY <2>1
    <3> QED
      BY <2>2, <2>3, <3>1, <3>2 DEF IsContext, Declared
  <2>5. ASSUME ~strayed PROVE GoodInv'
    <3>0. GoodInv
      BY <2>5 DEF IInv
    <3>1. n \notin DOMAIN session.meta.decl
      BY <2>1, <3>0 DEF GoodInv, GoodMeta, Declared
    <3>2. ASSUME NEW x \in DOMAIN d.decl
          PROVE  /\ x \in 0 .. (n + 1) - 1
                 /\ d.decl[x].scope \in Nat
                 /\ IF d.decl[x].parent = Missing THEN d.decl[x].scope = 0
                    ELSE d.decl[x].parent \in DOMAIN d.decl
                           /\ d.decl[d.decl[x].parent].scope <= d.decl[x].scope
      <4>1. CASE x = n
        BY <2>1, <2>2, <3>1, <4>1
      <4>2. CASE x # n
        BY <2>1, <2>2, <3>0, <3>2, <4>2 DEF GoodInv, GoodMeta, Declared
      <4> QED
        BY <4>1, <4>2
    <3>3. GoodMeta(d, n + 1)
      BY <2>2, <3>2 DEF GoodMeta, Declared
    <3>4. \A s \in saved' : GoodMeta(s.meta, n + 1)
      <4>1. n + 1 \in Nat /\ n <= n + 1
        BY <2>1
      <4> QED
        BY <1>1, <2>1, <3>0, <4>1, GoodMetaGrows DEF GoodInv
    <3> QED
      BY <2>3, <3>3, <3>4 DEF GoodInv
  <2>6. IInv'
    BY <1>1, <1>2, <2>3, <2>4, <2>5 DEF IInv, FailureLeavesGoalOpen
  <2>7. Remembers
    BY <2>2, <2>3 DEF IInv, Remembers, Declared, Assigned
  <2> QED
    BY <2>6, <2>7
<1> QED
  BY <1>1, <1>3, <1>4

\* What Lean's elaborator leaves in the Meta.State m it works on, whether it throws or not,
\* is a Meta.State.
LEMMA ElaborationShaped ==
  ASSUME NEW c, NEW m, NEW g, IsContext(c), Shaped(m), NEW e \in Elaborations(c, m, g)
  PROVE  Shaped(e.meta) /\ e.new \in Nat
<1> DEFINE n == c.core.next
<1>1. n \in Nat /\ MaxNew(c) \in Int
  BY ProofSessionAssumption DEF IsContext, MaxNew
<1>2. CASE e.meta = m /\ e.new = 0
  BY <1>2
<1>3. CASE ~(e.meta = m /\ e.new = 0)
  <2>1. g \in Declared(m)
    BY <1>3 DEF Elaborations
  <2>2. PICK k \in Nat, s \in Nat :
          /\ \/ e.meta = Refine(m, n, k, s, g)
             \/ e.meta = Declare(m, n, k, s, g)
          /\ e.new = k
    <3>1. m.decl[g].scope .. MaxScope \subseteq Nat /\ 0 .. MaxNew(c) \subseteq Nat /\ 0 \in Nat
      BY <1>1, <2>1, ProofSessionAssumption DEF Shaped
    <3> QED
      BY <1>3, <2>1, <3>1 DEF Elaborations
  <2> DEFINE d == Declare(m, n, k, s, g)
             t == n .. n + k - 1
  <2>3. /\ d = [decl |-> d.decl, asg |-> m.asg]
        /\ \A x \in DOMAIN m.decl : d.decl[x] = m.decl[x]
        /\ \A x \in DOMAIN d.decl \ DOMAIN m.decl : d.decl[x] = [scope |-> s, parent |-> g]
    BY DEF Shaped, Declare
  <2>4. e.meta = d \/ e.meta = Assign(d, g, t)
    BY <2>2 DEF Refine
  <2> HIDE DEF d, t
  <2>5. \A x \in DOMAIN d.decl : d.decl[x].scope \in Nat
    BY <2>3 DEF Shaped, Declared
  <2>6. Assign(d, g, t) = [decl |-> d.decl, asg |-> Assign(d, g, t).asg]
    <3>1. d = [decl |-> d.decl, asg |-> d.asg]
      BY <2>3
    <3> QED
      BY <3>1, AssignEffect, Zenon
  <2>7. e.meta = [decl |-> e.meta.decl, asg |-> e.meta.asg] /\ e.meta.decl = d.decl
    BY <2>3, <2>4, <2>6
  <2> QED
    BY <2>2, <2>5, <2>7 DEF Shaped, Declared
<1> QED
  BY <1>2, <1>3

\* What it has done when run_tactic accepts it: nothing is lost.
LEMMA ElaborationKeeps ==
  ASSUME NEW c, NEW m, NEW g, IsContext(c), Shaped(m),
         NEW e \in Elaborations(c, m, g), ~e.thrown, ~e.error
  PROVE  /\ Declared(m) \subseteq Declared(e.meta)
         /\ Assigned(m) \subseteq Assigned(e.meta)
<1>1. CASE e.meta = m
  BY <1>1
<1>2. CASE e.meta # m
  <2>1. PICK k \in 0 .. MaxNew(c), s \in m.decl[g].scope .. MaxScope :
          e.meta = Refine(m, c.core.next, k, s, g)
    BY <1>2 DEF Elaborations
  <2> DEFINE d == Declare(m, c.core.next, k, s, g)
             t == c.core.next .. c.core.next + k - 1
  <2>2. d = [decl |-> d.decl, asg |-> m.asg] /\ DOMAIN m.decl \subseteq DOMAIN d.decl
    BY DEF Shaped, Declare
  <2>3. e.meta = Assign(d, g, t)
    BY <2>1 DEF Refine
  <2> HIDE DEF d, t
  <2>4. d = [decl |-> d.decl, asg |-> d.asg] /\ d.asg = m.asg
    BY <2>2
  <2>5. /\ Assign(d, g, t) = [decl |-> d.decl, asg |-> Assign(d, g, t).asg]
        /\ DOMAIN Assign(d, g, t).asg = DOMAIN d.asg \cup {g}
    BY <2>4, AssignEffect, Zenon
  <2>6. e.meta.decl = d.decl /\ DOMAIN e.meta.asg = DOMAIN d.asg \cup {g}
    BY <2>3, <2>5
  <2> QED
    BY <2>2, <2>4, <2>6 DEF Declared, Assigned
<1> QED
  BY <1>1, <1>2

\* Its names are new, and its goals see what the one they are for sees.
LEMMA ElaborationGood ==
  ASSUME NEW c, NEW g, IsContext(c), GoodMeta(c.meta, c.core.next),
         NEW e \in Elaborations(c, c.meta, g), ~e.thrown, ~e.error
  PROVE  GoodMeta(e.meta, c.core.next + e.new)
<1> DEFINE n == c.core.next
<1>1. n \in Nat
  BY DEF IsContext
<1>2. CASE e.meta = c.meta /\ e.new = 0
  <2>1. n + 0 = n
    BY <1>1
  <2> QED
    BY <1>2, <2>1
<1>3. CASE ~(e.meta = c.meta /\ e.new = 0)
  <2>1. g \in Declared(c.meta)
    BY <1>3 DEF Elaborations
  <2>2. PICK k \in 0 .. MaxNew(c), s \in c.meta.decl[g].scope .. MaxScope :
          e.meta = Refine(c.meta, n, k, s, g) /\ e.new = k
    BY <1>3 DEF Elaborations
  <2> DEFINE d == Declare(c.meta, n, k, s, g)
             m == Assign(d, g, n .. n + k - 1)
  <2>3. /\ k \in Nat /\ s \in Nat /\ c.meta.decl[g].scope \in Nat /\ c.meta.decl[g].scope <= s
        /\ g \in Nat
    BY <2>1, <2>2, <1>1, ProofSessionAssumption DEF IsContext, GoodMeta
  <2>4. /\ d = [decl |-> d.decl, asg |-> c.meta.asg]
        /\ DOMAIN d.decl = DOMAIN c.meta.decl \cup n .. n + k - 1
        /\ \A x \in DOMAIN c.meta.decl : d.decl[x] = c.meta.decl[x]
        /\ \A x \in DOMAIN d.decl \ DOMAIN c.meta.decl : d.decl[x] = [scope |-> s, parent |-> g]
    BY DEF IsContext, Declare
  <2>5. e.meta = m /\ e.new = k
    BY <2>2 DEF Refine
  <2> HIDE DEF d, m
  <2>6. /\ m = [decl |-> d.decl, asg |-> m.asg]
        /\ DOMAIN m.asg = DOMAIN c.meta.asg \cup {g}
    <3> DEFINE t == n .. n + k - 1
    <3>1. d = [decl |-> d.decl, asg |-> d.asg] /\ d.asg = c.meta.asg
      BY <2>4
    <3>2. /\ Assign(d, g, t) = [decl |-> d.decl, asg |-> Assign(d, g, t).asg]
          /\ DOMAIN Assign(d, g, t).asg = DOMAIN d.asg \cup {g}
      <4> HIDE DEF t
      <4> QED
        BY <3>1, AssignEffect, Zenon
    <3> QED
      BY <3>1, <3>2 DEF m
  <2>7. ASSUME NEW x \in DOMAIN d.decl
        PROVE  /\ x \in 0 .. (n + k) - 1
               /\ d.decl[x].scope \in Nat
               /\ IF d.decl[x].parent = Missing THEN d.decl[x].scope = 0
                  ELSE d.decl[x].parent \in DOMAIN d.decl
                         /\ d.decl[d.decl[x].parent].scope <= d.decl[x].scope
    <3>1. CASE x \in DOMAIN c.meta.decl
      BY <1>1, <2>3, <2>4, <3>1 DEF GoodMeta, Declared
    <3>2. CASE x \notin DOMAIN c.meta.decl
      <4>1. x \in n .. n + k - 1
        BY <2>4, <2>7, <3>2
      <4>2. g # Missing
        BY <2>3, ProofSessionAssumption
      <4> QED
        BY <1>1, <2>1, <2>3, <2>4, <2>7, <3>2, <4>1, <4>2 DEF Declared
    <3> QED
      BY <3>1, <3>2
  <2>8. GoodMeta(m, n + k)
    BY <2>6, <2>7 DEF GoodMeta, Declared
  <2> QED
    BY <2>5, <2>8
<1> QED
  BY <1>2, <1>3

\* run_tactic: the elaborator's result e for goal g is taken over, or nothing of it.
TakesOver(g, e, aux) ==
  LET failed == e.thrown \/ e.error \/ session.core.error IN
  /\ session' = IF failed THEN session ELSE UpdateStates(session, e, aux)
  /\ ref' \in IF ~failed THEN {e.meta} ELSE IF ref # Missing THEN {e.meta, Missing} ELSE {Missing}
  /\ answer'.res = IF failed THEN "err" ELSE "ok"
  /\ answer'.goal = IfOpen(g)
  /\ strayed' = (strayed \/ (OutOfStep /\ ~failed))
  /\ UNCHANGED <<fetched, saved>>

\* run_tactic takes over the states of the elaborator, or none of them.
LEMMA TakesOverStep ==
  ASSUME IInv, NEW g, NEW e \in Elaborations(session, View, g), NEW aux \in SUBSET {"aux"},
         TakesOver(g, e, aux)
  PROVE  IInv' /\ Remembers
<1>1. Shaped(View) /\ (~OutOfStep => View = session.meta) /\ IsContext(session)
  BY ViewOfContext DEF IInv
<1>2. Shaped(e.meta) /\ e.new \in Nat
  BY <1>1, ElaborationShaped
<1>3. CASE e.thrown \/ e.error \/ session.core.error
  <2>1. session' = session /\ (ref' # Missing => Shaped(ref')) /\ UNCHANGED <<fetched, saved>>
    BY <1>2, <1>3 DEF TakesOver
  <2>2. ~strayed' => ~strayed
    BY Zenon DEF TakesOver
  <2>3. answer'.goal # Missing => answer'.goal \in Open(session.meta)
    BY DEF TakesOver, IfOpen
  <2>4. FailureLeavesGoalOpen'
    BY <2>1, <2>3 DEF IInv, FailureLeavesGoalOpen
  <2>5. IInv'
    BY <2>1, <2>2, <2>4 DEF IInv, GoodInv
  <2>6. Remembers
    BY <2>1 DEF IInv, Remembers
  <2> QED
    BY <2>5, <2>6
<1>4. CASE ~e.thrown /\ ~e.error /\ ~session.core.error
  <2> DEFINE n == session.core.next
  <2>1. /\ session' = UpdateStates(session, e, aux)
        /\ ref' = e.meta /\ answer'.res = "ok" /\ UNCHANGED <<fetched, saved>>
    BY <1>4 DEF TakesOver
  <2>2. strayed' = (strayed \/ OutOfStep)
    BY <1>4, Zenon DEF TakesOver
  <2>3. n \in Nat
    BY DEF IInv, IsContext
  <2>4. /\ session'.meta = e.meta
        /\ session'.core = [next |-> n + e.new, env |-> session.core.env \cup aux,
                            error |-> session.core.error \/ e.error]
        /\ session' = [meta |-> session'.meta, core |-> session'.core, env |-> session'.env,
                       lctx |-> session'.lctx]
        /\ session'.env = session.env /\ session'.lctx = session.lctx
    BY <2>1 DEF UpdateStates, IInv, IsContext
  <2>5. ~session'.core.error
    <3>1. session'.core.error = (session.core.error \/ e.error)
      BY <2>4
    <3> QED
      BY <1>4, <3>1, Zenon
  <2>6. session'.core.next = n + e.new /\ n + e.new \in Nat /\ n <= n + e.new
    BY <1>2, <2>3, <2>4
  <2>7. IsContext(session')
    <3>1. session'.core = [next |-> session'.core.next, env |-> session'.core.env,
                           error |-> session'.core.error]
      BY <2>4
    <3> QED
      BY <1>2, <2>4, <2>6, <3>1 DEF IsContext, Shaped
  <2>8. ASSUME ~strayed' PROVE GoodInv'
    <3>1. ~strayed /\ ~OutOfStep
      BY <2>2, <2>8, Zenon
    <3>2. GoodInv /\ e \in Elaborations(session, session.meta, g)
      BY <1>1, <3>1 DEF IInv
    <3>3. GoodMeta(e.meta, n + e.new)
      BY <1>1, <1>4, <3>2, ElaborationGood DEF GoodInv
    <3>4. \A s \in saved' : GoodMeta(s.meta, session'.core.next)
      BY <2>1, <2>3, <2>6, <3>2, GoodMetaGrows DEF GoodInv
    <3> QED
      BY <2>4, <2>6, <3>3, <3>4 DEF GoodInv
  <2>9. session.core.env \subseteq session'.core.env
    BY <2>4
  <2>10. FailureLeavesGoalOpen'
    BY <2>1, <2>5 DEF FailureLeavesGoalOpen
  <2>11. IInv'
    BY <1>2, <2>1, <2>4, <2>7, <2>8, <2>9, <2>10 DEF IInv
  <2>12. ~OutOfStep => /\ Declared(session.meta) \subseteq Declared(e.meta)
                       /\ Assigned(session.meta) \subseteq Assigned(e.meta)
    <3>1. SUFFICES ASSUME ~OutOfStep
                   PROVE  /\ Declared(session.meta) \subseteq Declared(e.meta)
                          /\ Assigned(session.meta) \subseteq Assigned(e.meta)
      OBVIOUS
    <3>2. View = session.meta
      BY <1>1, <3>1
    <3> QED
      BY <1>1, <1>4, <3>2, ElaborationKeeps
  <2>13. Remembers
    BY <2>1, <2>4, <2>9, <2>12 DEF IInv, Remembers
  <2> QED
    BY <2>11, <2>13
<1> QED
  BY <1>3, <1>4, Zenon

\* run_tactic, on whichever goal of the list.
LEMMA RunTacticStep ==
  ASSUME IInv, NEW i, RunTactic(i)
  PROVE  IInv' /\ Remembers
<1> DEFINE Taken(e, aux) ==
      LET failed == e.thrown \/ e.error \/ session.core.error IN
      /\ session' = IF failed THEN session ELSE UpdateStates(session, e, aux)
      /\ ref' \in IF ~failed THEN {e.meta} ELSE IF ref # Missing THEN {e.meta, Missing} ELSE {Missing}
      /\ answer' = [res |-> IF failed THEN "err" ELSE "ok", goal |-> IfOpen(goals[i])]
      /\ strayed' = (strayed \/ (OutOfStep /\ ~failed))
      /\ UNCHANGED <<fetched, saved>>
<1>1. \E e \in Elaborations(session, View, goals[i]), aux \in SUBSET {"aux"} : Taken(e, aux)
  BY Zenon DEF RunTactic
<1>2. PICK e \in Elaborations(session, View, goals[i]), aux \in SUBSET {"aux"} : Taken(e, aux)
  BY <1>1, Zenon
<1>3. TakesOver(goals[i], e, aux)
  BY <1>2 DEF TakesOver
<1> QED
  BY <1>2, <1>3, TakesOverStep

\* Commands and snapshots
LEMMA OtherSteps ==
  ASSUME IInv,
         Inspect \/ RunCommand \/ ReplaceEnv \/ Snapshot \/ (\E s \in saved : Branch(s))
  PROVE  IInv' /\ Remembers
<1>1. CASE Inspect
  <2>1. session' = session /\ RefUnused /\ UNCHANGED <<fetched, saved>> /\ answer'.goal = Missing
    BY <1>1 DEF Inspect, Run
  <2>2. ExtendsTo(session, session')
    BY <2>1, ExtendsRefl DEF IInv
  <2> QED
    BY <2>1, <2>2, RefStaysShaped, ExtendingStep
<1>2. CASE RunCommand
  <2>1. /\ session' = session /\ RefUnused /\ UNCHANGED saved /\ answer'.goal = Missing
        /\ fetched' \in {fetched, session.env \cup {"user"}}
    BY <1>2 DEF RunCommand, Run
  <2>2. (ref' # Missing => Shaped(ref')) /\ strayed' = strayed
    BY <2>1, RefStaysShaped
  <2> QED
    BY <2>1, <2>2 DEF IInv, GoodInv, Remembers, FailureLeavesGoalOpen
<1>3. CASE ReplaceEnv
  <2>1. /\ session.env \subseteq fetched
        /\ ref' = ref /\ saved' = saved /\ strayed' = strayed /\ fetched' = Missing
        /\ answer'.res = "none"
    BY <1>3 DEF ReplaceEnv, IInv
  <2>2. /\ session'.meta = session.meta
        /\ session'.core = [next |-> session.core.next, env |-> fetched,
                            error |-> session.core.error]
        /\ session' = [meta |-> session'.meta, core |-> session'.core, env |-> session'.env,
                       lctx |-> session'.lctx]
        /\ session'.env = fetched /\ session'.lctx = session.lctx
    BY <1>3 DEF ReplaceEnv, IInv, IsContext
  <2>3. IsContext(session')
    BY <2>2 DEF IInv, IsContext
  <2>4. session'.core.next = session.core.next /\ (~session.core.error => ~session'.core.error)
    BY <2>2
  <2>5. IInv'
    BY <2>1, <2>2, <2>3, <2>4 DEF IInv, GoodInv, FailureLeavesGoalOpen
  <2>6. Remembers
    BY <2>1, <2>2 DEF Remembers
  <2> QED
    BY <2>5, <2>6
<1>4. CASE Snapshot
  <2>1. /\ UNCHANGED <<session, ref, fetched, strayed>> /\ answer'.res = "none"
        /\ saved' = saved \cup {[meta |-> session.meta, goals |-> goals]}
    BY <1>4 DEF Snapshot
  <2>2. \A s \in saved' : Shaped(s.meta)
    <3>1. Shaped(session.meta)
      BY DEF IInv, IsContext, Shaped
    <3> QED
      BY <2>1, <3>1 DEF IInv
  <2>3. ~strayed => GoodInv'
    BY <2>1 DEF IInv, GoodInv
  <2> QED
    BY <2>1, <2>2, <2>3 DEF IInv, Remembers, FailureLeavesGoalOpen
<1>5. ASSUME NEW s \in saved, Branch(s) PROVE IInv' /\ Remembers
  <2>1. ref' = Missing /\ UNCHANGED <<fetched, saved, strayed>> /\ answer'.res = "branched"
    BY <1>5 DEF Branch
  <2>2. /\ session'.meta = s.meta /\ session'.core = session.core
        /\ session' = [meta |-> session'.meta, core |-> session'.core, env |-> session'.env,
                       lctx |-> session'.lctx]
        /\ session'.env = session.env /\ session'.lctx = session.lctx
    BY <1>5 DEF Branch, IInv, IsContext
  <2>3. Shaped(s.meta)
    BY DEF IInv
  <2>4. IsContext(session')
    BY <2>2, <2>3 DEF IInv, IsContext, Shaped
  <2>5. ~strayed => GoodInv'
    BY <2>1, <2>2 DEF IInv, GoodInv
  <2> QED
    BY <2>1, <2>2, <2>3, <2>4, <2>5 DEF IInv, Remembers, FailureLeavesGoalOpen
<1> QED
  BY <1>1, <1>2, <1>3, <1>4, <1>5

-----------------------------------------------------------------------------
(* The theorems.                                                           *)

\* Every call keeps the invariant and forgets nothing.
LEMMA NextInv ==
  ASSUME IInv, SessionNext
  PROVE  IInv' /\ Remembers
<1>1. ASSUME NEW t, NEW o \in Exact(session, goals, t) \cup Rfl(session, goals)
                     \cup Assumption(session, goals) \cup Intro(session, goals)
                     \cup Apply(session, goals) \cup Focus(session, goals),
             Conclude(o)
      PROVE  IInv' /\ Remembers
  BY <1>1, TacticsExtend, ConcludeStep DEF IInv
<1>2. CASE ExactMain
  BY <1>1, <1>2 DEF ExactMain
<1>3. CASE RflMain \/ AssumptionMain
  BY <1>1, <1>3 DEF RflMain, AssumptionMain
<1>4. CASE IntroMain \/ ApplyMain \/ FocusMain
  BY <1>1, <1>4 DEF IntroMain, ApplyMain, FocusMain
<1>5. CASE MkGoal
  BY <1>5, MkGoalStep
<1>6. CASE \E i \in DOMAIN goals : RunTactic(i)
  BY <1>6, RunTacticStep
<1>7. CASE Inspect \/ RunCommand \/ ReplaceEnv \/ Snapshot \/ (\E s \in saved : Branch(s))
  BY <1>7, OtherSteps
<1> QED
  BY <1>2, <1>3, <1>4, <1>5, <1>6, <1>7 DEF SessionNext

\* Nor does it matter when nothing happens.
LEMMA Stuttering ==
  ASSUME IInv, UNCHANGED sessionVars
  PROVE  IInv'
BY DEF IInv, GoodInv, sessionVars, FailureLeavesGoalOpen

\* Once strayed, always strayed.
LEMMA StrayedStays ==
  ASSUME SessionNext, ~strayed'
  PROVE  ~strayed
<1>1. CASE \E i \in DOMAIN goals : RunTactic(i)
  <2>1. PICK i \in DOMAIN goals : RunTactic(i)
    BY <1>1
  <2>2. \E e \in Elaborations(session, View, goals[i]) :
          strayed' = (strayed \/ (OutOfStep /\ ~(e.thrown \/ e.error \/ session.core.error)))
    BY <2>1, Zenon DEF RunTactic
  <2> QED
    BY <2>2, Zenon
<1>2. CASE ~\E i \in DOMAIN goals : RunTactic(i)
  <2>1. strayed' = strayed
    BY <1>2 DEF SessionNext, MkGoal, Inspect, ExactMain, RflMain, AssumptionMain, IntroMain,
                ApplyMain, FocusMain, RunCommand, ReplaceEnv, Snapshot, Branch, Conclude, RefUnused
  <2> QED
    BY <2>1
<1> QED
  BY <1>1, <1>2

\* The invariant holds whatever the caller does: of a context for which run_tactic took
\* over no reference that was out of step, all of it (metam.rs, repl.rs, tactic.rs).
THEOREM IInvIsInductive == SessionSpec => []IInv
<1>1. IInv /\ [SessionNext]_sessionVars => IInv'
  BY NextInv, Stuttering
<1> QED
  BY InitInv, <1>1, PTL DEF SessionSpec

\* Names are minted once: the generator is ahead of every metavariable context that is still
\* in use, on whatever branch of the proof, as long as run_tactic went on from no reference
\* that was out of step.
THEOREM NamesStayFresh == SessionSpec => []NamesAreFresh
<1>1. ASSUME IInv PROVE NamesAreFresh
  <2> SUFFICES ASSUME ~strayed PROVE NamesAreFresh
    BY DEF NamesAreFresh
  <2>1. ASSUME NEW m, GoodMeta(m, session.core.next), NEW n \in Declared(m)
        PROVE  n < session.core.next
    BY <1>1, <2>1 DEF IInv, IsContext, GoodMeta
  <2>2. /\ GoodMeta(session.meta, session.core.next)
        /\ \A s \in saved : GoodMeta(s.meta, session.core.next)
    BY <1>1 DEF IInv, GoodInv
  <2> QED
    BY <2>1, <2>2 DEF NamesAreFresh
<1> QED
  BY IInvIsInductive, <1>1, PTL

\* Goals see the hypotheses of the goals they were made for, under the same condition.
THEOREM HypothesesStayVisible == SessionSpec => []GoalsSeeHypotheses
<1>1. IInv => GoalsSeeHypotheses
  BY DEF IInv, GoodInv, GoodMeta, GoalsSeeHypotheses
<1> QED
  BY IInvIsInductive, <1>1, PTL

\* A call that fails, after however many trips to the worker and whatever references the
\* caller has used before, leaves its goal open in the context.
THEOREM FailuresLeaveGoalsOpen == SessionSpec => []FailureLeavesGoalOpen
<1>1. IInv => FailureLeavesGoalOpen
  BY DEF IInv
<1> QED
  BY IInvIsInductive, <1>1, PTL

\* Only branching and a reference that is out of step make the context forget, and tactics
\* see what commands declared.
THEOREM NothingIsForgotten == SessionSpec => NothingForgotten
<1>1. IInv /\ [SessionNext]_sessionVars => [Remembers]_sessionVars
  BY NextInv
<1> QED
  BY IInvIsInductive, <1>1, PTL DEF SessionSpec, NothingForgotten, Remembers

-----------------------------------------------------------------------------
(* No goal gets lost.                                                       *)

\* What is still to be proved
Pending(m) == Mentioned(m) \ Assigned(m)

\* The terms of n are those of m, or mention nothing but t.
TermsFrom(m, n, t) ==
  \A x \in Assigned(n) : n.asg[x] \subseteq t \/ (x \in Assigned(m) /\ n.asg[x] = m.asg[x])

\* An outcome of working on goal g: a success proves g from t, a failure leaves
\* nothing more to be proved.
Proves(c, g, t, o) ==
  /\ o.res = "ok" => Pending(o.c.meta) \subseteq (Pending(c.meta) \cup t) \ {g}
  /\ o.res = "err" => Pending(o.c.meta) \subseteq Pending(c.meta)

\* A list of goals covers what is still to be proved.
Covers(gs, m) == gs \in Seq(Nat) /\ Pending(m) \subseteq Range(gs)

CoverInv == Covers(goals, session.meta) /\ \A s \in saved : Covers(s.goals, s.meta)

\* An extension of a context that takes its terms from t mentions nothing else that is new:
\* what it declares is for goals that are there.
LEMMA ExtensionMentions ==
  ASSUME NEW c, NEW d, NEW t, ExtendsTo(c, d), Declared(c.meta) \subseteq Nat,
         TermsFrom(c.meta, d.meta, t)
  PROVE  Pending(d.meta) \subseteq (Pending(c.meta) \cup t) \ Assigned(d.meta)
<1>1. Roots(d.meta) \subseteq Roots(c.meta)
  <2> SUFFICES ASSUME NEW n \in Roots(d.meta) PROVE n \in Roots(c.meta)
    OBVIOUS
  <2>1. n \in Declared(d.meta) /\ d.meta.decl[n].parent = Missing
    BY DEF Roots
  <2>2. Missing \notin Declared(c.meta)
    BY ProofSessionAssumption
  <2>3. n \in Declared(c.meta)
    BY <2>1, <2>2 DEF ExtendsTo, Adds
  <2> QED
    BY <2>1, <2>3 DEF ExtendsTo, Keeps, Roots
<1>2. Assigned(c.meta) \subseteq Assigned(d.meta)
  BY DEF ExtendsTo, Keeps
<1>3. Mentioned(d.meta) \subseteq Mentioned(c.meta) \cup t
  BY <1>1 DEF Mentioned, TermsFrom
<1> QED
  BY <1>2, <1>3 DEF Pending

\* A context that gets no terms but closed ones, and so proves nothing from other goals,
\* leaves no more to be proved.
LEMMA ClosedTermsMention ==
  ASSUME NEW c, NEW d, ExtendsTo(c, d), Declared(c.meta) \subseteq Nat,
         TermsFrom(c.meta, d.meta, {})
  PROVE  Pending(d.meta) \subseteq Pending(c.meta)
BY ExtensionMentions

\* MVarId.checkedAssign: the goal gets its term, and what unifies with it a closed one.
LEMMA CheckedAssignTerms ==
  ASSUME NEW c, NEW g, NEW t, IsContext(c), NEW o \in CheckedAssign(c, g, t)
  PROVE  /\ o.c.core = c.core
         /\ o.res = "ok" => g \in Assigned(o.c.meta) /\ TermsFrom(c.meta, o.c.meta, t)
         /\ o.res = "err" => TermsFrom(c.meta, o.c.meta, {})
<1>0. AssignOutcome(c, g, t, o)
  BY CheckedAssignEffect
<1>1. PICK u \in SUBSET ((t \cap Open(c.meta)) \ {g}) :
        /\ Assigned(o.c.meta) = (Assigned(c.meta) \cup u) \cup (IF o.res = "ok" THEN {g} ELSE {})
        /\ \A x \in Assigned(o.c.meta) :
             o.c.meta.asg[x] = IF o.res = "ok" /\ x = g THEN t
                               ELSE IF x \in u THEN {} ELSE c.meta.asg[x]
  BY <1>0 DEF AssignOutcome
<1>2. o.c.core = c.core /\ o.res \in {"ok", "err"}
  BY <1>0 DEF AssignOutcome
<1> QED
  BY <1>1, <1>2 DEF TermsFrom

\* The same inside of with_local_context.
LEMMA AssignInScopeTerms ==
  ASSUME NEW c, NEW g, NEW t, IsContext(c), NEW o \in AssignInScope(c, g, t)
  PROVE  /\ o.c.core = c.core
         /\ o.res = "ok" => g \in Assigned(o.c.meta) /\ TermsFrom(c.meta, o.c.meta, t)
         /\ o.res = "err" => TermsFrom(c.meta, o.c.meta, {})
<1> DEFINE s == EnterScope(c, g)
<1>1. IsContext(s) /\ s.meta = c.meta /\ s.core = c.core
  BY ScopeChanges DEF EnterScope
<1>2. PICK p \in CheckedAssign(s, g, t) : o = [p EXCEPT !.c.lctx = c.lctx]
  BY DEF AssignInScope, LeaveScope
<1>3. p = [res |-> p.res, c |-> p.c]
  <2>1. AssignOutcome(s, g, t, p)
    BY <1>1, <1>2, CheckedAssignEffect
  <2> QED
    BY <2>1 DEF AssignOutcome
<1>4. /\ p.c.core = s.core
      /\ p.res = "ok" => g \in Assigned(p.c.meta) /\ TermsFrom(s.meta, p.c.meta, t)
      /\ p.res = "err" => TermsFrom(s.meta, p.c.meta, {})
  BY <1>1, <1>2, CheckedAssignTerms
<1>5. IsContext(p.c)
  BY <1>1, <1>2, CheckedAssignExtends DEF Sound, ExtendsTo
<1>6. o.res = p.res /\ o.c = [p.c EXCEPT !.lctx = c.lctx]
  BY <1>2, <1>3
<1>7. o.c.meta = p.c.meta /\ o.c.core = p.c.core
  BY <1>5, <1>6, ScopeChanges
<1> QED
  BY <1>1, <1>4, <1>6, <1>7

\* exact, rfl and assumption prove their goal from the term they are given.
LEMMA CloseGoalProves ==
  ASSUME NEW c, NEW g, NEW t, IsContext(c), Declared(c.meta) \subseteq Nat,
         NEW o \in CloseGoal(c, g, t)
  PROVE  Proves(c, g, t, o)
<1>1. ExtendsTo(c, o.c) /\ o.res \in {"ok", "err"}
  BY CloseGoalExtends DEF Sound
<1>2. CASE o \in Failed(Examine(c, g))
  <2>1. o.c = c /\ o.res = "err"
    BY <1>2, ExamineExtends DEF Failed
  <2> QED
    BY <2>1 DEF Proves
<1>3. CASE o \notin Failed(Examine(c, g))
  <2>1. PICK d \in Onward(Examine(c, g)) : o \in AssignInScope(d, g, t)
    BY <1>3 DEF CloseGoal
  <2>2. d = c
    BY <2>1, ExamineExtends DEF Onward, Failed
  <2>3. /\ o.res = "ok" => g \in Assigned(o.c.meta) /\ TermsFrom(c.meta, o.c.meta, t)
        /\ o.res = "err" => TermsFrom(c.meta, o.c.meta, {})
    BY <2>1, <2>2, AssignInScopeTerms
  <2> QED
    BY <1>1, <2>3, ExtensionMentions, ClosedTermsMention DEF Proves
<1> QED
  BY <1>2, <1>3

\* intro proves its goal from the one it makes.
LEMMA IntroProves ==
  ASSUME NEW c, NEW g, IsContext(c), Declared(c.meta) \subseteq Nat, NEW o \in IntroGoal(c, g)
  PROVE  Proves(c, g, {c.core.next}, o)
<1> DEFINE n == c.core.next
<1>1. ExtendsTo(c, o.c)
  BY IntroExtends DEF Sound
<1>2. CASE o = [res |-> "err", c |-> c]
  BY <1>2 DEF Proves
<1>3. CASE o # [res |-> "err", c |-> c]
  <2>1. o.res = "ok"
    BY <1>3 DEF IntroGoal, RunPersistent
  <2>2. PICK s \in {c.meta.decl[g].scope + 1} \cap 0 .. MaxScope : o.c = Introduced(c, g, s)
    BY <1>3 DEF IntroGoal, RunPersistent
  <2> DEFINE d == Declare(c.meta, n, 1, s, g)
  <2>3. o.c.meta.asg = Override(c.meta.asg, g, {n})
    <3>1. o.c.meta = Assign(d, g, {n})
      BY <2>2 DEF Introduced, IsContext
    <3>2. d = [decl |-> d.decl, asg |-> c.meta.asg]
      BY DEF Declare, IsContext
    <3> HIDE DEF d
    <3>3. Assign(d, g, {n}).asg = Override(d.asg, g, {n})
      BY <3>2 DEF Assign
    <3> QED
      BY <3>1, <3>2, <3>3
  <2>4. g \in Assigned(o.c.meta) /\ TermsFrom(c.meta, o.c.meta, {n})
    BY <2>3 DEF Assigned, TermsFrom, Override
  <2> QED
    BY <1>1, <2>1, <2>4, ExtensionMentions DEF Proves
<1> QED
  BY <1>2, <1>3

\* apply proves its goal from the goals it has declared.
LEMMA ApplyProves ==
  ASSUME NEW c, NEW g, IsContext(c), Declared(c.meta) \subseteq Nat, NEW o \in ApplyGoal(c, g)
  PROVE  Proves(c, g, Range(NewGoals(c, o.c)), o)
<1> DEFINE peeled == UNION {Peel(d, g) : d \in Onward(Examine(c, g))}
<1>1. ExtendsTo(c, o.c)
  BY ApplyExtends DEF Sound
<1>2. \A q \in peeled : ExtendsTo(c, q.c) /\ q.c.meta.asg = c.meta.asg
  <2>1. SUFFICES ASSUME NEW d \in Onward(Examine(c, g)), NEW q \in Peel(d, g)
                 PROVE  ExtendsTo(c, q.c) /\ q.c.meta.asg = c.meta.asg
    OBVIOUS
  <2>2. d = c /\ g \in Declared(c.meta)
    BY ExamineExtends DEF Onward, Failed
  <2>3. q.c.meta.asg = c.meta.asg
    <3>1. PICK k \in 0 .. MaxNew(c) : q.c = Peeled(c, g, k)
      BY <2>2 DEF Peel
    <3>2. q.c.meta = Declare(c.meta, c.core.next, k, c.meta.decl[g].scope, g)
      BY <3>1 DEF Peeled, IsContext
    <3> QED
      BY <3>2 DEF Declare, IsContext
  <2> QED
    BY <2>2, <2>3, PeelExtends
<1>3. CASE o \in Failed(Examine(c, g))
  <2>1. o.c = c /\ o.res = "err"
    BY <1>3, ExamineExtends DEF Failed
  <2> QED
    BY <2>1 DEF Proves
<1>4. CASE o \in Failed(peeled)
  <2>1. o.res = "err" /\ o.c.meta.asg = c.meta.asg
    BY <1>2, <1>4 DEF Failed
  <2>2. TermsFrom(c.meta, o.c.meta, {})
    BY <2>1 DEF TermsFrom, Assigned
  <2> QED
    BY <1>1, <2>1, <2>2, ClosedTermsMention DEF Proves
<1>5. CASE \E d \in Onward(peeled) : o \in AssignInScope(d, g, Range(NewGoals(c, d)))
  <2>1. PICK d \in Onward(peeled) : o \in AssignInScope(d, g, Range(NewGoals(c, d)))
    BY <1>5
  <2>2. ExtendsTo(c, d) /\ d.meta.asg = c.meta.asg
    BY <1>2, <2>1 DEF Onward, Failed
  <2> DEFINE t == Range(NewGoals(c, d))
  <2>3. /\ o.c.core = d.core
        /\ o.res = "ok" => g \in Assigned(o.c.meta) /\ TermsFrom(d.meta, o.c.meta, t)
        /\ o.res = "err" => TermsFrom(d.meta, o.c.meta, {})
    BY <2>1, <2>2, AssignInScopeTerms DEF ExtendsTo
  <2>4. NewGoals(c, o.c) = NewGoals(c, d)
    BY <2>3 DEF NewGoals
  <2>5. o.res = "err" => TermsFrom(c.meta, o.c.meta, {})
    BY <2>2, <2>3 DEF TermsFrom, Assigned
  <2>6. o.res = "ok" => TermsFrom(c.meta, o.c.meta, t)
    BY <2>2, <2>3 DEF TermsFrom, Assigned
  <2>7. o.res = "ok" => Pending(o.c.meta) \subseteq (Pending(c.meta) \cup t) \ {g}
    <3> HIDE DEF t
    <3> QED
      BY <1>1, <2>3, <2>6, ExtensionMentions
  <2>8. o.res = "err" => Pending(o.c.meta) \subseteq Pending(c.meta)
    BY <1>1, <2>5, ClosedTermsMention
  <2> QED
    BY <2>4, <2>7, <2>8 DEF Proves
<1> QED
  BY <1>3, <1>4, <1>5 DEF ApplyGoal

-----------------------------------------------------------------------------
(* From a goal to the list of goals.                                       *)

\* The goals that come back take the place of the main one.
Progress(c, gs, t, o) ==
  /\ o.res = "ok" =>
       /\ gs # <<>>
       /\ \E new \in Seq(Nat) :
            /\ o.goals = new \o Tail(gs)
            /\ Pending(o.c.meta) \subseteq (Pending(c.meta) \cup t \cup Range(new)) \ {Head(gs)}
  /\ o.res = "err" => Pending(o.c.meta) \subseteq Pending(c.meta)

\* k names from n on are a list of names.
LEMMA MintedNames ==
  ASSUME NEW n \in Nat, NEW k \in Nat
  PROVE  /\ Minted(n, k) \in Seq(Nat) /\ Len(Minted(n, k)) = k
         /\ Range(Minted(n, k)) = n .. n + k - 1
<1>1. \A i \in 1 .. k : n + i - 1 \in Nat
  OBVIOUS
<1>2. Minted(n, k) \in Seq(Nat) /\ DOMAIN Minted(n, k) = 1 .. k /\ Len(Minted(n, k)) = k
  BY <1>1 DEF Minted
<1>3. ASSUME NEW x \in n .. n + k - 1 PROVE x \in Range(Minted(n, k))
  <2>1. x - n + 1 \in 1 .. k /\ n + (x - n + 1) - 1 = x
    BY <1>3
  <2> QED
    BY <1>2, <2>1 DEF Minted, Range
<1>4. ASSUME NEW x \in Range(Minted(n, k)) PROVE x \in n .. n + k - 1
  BY <1>2, <1>4 DEF Minted, Range
<1> QED
  BY <1>2, <1>3, <1>4

\* Two lists, one after the other, have the elements of both.
LEMMA RangeConcat ==
  ASSUME NEW s \in Seq(Nat), NEW t \in Seq(Nat)
  PROVE  s \o t \in Seq(Nat) /\ Range(s \o t) = Range(s) \cup Range(t)
<1>1. /\ s \o t \in Seq(Nat) /\ Len(s \o t) = Len(s) + Len(t)
      /\ \A i \in 1 .. Len(s) : (s \o t)[i] = s[i]
      /\ \A i \in 1 .. Len(t) : (s \o t)[Len(s) + i] = t[i]
  OBVIOUS
<1>2. /\ DOMAIN s = 1 .. Len(s) /\ DOMAIN t = 1 .. Len(t) /\ DOMAIN (s \o t) = 1 .. Len(s \o t)
      /\ Len(s) \in Nat /\ Len(t) \in Nat
  BY <1>1
<1> DEFINE u == s \o t
<1> HIDE DEF u
<1>3. Range(u) \subseteq Range(s) \cup Range(t)
  <2> SUFFICES ASSUME NEW i \in DOMAIN u PROVE u[i] \in Range(s) \cup Range(t)
    BY DEF Range
  <2>1. CASE i \in 1 .. Len(s)
    BY <1>1, <1>2, <2>1 DEF Range, u
  <2>2. CASE i \notin 1 .. Len(s)
    <3>1. i - Len(s) \in 1 .. Len(t) /\ Len(s) + (i - Len(s)) = i
      BY <1>1, <1>2, <2>2 DEF u
    <3>2. u[i] = t[i - Len(s)]
      BY <1>1, <3>1 DEF u
    <3> QED
      BY <1>2, <3>1, <3>2 DEF Range
  <2> QED
    BY <2>1, <2>2
<1>4. Range(s) \subseteq Range(u)
  <2> SUFFICES ASSUME NEW i \in 1 .. Len(s) PROVE s[i] \in Range(u)
    BY <1>2 DEF Range
  <2>1. i \in DOMAIN u /\ u[i] = s[i]
    BY <1>1, <1>2 DEF u
  <2> QED
    BY <2>1 DEF Range
<1>5. Range(t) \subseteq Range(u)
  <2> SUFFICES ASSUME NEW i \in 1 .. Len(t) PROVE t[i] \in Range(u)
    BY <1>2 DEF Range
  <2>1. Len(s) + i \in DOMAIN u /\ u[Len(s) + i] = t[i]
    BY <1>1, <1>2 DEF u
  <2> QED
    BY <2>1 DEF Range
<1> QED
  BY <1>1, <1>3, <1>4, <1>5 DEF u

\* Without its head, a list still has every other element.
LEMMA RangeTail ==
  ASSUME NEW s \in Seq(Nat), s # <<>>
  PROVE  Tail(s) \in Seq(Nat) /\ Range(s) \ {Head(s)} \subseteq Range(Tail(s))
<1>1. /\ Tail(s) \in Seq(Nat) /\ Len(Tail(s)) = Len(s) - 1
      /\ \A i \in 1 .. Len(s) - 1 : Tail(s)[i] = s[i + 1]
      /\ Head(s) = s[1]
  OBVIOUS
<1>2. DOMAIN s = 1 .. Len(s) /\ DOMAIN Tail(s) = 1 .. Len(Tail(s)) /\ Len(s) \in Nat
  BY <1>1
<1>3. ASSUME NEW i \in 1 .. Len(s), s[i] # s[1] PROVE s[i] \in Range(Tail(s))
  <2>1. i - 1 \in 1 .. Len(s) - 1 /\ (i - 1) + 1 = i
    BY <1>2, <1>3
  <2>2. i - 1 \in DOMAIN Tail(s) /\ Tail(s)[i - 1] = s[i]
    BY <1>1, <1>2, <2>1
  <2> QED
    BY <2>2 DEF Range
<1> QED
  BY <1>1, <1>2, <1>3 DEF Range


\* Progress is progress on any longer list.
LEMMA ProgressCovers ==
  ASSUME NEW c, NEW gs, NEW t, NEW o, Covers(gs, c.meta), Progress(c, gs, t, o),
         o.res = "ok", t \subseteq Range(Tail(gs))
  PROVE  Covers(o.goals, o.c.meta)
<1>1. gs \in Seq(Nat) /\ gs # <<>> /\ Pending(c.meta) \subseteq Range(gs)
  BY DEF Covers, Progress
<1>2. PICK new \in Seq(Nat) :
        /\ o.goals = new \o Tail(gs)
        /\ Pending(o.c.meta) \subseteq (Pending(c.meta) \cup t \cup Range(new)) \ {Head(gs)}
  BY DEF Progress
<1>3. Tail(gs) \in Seq(Nat) /\ Range(gs) \ {Head(gs)} \subseteq Range(Tail(gs))
  BY <1>1, RangeTail
<1>4. o.goals \in Seq(Nat) /\ Range(o.goals) = Range(new) \cup Range(Tail(gs))
  BY <1>2, <1>3, RangeConcat
<1> QED
  BY <1>1, <1>2, <1>3, <1>4 DEF Covers

\* A tactic without goals fails and changes nothing.
LEMMA NoGoalsProgress ==
  ASSUME NEW c, NEW gs, NEW t, NEW o \in NoGoals(c)
  PROVE  Progress(c, gs, t, o)
BY DEF NoGoals, Progress

\* exact, rfl and assumption leave the goals after the main one.
LEMMA CloseProgress ==
  ASSUME NEW c, NEW gs, NEW t, IsContext(c), Declared(c.meta) \subseteq Nat, gs # <<>>,
         NEW o \in Leaving(CloseGoal(c, Head(gs), t), Tail(gs)), gs \in Seq(Nat)
  PROVE  Progress(c, gs, t, o)
<1>1. PICK p \in CloseGoal(c, Head(gs), t) : o = [res |-> p.res, c |-> p.c, goals |-> Tail(gs)]
  BY DEF Leaving
<1>2. Proves(c, Head(gs), t, p)
  BY CloseGoalProves
<1>3. <<>> \in Seq(Nat) /\ o.goals = <<>> \o Tail(gs) /\ Range(<<>>) = {}
  BY <1>1 DEF Range
<1> QED
  BY <1>1, <1>2, <1>3 DEF Progress, Proves

\* intro puts its goal before the others.
LEMMA IntroProgress ==
  ASSUME NEW c, NEW gs \in Seq(Nat), NEW t, IsContext(c), Declared(c.meta) \subseteq Nat,
         NEW o \in Intro(c, gs)
  PROVE  Progress(c, gs, t, o)
<1>1. CASE gs = <<>>
  BY <1>1, NoGoalsProgress DEF Intro
<1>2. CASE gs # <<>>
  <2> DEFINE new == <<c.core.next>>
  <2>1. PICK p \in IntroGoal(c, Head(gs)) : o = [res |-> p.res, c |-> p.c, goals |-> new \o Tail(gs)]
    BY <1>2 DEF Intro, Leaving
  <2>2. Proves(c, Head(gs), {c.core.next}, p)
    BY IntroProves
  <2>3. c.core.next \in Nat
    BY DEF IsContext
  <2>4. new \in Seq(Nat) /\ Range(new) = {c.core.next}
    BY <2>3 DEF Range
  <2> HIDE DEF new
  <2> QED
    BY <1>2, <2>1, <2>2, <2>4 DEF Progress, Proves
<1> QED
  BY <1>1, <1>2

\* apply puts the goals it has declared before the others.
LEMMA ApplyProgress ==
  ASSUME NEW c, NEW gs \in Seq(Nat), NEW t, IsContext(c), Declared(c.meta) \subseteq Nat,
         NEW o \in Apply(c, gs)
  PROVE  Progress(c, gs, t, o)
<1>1. CASE gs = <<>>
  BY <1>1, NoGoalsProgress DEF Apply
<1>2. CASE gs # <<>>
  <2>1. PICK p \in ApplyGoal(c, Head(gs)) :
          o = [res |-> p.res, c |-> p.c, goals |-> NewGoals(c, p.c) \o Tail(gs)]
    BY <1>2 DEF Apply
  <2> DEFINE new == NewGoals(c, p.c)
  <2>2. Proves(c, Head(gs), Range(new), p)
    BY ApplyProves
  <2>3. c.core.next \in Nat /\ p.c.core.next \in Nat /\ c.core.next <= p.c.core.next
    BY ApplyExtends DEF Sound, ExtendsTo, IsContext, Adds
  <2>4. new \in Seq(Nat)
    <3>1. p.c.core.next - c.core.next \in Nat
      BY <2>3
    <3> QED
      BY <2>3, <3>1, MintedNames DEF NewGoals
  <2> HIDE DEF new
  <2>5. o.goals = new \o Tail(gs) /\ o.res = p.res /\ o.c = p.c
    BY <2>1 DEF new
  <2> QED
    BY <1>2, <2>2, <2>4, <2>5 DEF Progress, Proves
<1> QED
  BY <1>1, <1>2

\* focus gives the tactic the main goal, and puts the others after what it leaves.
LEMMA FocusProgress ==
  ASSUME NEW c, NEW gs \in Seq(Nat), NEW t, IsContext(c), Declared(c.meta) \subseteq Nat,
         NEW o \in Focus(c, gs)
  PROVE  Progress(c, gs, t, o)
<1>1. CASE gs = <<>>
  BY <1>1, NoGoalsProgress DEF Focus
<1>2. CASE gs # <<>>
  <2> DEFINE main == <<Head(gs)>>
  <2>1. PICK p \in Apply(c, main) \cup Intro(c, main) :
          o = [res |-> p.res, c |-> p.c, goals |-> p.goals \o Tail(gs)]
    BY <1>2 DEF Focus
  <2>2. main \in Seq(Nat) /\ main # <<>> /\ Head(main) = Head(gs) /\ Tail(main) = <<>>
    BY <1>2
  <2>3. Progress(c, main, t, p)
    BY <2>1, <2>2, ApplyProgress, IntroProgress
  <2> HIDE DEF main
  <2>4. CASE p.res = "ok"
    <3>1. PICK new \in Seq(Nat) :
            /\ p.goals = new \o Tail(main)
            /\ Pending(p.c.meta) \subseteq (Pending(c.meta) \cup t \cup Range(new)) \ {Head(main)}
      BY <2>3, <2>4 DEF Progress
    <3>2. p.goals = new
      <4>1. new \o <<>> = new
        OBVIOUS
      <4> QED
        BY <2>2, <3>1, <4>1
    <3> QED
      BY <1>2, <2>1, <2>2, <2>4, <3>1, <3>2 DEF Progress
  <2>5. CASE p.res # "ok"
    BY <1>2, <2>1, <2>3, <2>5 DEF Progress
  <2> QED
    BY <2>4, <2>5
<1> QED
  BY <1>1, <1>2

\* A tactic of tactic.rs keeps the cover.
LEMMA ConcludeCovers ==
  ASSUME CoverInv, NEW t, t \subseteq Range(Tail(goals)), NEW o, Progress(session, goals, t, o),
         o.res \in {"ok", "err"}, Conclude(o)
  PROVE  CoverInv'
<1>1. session' = o.c /\ saved' = saved
  BY DEF Conclude
<1>2. CASE o.res = "ok"
  <2>1. goals' = o.goals
    BY <1>2 DEF Conclude
  <2> QED
    BY <1>1, <1>2, <2>1, ProgressCovers DEF CoverInv
<1>3. CASE o.res = "err"
  <2>1. goals' = goals
    BY <1>3 DEF Conclude
  <2>2. Pending(o.c.meta) \subseteq Pending(session.meta)
    BY <1>3 DEF Progress
  <2> QED
    BY <1>1, <2>1, <2>2 DEF CoverInv, Covers
<1> QED
  BY <1>2, <1>3

\* Every call of a tactic by the caller does: exact is given goals it keeps.
LEMMA TacticsCover ==
  ASSUME IInv, ~strayed, CoverInv,
         ExactMain \/ RflMain \/ AssumptionMain \/ IntroMain \/ ApplyMain \/ FocusMain
  PROVE  CoverInv'
<1>1. IsContext(session) /\ Declared(session.meta) \subseteq Nat /\ goals \in Seq(Nat)
  BY DEF IInv, GoodInv, GoodMeta, IsContext, CoverInv, Covers
<1>2. ASSUME NEW t, NEW o \in Exact(session, goals, t) \cup Rfl(session, goals)
                     \cup Assumption(session, goals) \cup Intro(session, goals)
                     \cup Apply(session, goals) \cup Focus(session, goals)
      PROVE  o.res \in {"ok", "err"}
  BY <1>1, <1>2, TacticsExtend DEF Sound
<1>3. CASE ExactMain
  <2>0. PICK t \in IF goals = <<>> THEN {{}} ELSE Terms(Head(goals)) :
          \E o \in Exact(session, goals, t) : Conclude(o)
    BY <1>3 DEF ExactMain
  <2>1. PICK o \in Exact(session, goals, t) : Conclude(o)
    BY <2>0
  <2>2. CASE goals = <<>>
    <3>1. o.res = "err" /\ o.c = session
      BY <2>1, <2>2 DEF Exact, NoGoals
    <3>2. session' = session /\ goals' = goals /\ saved' = saved
      BY <2>1, <3>1 DEF Conclude
    <3> QED
      BY <3>2 DEF CoverInv
  <2>3. CASE goals # <<>>
    <3>1. t \subseteq Range(Tail(goals))
      BY <1>1, <2>0, <2>3, RangeTail DEF Terms
    <3>2. Progress(session, goals, t, o)
      BY <1>1, <2>1, <2>3, CloseProgress DEF Exact
    <3> QED
      BY <1>2, <2>1, <3>1, <3>2, ConcludeCovers
  <2> QED
    BY <2>2, <2>3
<1>4. ASSUME NEW o \in Rfl(session, goals) \cup Assumption(session, goals)
      PROVE  Progress(session, goals, {}, o)
  BY <1>1, <1>4, CloseProgress, NoGoalsProgress DEF Rfl, Assumption
<1>5. ASSUME NEW o \in Intro(session, goals) \cup Apply(session, goals) \cup Focus(session, goals)
      PROVE  Progress(session, goals, {}, o)
  BY <1>1, <1>5, IntroProgress, ApplyProgress, FocusProgress
<1>6. ASSUME NEW o \in Rfl(session, goals) \cup Assumption(session, goals)
                     \cup Intro(session, goals) \cup Apply(session, goals) \cup Focus(session, goals),
             Conclude(o)
      PROVE  CoverInv'
  <2>1. Progress(session, goals, {}, o) /\ o.res \in {"ok", "err"}
    BY <1>2, <1>4, <1>5, <1>6
  <2> QED
    BY <1>6, <2>1, ConcludeCovers
<1>7. CASE RflMain \/ AssumptionMain \/ IntroMain \/ ApplyMain \/ FocusMain
  BY <1>6, <1>7 DEF RflMain, AssumptionMain, IntroMain, ApplyMain, FocusMain
<1> QED
  BY <1>3, <1>7


-----------------------------------------------------------------------------
(* The other calls.                                                        *)

\* mk_goal declares one more goal to prove, and lists it.
LEMMA MkGoalCovers ==
  ASSUME IInv, CoverInv, MkGoal
  PROVE  CoverInv'
<1> DEFINE n == session.core.next
           c == [session EXCEPT !.meta = Declare(@, session.core.next, 1, session.lctx, Missing),
                                !.core.next = @ + 1]
<1>1. /\ saved' = saved
      /\ \/ session' = session /\ goals' = goals
         \/ session' = c /\ goals' = Append(goals, n)
  BY DEF MkGoal, RunPersistent
<1>2. CASE session' = session /\ goals' = goals
  BY <1>1, <1>2 DEF CoverInv
<1>3. CASE session' = c /\ goals' = Append(goals, n)
  <2>1. n \in Nat /\ n .. n + 1 - 1 = {n}
    BY DEF IInv, IsContext
  <2>2. /\ session'.meta.asg = session.meta.asg
        /\ DOMAIN session'.meta.decl = DOMAIN session.meta.decl \cup {n}
        /\ \A x \in DOMAIN session.meta.decl : session'.meta.decl[x] = session.meta.decl[x]
    BY <1>3, <2>1 DEF IInv, IsContext, Declare
  <2>3. Roots(session'.meta) \subseteq Roots(session.meta) \cup {n}
    BY <2>2 DEF Roots, Declared
  <2>4. Pending(session'.meta) \subseteq Pending(session.meta) \cup {n}
    BY <2>2, <2>3 DEF Pending, Mentioned, Assigned
  <2>5. goals \in Seq(Nat) /\ <<n>> \in Seq(Nat) /\ goals' = goals \o <<n>> /\ Range(<<n>>) = {n}
    BY <1>3, <2>1 DEF CoverInv, Covers, Range
  <2>6. goals' \in Seq(Nat) /\ Range(goals') = Range(goals) \cup {n}
    BY <2>5, RangeConcat
  <2> QED
    BY <1>1, <2>4, <2>6 DEF CoverInv, Covers
<1> QED
  BY <1>1, <1>2, <1>3

\* What a run of Lean's elaborator that run_tactic accepts leaves to be proved: the goals it
\* has made instead of its own.
LEMMA ElaborationProves ==
  ASSUME NEW c, NEW g, IsContext(c), GoodMeta(c.meta, c.core.next),
         NEW e \in Elaborations(c, c.meta, g), ~e.thrown, ~e.error
  PROVE  /\ e.new \in Nat
         /\ Pending(e.meta)
              \subseteq (Pending(c.meta) \cup c.core.next .. c.core.next + e.new - 1) \ {g}
<1> DEFINE n == c.core.next
<1>1. n \in Nat
  BY DEF IsContext
<1>2. CASE e.meta = c.meta /\ e.new = 0 /\ g \in Assigned(c.meta)
  BY <1>2 DEF Pending
<1>3. CASE ~(e.meta = c.meta /\ e.new = 0 /\ g \in Assigned(c.meta))
  <2>1. g \in Declared(c.meta)
    BY <1>3 DEF Elaborations
  <2>2. PICK k \in 0 .. MaxNew(c), s \in c.meta.decl[g].scope .. MaxScope :
          e.meta = Refine(c.meta, n, k, s, g) /\ e.new = k
    BY <1>3 DEF Elaborations
  <2> DEFINE d == Declare(c.meta, n, k, s, g)
             t == n .. n + k - 1
  <2>3. k \in Nat /\ g # Missing
    BY <2>1, <2>2, <1>1, ProofSessionAssumption DEF GoodMeta
  <2>4. /\ d = [decl |-> d.decl, asg |-> c.meta.asg]
        /\ \A x \in DOMAIN d.decl \ DOMAIN c.meta.decl : d.decl[x] = [scope |-> s, parent |-> g]
        /\ \A x \in DOMAIN c.meta.decl : d.decl[x] = c.meta.decl[x]
    BY DEF IsContext, Declare
  <2> HIDE DEF d, t
  <2>5. e.meta.decl = d.decl /\ e.meta.asg = Override(c.meta.asg, g, t)
    BY <2>2, <2>4 DEF Refine, Assign, d, t
  <2>6. Roots(e.meta) \subseteq Roots(c.meta)
    BY <2>3, <2>4, <2>5 DEF Roots, Declared
  <2>7. /\ DOMAIN e.meta.asg = DOMAIN c.meta.asg \cup {g}
        /\ \A x \in DOMAIN e.meta.asg : e.meta.asg[x] = IF x = g THEN t ELSE c.meta.asg[x]
    BY <2>5 DEF Override
  <2>8. Mentioned(e.meta) \subseteq Mentioned(c.meta) \cup t
    BY <2>6, <2>7 DEF Mentioned, Assigned
  <2>9. Pending(e.meta) \subseteq (Pending(c.meta) \cup t) \ {g}
    BY <2>7, <2>8 DEF Pending, Assigned
  <2> QED
    BY <2>2, <2>3, <2>9 DEF t
<1> QED
  BY <1>2, <1>3

\* Replacing one element of a list by others keeps the rest.
LEMMA RangeSplice ==
  ASSUME NEW s \in Seq(Nat), NEW i \in DOMAIN s, NEW new \in Seq(Nat)
  PROVE  LET u == SubSeq(s, 1, i - 1) \o new \o SubSeq(s, i + 1, Len(s))
         IN u \in Seq(Nat) /\ Range(new) \cup (Range(s) \ {s[i]}) \subseteq Range(u)
<1> DEFINE a == SubSeq(s, 1, i - 1)
           b == SubSeq(s, i + 1, Len(s))
<1>1. DOMAIN s = 1 .. Len(s) /\ Len(s) \in Nat /\ i \in Nat /\ 1 <= i /\ i <= Len(s)
  OBVIOUS
<1>2. a \in Seq(Nat) /\ DOMAIN a = 1 .. i - 1 /\ \A j \in 1 .. i - 1 : a[j] = s[j]
  BY <1>1
<1>3. /\ b \in Seq(Nat) /\ DOMAIN b = 1 .. Len(s) - i
      /\ \A j \in 1 .. Len(s) - i : b[j] = s[i + j]
  <2>1. b \in Seq(Nat)
    BY <1>1
  <2>2. Len(b) = Len(s) - i
    BY <1>1
  <2>3. \A j \in 1 .. Len(s) - i : b[j] = s[i + j]
    BY <1>1
  <2> QED
    BY <2>1, <2>2, <2>3
<1> HIDE DEF a, b
<1>4. /\ a \o new \in Seq(Nat) /\ Range(a \o new) = Range(a) \cup Range(new)
      /\ (a \o new) \o b \in Seq(Nat)
      /\ Range((a \o new) \o b) = Range(a \o new) \cup Range(b)
  BY <1>2, <1>3, RangeConcat
<1>5. ASSUME NEW j \in 1 .. Len(s), s[j] # s[i] PROVE s[j] \in Range(a) \cup Range(b)
  <2>1. CASE j < i
    <3>1. j \in 1 .. i - 1
      BY <1>1, <2>1
    <3>2. j \in DOMAIN a /\ a[j] = s[j]
      BY <1>2, <3>1
    <3> QED
      BY <3>2 DEF Range
  <2>2. CASE j > i
    <3>1. j - i \in 1 .. Len(s) - i /\ i + (j - i) = j
      BY <1>1, <2>2
    <3>2. j - i \in DOMAIN b /\ b[j - i] = s[j]
      BY <1>3, <3>1
    <3> QED
      BY <3>2 DEF Range
  <2>3. j < i \/ j > i
    BY <1>1, <1>5
  <2> QED
    BY <2>1, <2>2, <2>3
<1>6. Range(s) \ {s[i]} \subseteq Range(a) \cup Range(b)
  BY <1>1, <1>5 DEF Range
<1> QED
  BY <1>4, <1>6 DEF a, b

\* run_tactic puts the new goals where the old one was, or changes nothing.
LEMMA RunTacticCovers ==
  ASSUME IInv, ~strayed, CoverInv, NEW i \in DOMAIN goals, RunTactic(i), ~strayed'
  PROVE  CoverInv'
<1> DEFINE n == session.core.next
           Listed(e) == SubSeq(goals, 1, i - 1) \o Minted(n, e.new)
                          \o SubSeq(goals, i + 1, Len(goals))
           Taken(e, aux) ==
             LET failed == e.thrown \/ e.error \/ session.core.error IN
             /\ session' = IF failed THEN session ELSE UpdateStates(session, e, aux)
             /\ goals' = IF failed THEN goals ELSE Listed(e)
             /\ strayed' = (strayed \/ (OutOfStep /\ ~failed))
             /\ saved' = saved
<1>1. \E e \in Elaborations(session, View, goals[i]), aux \in SUBSET {"aux"} : Taken(e, aux)
  BY Zenon DEF RunTactic
<1>2. PICK e \in Elaborations(session, View, goals[i]), aux \in SUBSET {"aux"} : Taken(e, aux)
  BY <1>1, Zenon
<1>3. CASE e.thrown \/ e.error \/ session.core.error
  <2>1. session' = session /\ goals' = goals /\ saved' = saved
    BY <1>2, <1>3
  <2> QED
    BY <2>1 DEF CoverInv
<1>4. CASE ~e.thrown /\ ~e.error /\ ~session.core.error
  <2>1. session' = UpdateStates(session, e, aux) /\ goals' = Listed(e) /\ saved' = saved
    BY <1>2, <1>4
  <2>2. session'.meta = e.meta
    BY <2>1 DEF UpdateStates, IInv, IsContext
  <2>3. e \in Elaborations(session, session.meta, goals[i])
    <3>1. ~OutOfStep
      BY <1>2, <1>4, Zenon
    <3> QED
      BY <1>2, <3>1, ViewOfContext
  <2>4. /\ e.new \in Nat
        /\ Pending(e.meta) \subseteq (Pending(session.meta) \cup n .. n + e.new - 1) \ {goals[i]}
    BY <1>4, <2>3, ElaborationProves DEF IInv, GoodInv
  <2>5. n \in Nat /\ goals \in Seq(Nat) /\ Pending(session.meta) \subseteq Range(goals)
    BY DEF IInv, IsContext, CoverInv, Covers
  <2>6. Minted(n, e.new) \in Seq(Nat) /\ Range(Minted(n, e.new)) = n .. n + e.new - 1
    BY <2>4, <2>5, MintedNames
  <2>7. /\ Listed(e) \in Seq(Nat)
        /\ Range(Minted(n, e.new)) \cup (Range(goals) \ {goals[i]}) \subseteq Range(Listed(e))
    BY <2>5, <2>6, RangeSplice
  <2> HIDE DEF Listed
  <2> QED
    BY <2>1, <2>2, <2>4, <2>5, <2>6, <2>7 DEF CoverInv, Covers
<1> QED
  BY <1>3, <1>4

\* A snapshot takes the goals with it, and branching brings them back.
LEMMA OthersCover ==
  ASSUME IInv, CoverInv,
         Inspect \/ RunCommand \/ ReplaceEnv \/ Snapshot \/ (\E s \in saved : Branch(s))
  PROVE  CoverInv'
<1>1. CASE Inspect \/ RunCommand
  <2>1. session' = session /\ goals' = goals /\ saved' = saved
    BY <1>1 DEF Inspect, RunCommand, Run
  <2> QED
    BY <2>1 DEF CoverInv
<1>2. CASE ReplaceEnv
  <2>1. session'.meta = session.meta /\ goals' = goals /\ saved' = saved
    BY <1>2 DEF ReplaceEnv, IInv, IsContext
  <2> QED
    BY <2>1 DEF CoverInv
<1>3. CASE Snapshot
  BY <1>3 DEF Snapshot, CoverInv
<1>4. ASSUME NEW s \in saved, Branch(s) PROVE CoverInv'
  <2>1. session'.meta = s.meta /\ goals' = s.goals /\ saved' = saved
    BY <1>4 DEF Branch, IInv, IsContext
  <2> QED
    BY <2>1 DEF CoverInv
<1> QED
  BY <1>1, <1>2, <1>3, <1>4

\* The lists of goals cover what is still to be proved, here and on every branch.
LEMMA CoverInvIsInductive == SessionSpec => [](~strayed => CoverInv)
<1>1. SessionInit => CoverInv
  <2> SUFFICES ASSUME SessionInit PROVE CoverInv
    OBVIOUS
  <2>1. session.meta = NoMeta /\ goals = <<>> /\ saved = {}
    BY DEF SessionInit
  <2>2. Pending(NoMeta) = {}
    BY DEF NoMeta, Pending, Mentioned, Roots, Declared, Assigned
  <2> QED
    BY <2>1, <2>2 DEF CoverInv, Covers
<1>2. IInv /\ (~strayed => CoverInv) /\ [SessionNext]_sessionVars => (~strayed => CoverInv)'
  <2> SUFFICES ASSUME IInv, ~strayed => CoverInv, [SessionNext]_sessionVars, ~strayed'
               PROVE  CoverInv'
    OBVIOUS
  <2>1. CASE UNCHANGED sessionVars
    BY <2>1 DEF sessionVars, CoverInv
  <2>2. CASE SessionNext
    <3>1. ~strayed
      BY <2>2, StrayedStays
    <3> QED
      BY <2>2, <3>1, MkGoalCovers, TacticsCover, RunTacticCovers, OthersCover DEF SessionNext
  <2> QED
    BY <2>1, <2>2
<1> QED
  BY IInvIsInductive, <1>1, <1>2, PTL DEF SessionSpec

\* An empty list of goals is a complete proof: whatever a proof of the caller's goals still
\* mentions is on the list, on every branch (tactic.rs, is_solved; repl.rs, run_tactic).
THEOREM NoGoalIsLost == SessionSpec => []OpenGoalsListed
<1>1. (~strayed => CoverInv) => OpenGoalsListed
  BY DEF CoverInv, Covers, Pending, OpenGoalsListed
<1> QED
  BY CoverInvIsInductive, <1>1, PTL

-----------------------------------------------------------------------------
(* The types of a session.                                                  *)

\* What is assigned is declared.
MetaTyped(m) == IsMeta(m) /\ Assigned(m) \subseteq Declared(m)

\* A context that is typed where calls change it.
ContextTyped(c) == IsContext(c) /\ MetaTyped(c.meta) /\ c.core.next \in 0 .. MaxNames

\* An outcome of a call, and the goals it lists.
OutcomeTyped(o) == ContextTyped(o.c) /\ (o.res = "ok" => o.goals \in Seq(Declared(o.c.meta)))

\* Declaring adds the names that are declared, and nothing else.
LEMMA DeclareTyped ==
  ASSUME NEW m, NEW n \in Nat, NEW k \in Nat, n + k <= MaxNames, NEW s \in 0 .. MaxScope,
         NEW p \in Names \cup {Missing}, MetaTyped(m)
  PROVE  /\ MetaTyped(Declare(m, n, k, s, p))
         /\ Declared(Declare(m, n, k, s, p)) = Declared(m) \cup n .. n + k - 1
<1> DEFINE D == Declared(m) \cup n .. n + k - 1
           d == [x \in D |-> IF x \in Declared(m) THEN m.decl[x] ELSE [scope |-> s, parent |-> p]]
           e == Declare(m, n, k, s, p)
<1>1. /\ m = [decl |-> m.decl, asg |-> m.asg]
      /\ m.decl \in [Declared(m) -> [scope : 0 .. MaxScope, parent : Names \cup {Missing}]]
      /\ m.asg \in [Assigned(m) -> SUBSET Names]
      /\ Declared(m) \subseteq Names /\ Assigned(m) \subseteq Declared(m)
  BY DEF MetaTyped, IsMeta
<1>2. e = [decl |-> d, asg |-> m.asg]
  BY <1>1 DEF Declare, Declared
<1>3. d \in [D -> [scope : 0 .. MaxScope, parent : Names \cup {Missing}]] /\ DOMAIN d = D
  BY <1>1
<1>4. D \subseteq Names
  <2>1. n .. n + k - 1 \subseteq 0 .. MaxNames - 1
    BY ProofSessionAssumption
  <2>. QED BY <1>1, <2>1 DEF Names
<1> HIDE DEF d, D, e
<1>5. e.decl = d /\ e.asg = m.asg /\ e = [decl |-> e.decl, asg |-> e.asg]
  BY <1>2
<1>6. Declared(e) = D /\ Assigned(e) = Assigned(m)
  BY <1>3, <1>5 DEF Declared, Assigned
<1>7. Declared(m) \subseteq D
  BY DEF D
<1>8. MetaTyped(e)
  BY <1>1, <1>3, <1>4, <1>5, <1>6, <1>7 DEF MetaTyped, IsMeta
<1>. QED BY <1>6, <1>8 DEF D, e

\* Assigning a declared metavariable a term.
LEMMA AssignTyped ==
  ASSUME NEW m, NEW g \in Declared(m), NEW t \in SUBSET Names, MetaTyped(m)
  PROVE  MetaTyped(Assign(m, g, t)) /\ Declared(Assign(m, g, t)) = Declared(m)
<1> DEFINE a == Override(m.asg, g, t)
           e == Assign(m, g, t)
<1>1. /\ m = [decl |-> m.decl, asg |-> m.asg]
      /\ m.asg \in [Assigned(m) -> SUBSET Names] /\ Assigned(m) \subseteq Declared(m)
  BY DEF MetaTyped, IsMeta
<1>2. e = [decl |-> m.decl, asg |-> a]
  BY <1>1 DEF Assign
<1>3. a \in [Assigned(m) \cup {g} -> SUBSET Names] /\ DOMAIN a = Assigned(m) \cup {g}
  BY <1>1 DEF Override, Assigned
<1> HIDE DEF a, e
<1>4. e.decl = m.decl /\ e.asg = a /\ e = [decl |-> e.decl, asg |-> e.asg]
  BY <1>2
<1>5. Declared(e) = Declared(m) /\ Assigned(e) = Assigned(m) \cup {g}
  BY <1>3, <1>4 DEF Declared, Assigned
<1>6. MetaTyped(e)
  BY <1>1, <1>3, <1>4, <1>5 DEF MetaTyped, IsMeta
<1>. QED BY <1>5, <1>6 DEF e

\* MVarId.checkedAssign assigns what is declared.
LEMMA CheckedAssignTyped ==
  ASSUME NEW c, NEW g \in Declared(c.meta), NEW t \in SUBSET Names, IsContext(c), MetaTyped(c.meta),
         NEW o \in CheckedAssign(c, g, t)
  PROVE  MetaTyped(o.c.meta)
<1> DEFINE m == c.meta
           e == o.c.meta
<1>0. AssignOutcome(c, g, t, o)
  BY CheckedAssignEffect
<1>1. PICK u \in SUBSET ((t \cap Open(m)) \ {g}) :
        /\ Assigned(e) = (Assigned(m) \cup u) \cup (IF o.res = "ok" THEN {g} ELSE {})
        /\ \A x \in Assigned(e) :
             e.asg[x] = IF o.res = "ok" /\ x = g THEN t ELSE IF x \in u THEN {} ELSE m.asg[x]
  BY <1>0 DEF AssignOutcome
<1>2. e.decl = m.decl /\ e = [decl |-> e.decl, asg |-> e.asg]
  BY <1>0 DEF IsContext, AssignOutcome
<1>3. /\ m.decl \in [Declared(m) -> [scope : 0 .. MaxScope, parent : Names \cup {Missing}]]
      /\ m.asg \in [Assigned(m) -> SUBSET Names]
      /\ Declared(m) \subseteq Names /\ Assigned(m) \subseteq Declared(m)
  BY DEF MetaTyped, IsMeta
<1>4. g \in Declared(m) /\ t \in SUBSET Names /\ Declared(e) = Declared(m)
  BY <1>2 DEF Declared
<1> HIDE DEF m, e
<1>5. Assigned(e) \subseteq Declared(e)
  BY <1>1, <1>3, <1>4 DEF Open
<1>6. \A x \in Assigned(e) : e.asg[x] \in SUBSET Names
  BY <1>1, <1>3, <1>4
<1>7. e.asg = [x \in Assigned(e) |-> e.asg[x]]
  <2>1. CASE o.c = c
    <3>1. m = e
      BY <2>1 DEF m, e
    <3> QED
      BY <1>3, <3>1
  <2>2. CASE o.c # c
    BY <1>0, <2>2 DEF e, AssignOutcome
  <2> QED
    BY <2>1, <2>2
<1>8. e.asg \in [Assigned(e) -> SUBSET Names]
  BY <1>6, <1>7
<1>9. MetaTyped(e)
  BY <1>2, <1>3, <1>4, <1>5, <1>8 DEF MetaTyped, IsMeta
<1> QED
  BY <1>9 DEF e

\* The same inside of with_local_context; no name is taken.
LEMMA AssignInScopeTyped ==
  ASSUME NEW c, NEW g \in Declared(c.meta), NEW t \in SUBSET Names, ContextTyped(c),
         NEW o \in AssignInScope(c, g, t)
  PROVE  ContextTyped(o.c) /\ o.c.core = c.core /\ Declared(o.c.meta) = Declared(c.meta)
<1> DEFINE s == EnterScope(c, g)
<1>1. IsContext(s) /\ s.meta = c.meta
  <2>1. IsContext(c)
    BY DEF ContextTyped
  <2>. QED BY <2>1, ScopeChanges DEF EnterScope
<1>2. PICK p \in CheckedAssign(s, g, t) : o = [p EXCEPT !.c.lctx = c.lctx]
  BY DEF AssignInScope, LeaveScope
<1>3. p = [res |-> p.res, c |-> p.c]
  <2>1. AssignOutcome(s, g, t, p)
    BY <1>1, <1>2, CheckedAssignEffect
  <2> QED
    BY <2>1 DEF AssignOutcome
<1> HIDE DEF s
<1>4. MetaTyped(p.c.meta) /\ IsContext(p.c)
  BY <1>1, <1>2, CheckedAssignTyped, CheckedAssignExtends DEF Sound, ExtendsTo, ContextTyped
<1>5. o.c = [p.c EXCEPT !.lctx = c.lctx]
  BY <1>2, <1>3
<1>6. o.c.meta = p.c.meta
  BY <1>4, <1>5, ScopeChanges
<1>7. IsContext(o.c) /\ o.c.core = c.core /\ Declared(o.c.meta) = Declared(c.meta)
  BY AssignInScopeExtends, AssignInScopeTerms DEF ContextTyped, Sound, ExtendsTo
<1>. QED BY <1>4, <1>6, <1>7 DEF ContextTyped

\* exact, rfl and assumption
LEMMA CloseGoalTyped ==
  ASSUME NEW c, NEW g, NEW t \in SUBSET Names, ContextTyped(c), NEW o \in CloseGoal(c, g, t)
  PROVE  ContextTyped(o.c) /\ Declared(o.c.meta) = Declared(c.meta)
<1>1. IsContext(c)
  BY DEF ContextTyped
<1>2. CASE o \in Failed(Examine(c, g))
  BY <1>1, <1>2, ExamineExtends DEF Failed
<1>3. CASE o \notin Failed(Examine(c, g))
  <2>1. PICK d \in Onward(Examine(c, g)) : o \in AssignInScope(d, g, t)
    BY <1>3 DEF CloseGoal
  <2>2. d = c /\ g \in Declared(c.meta)
    BY <1>1, <2>1, ExamineExtends DEF Onward, Failed
  <2>. QED BY <2>1, <2>2, AssignInScopeTyped
<1>. QED BY <1>2, <1>3

\* intro takes a name if there is one left, and lists it.
LEMMA IntroTyped ==
  ASSUME NEW c, NEW g, ContextTyped(c), NEW o \in IntroGoal(c, g)
  PROVE  /\ ContextTyped(o.c) /\ Declared(c.meta) \subseteq Declared(o.c.meta)
         /\ o.res = "ok" => c.core.next \in Declared(o.c.meta)
<1> DEFINE n == c.core.next
<1>1. IsContext(c) /\ MetaTyped(c.meta) /\ n \in Nat /\ n <= MaxNames
  BY ProofSessionAssumption DEF ContextTyped
<1>2. CASE o = [res |-> "err", c |-> c]
  BY <1>2
<1>3. CASE o # [res |-> "err", c |-> c]
  <2>1. g \in Open(c.meta) /\ n # MaxNames
    BY <1>3 DEF IntroGoal, RunPersistent
  <2>2. PICK s \in {c.meta.decl[g].scope + 1} \cap 0 .. MaxScope : o.c = Introduced(c, g, s)
    BY <1>3 DEF IntroGoal, RunPersistent
  <2> DEFINE d == Declare(c.meta, n, 1, s, g)
             m == Assign(d, g, {n})
  <2>3. o.c.meta = m /\ o.c.core.next = n + 1
    BY <1>1, <2>2 DEF IsContext, Introduced
  <2>4. g \in Declared(c.meta) /\ g \in Names /\ s \in 0 .. MaxScope /\ n \in Names
        /\ n + 1 <= MaxNames /\ n + 1 \in 0 .. MaxNames
    <3>1. MaxNames \in Nat
      BY ProofSessionAssumption
    <3>2. n + 1 <= MaxNames /\ n + 1 \in 0 .. MaxNames /\ n \in 0 .. MaxNames - 1
      BY <1>1, <2>1, <3>1
    <3>. QED BY <1>1, <2>1, <2>2, <3>2 DEF Open, MetaTyped, IsMeta, Names
  <2> HIDE DEF n, d, m
  <2>5. MetaTyped(d) /\ Declared(d) = Declared(c.meta) \cup n .. n + 1 - 1
    BY <1>1, <2>4, DeclareTyped DEF d
  <2>6. n \in n .. n + 1 - 1
    BY <1>1
  <2>7. MetaTyped(m) /\ Declared(m) = Declared(d)
    BY <2>4, <2>5, AssignTyped DEF m
  <2>8. IsContext(o.c)
    BY <1>1, IntroExtends DEF Sound, ExtendsTo
  <2>. QED BY <2>3, <2>4, <2>5, <2>6, <2>7, <2>8 DEF ContextTyped, n
<1>. QED BY <1>2, <1>3

\* apply's loop over the binders declares no more than there are names left.
LEMMA PeelTyped ==
  ASSUME NEW c, NEW g \in Declared(c.meta), ContextTyped(c), NEW o \in Peel(c, g)
  PROVE  /\ ContextTyped(o.c)
         /\ o.c.core.next - c.core.next \in Nat
         /\ Declared(o.c.meta) = Declared(c.meta) \cup c.core.next .. o.c.core.next - 1
<1> DEFINE n == c.core.next
<1>1. IsContext(c) /\ MetaTyped(c.meta) /\ n \in Nat /\ n <= MaxNames /\ MaxNames \in Nat
  BY ProofSessionAssumption DEF ContextTyped
<1>2. PICK r \in {"ok", "err"}, k \in 0 .. MaxNew(c) : o = [res |-> r, c |-> Peeled(c, g, k)]
  BY DEF Peel
<1>3. k \in Nat /\ n + k <= MaxNames
  <2>1. MaxNew(c) \in Nat /\ MaxNew(c) <= MaxNames - n
    BY <1>1, ProofSessionAssumption DEF MaxNew
  <2>. HIDE DEF n
  <2>. QED BY <1>1, <1>2, <2>1
<1> DEFINE s == c.meta.decl[g].scope
           m == Declare(c.meta, n, k, s, g)
<1>4. o.c.meta = m /\ o.c.core.next = n + k
  BY <1>1, <1>2 DEF IsContext, Peeled
<1>5. s \in 0 .. MaxScope /\ g \in Names
  BY <1>1 DEF MetaTyped, IsMeta
<1>6. IsContext(o.c)
  BY <1>1, PeelExtends DEF ExtendsTo
<1> HIDE DEF n, s, m
<1>7. MetaTyped(m) /\ Declared(m) = Declared(c.meta) \cup n .. n + k - 1
  BY <1>1, <1>3, <1>5, DeclareTyped DEF m
<1>8. n + k \in 0 .. MaxNames /\ (n + k) - n \in Nat
  BY <1>1, <1>3
<1>. QED BY <1>4, <1>6, <1>7, <1>8 DEF ContextTyped, n

\* apply lists what it has declared.
LEMMA ApplyTyped ==
  ASSUME NEW c, NEW g, ContextTyped(c), NEW o \in ApplyGoal(c, g)
  PROVE  /\ ContextTyped(o.c) /\ Declared(c.meta) \subseteq Declared(o.c.meta)
         /\ NewGoals(c, o.c) \in Seq(Declared(o.c.meta))
<1> DEFINE peeled == UNION {Peel(d, g) : d \in Onward(Examine(c, g))}
           Lists(d) == /\ ContextTyped(d) /\ Declared(c.meta) \subseteq Declared(d.meta)
                       /\ Range(NewGoals(c, d)) \subseteq Declared(d.meta)
                       /\ NewGoals(c, d) \in Seq(Declared(d.meta))
<1>1. IsContext(c) /\ c.core.next \in Nat
  BY DEF ContextTyped, IsContext
<1>2. \A d \in Onward(Examine(c, g)) : d = c /\ g \in Declared(c.meta)
  BY <1>1, ExamineExtends DEF Onward, Failed
<1>3. \A d : ContextTyped(d) /\ d.core.next - c.core.next \in Nat
             /\ Declared(d.meta) = Declared(c.meta) \cup c.core.next .. d.core.next - 1
             => Lists(d)
  <2> SUFFICES ASSUME NEW d, ContextTyped(d), d.core.next - c.core.next \in Nat,
                      Declared(d.meta) = Declared(c.meta) \cup c.core.next .. d.core.next - 1
               PROVE  Lists(d)
    OBVIOUS
  <2> DEFINE n == c.core.next
             k == d.core.next - n
             new == NewGoals(c, d)
  <2>1. d.core.next \in Nat
    BY DEF ContextTyped, IsContext
  <2>2. n \in Nat /\ k \in Nat /\ new = Minted(n, k) /\ n + k - 1 = d.core.next - 1
    BY <1>1, <2>1 DEF NewGoals
  <2> HIDE DEF n, k, new
  <2>3. new \in Seq(Nat) /\ Range(new) = n .. n + k - 1
    BY <2>2, MintedNames
  <2>4. Range(new) \subseteq Declared(d.meta)
    BY <2>2, <2>3 DEF n
  <2>5. new \in Seq(Declared(d.meta))
    <3>1. \A i \in 1 .. Len(new) : new[i] \in Declared(d.meta)
      BY <2>3, <2>4 DEF Range
    <3>. QED BY <2>3, <3>1
  <2>. QED BY <2>4, <2>5 DEF new
<1>4. \A q \in peeled : Lists(q.c)
  <2> SUFFICES ASSUME NEW d \in Onward(Examine(c, g)), NEW q \in Peel(d, g) PROVE Lists(q.c)
    OBVIOUS
  <2>1. d = c /\ g \in Declared(c.meta)
    BY <1>2
  <2>. QED BY <1>3, <2>1, PeelTyped
<1>5. CASE o \in Failed(Examine(c, g))
  <2>1. o.c = c
    BY <1>1, <1>5, ExamineExtends DEF Failed
  <2>2. Lists(c)
    <3>1. c.core.next - c.core.next \in Nat /\ c.core.next .. c.core.next - 1 = {}
      BY <1>1
    <3>. QED BY <1>3, <3>1
  <2>. QED BY <2>1, <2>2
<1>6. CASE o \in Failed(peeled)
  BY <1>4, <1>6 DEF Failed
<1>7. CASE \E d \in Onward(peeled) : o \in AssignInScope(d, g, Range(NewGoals(c, d)))
  <2>1. PICK d \in Onward(peeled) : o \in AssignInScope(d, g, Range(NewGoals(c, d)))
    BY <1>7
  <2>2. Lists(d)
    BY <1>4, <2>1 DEF Onward, Failed
  <2>3. g \in Declared(c.meta)
    <3>1. PICK q \in peeled : TRUE
      BY <2>1 DEF Onward, Failed
    <3>. QED BY <1>2, <3>1
  <2>4. Range(NewGoals(c, d)) \in SUBSET Names /\ g \in Declared(d.meta)
    BY <2>2, <2>3 DEF ContextTyped, MetaTyped, IsMeta
  <2>5. ContextTyped(o.c) /\ o.c.core = d.core /\ Declared(o.c.meta) = Declared(d.meta)
    BY <2>1, <2>2, <2>4, AssignInScopeTyped
  <2>6. NewGoals(c, o.c) = NewGoals(c, d)
    BY <2>5 DEF NewGoals
  <2>. QED BY <2>2, <2>5, <2>6
<1>. QED
  BY <1>5, <1>6, <1>7 DEF ApplyGoal

\* A list of goals stays one where more is declared.
LEMMA GoalsStayTyped ==
  ASSUME NEW D, NEW E, D \subseteq E, NEW gs \in Seq(D)
  PROVE  gs \in Seq(E) /\ (gs # <<>> => Head(gs) \in E /\ Tail(gs) \in Seq(E))
<1>1. gs \in Seq(E)
  OBVIOUS
<1>2. gs # <<>> => Head(gs) \in E /\ Tail(gs) \in Seq(E)
  BY <1>1
<1>. QED BY <1>1, <1>2

\* Every tactic of tactic.rs lists declared goals.
LEMMA TacticsTyped ==
  ASSUME NEW c, NEW gs \in Seq(Declared(c.meta)), NEW t \in SUBSET Names, ContextTyped(c),
         NEW o \in Exact(c, gs, t) \cup Rfl(c, gs) \cup Assumption(c, gs) \cup Intro(c, gs)
                     \cup Apply(c, gs) \cup Focus(c, gs)
  PROVE  OutcomeTyped(o)
<1>1. ASSUME NEW p \in NoGoals(c) PROVE OutcomeTyped(p)
  BY <1>1 DEF NoGoals, OutcomeTyped
<1>2. ASSUME NEW u \in SUBSET Names, NEW g, NEW hs \in Seq(Declared(c.meta)),
             NEW p \in Leaving(CloseGoal(c, g, u), hs)
      PROVE  OutcomeTyped(p)
  <2>1. PICK q \in CloseGoal(c, g, u) : p = [res |-> q.res, c |-> q.c, goals |-> hs]
    BY <1>2 DEF Leaving
  <2>2. ContextTyped(q.c) /\ Declared(q.c.meta) = Declared(c.meta)
    BY CloseGoalTyped
  <2>. QED BY <2>1, <2>2 DEF OutcomeTyped
<1>3. ASSUME NEW hs \in Seq(Declared(c.meta)), NEW p \in Intro(c, hs) PROVE OutcomeTyped(p)
  <2>1. CASE hs = <<>>
    BY <1>1, <1>3, <2>1 DEF Intro
  <2>2. CASE hs # <<>>
    <3>1. PICK q \in IntroGoal(c, Head(hs)) :
            p = [res |-> q.res, c |-> q.c, goals |-> <<c.core.next>> \o Tail(hs)]
      BY <1>3, <2>2 DEF Intro, Leaving
    <3> DEFINE D == Declared(q.c.meta)
    <3>2. ContextTyped(q.c) /\ Declared(c.meta) \subseteq D /\ (q.res = "ok" => c.core.next \in D)
      BY IntroTyped
    <3> HIDE DEF D
    <3>3. Tail(hs) \in Seq(D)
      BY <2>2, <3>2, GoalsStayTyped
    <3>4. q.res = "ok" => <<c.core.next>> \o Tail(hs) \in Seq(D)
      BY <3>2, <3>3
    <3>. QED BY <3>1, <3>2, <3>4 DEF OutcomeTyped, D
  <2>. QED BY <2>1, <2>2
<1>4. ASSUME NEW hs \in Seq(Declared(c.meta)), NEW p \in Apply(c, hs) PROVE OutcomeTyped(p)
  <2>1. CASE hs = <<>>
    BY <1>1, <1>4, <2>1 DEF Apply
  <2>2. CASE hs # <<>>
    <3>1. PICK q \in ApplyGoal(c, Head(hs)) :
            p = [res |-> q.res, c |-> q.c, goals |-> NewGoals(c, q.c) \o Tail(hs)]
      BY <1>4, <2>2 DEF Apply
    <3> DEFINE D == Declared(q.c.meta)
               new == NewGoals(c, q.c)
    <3>2. ContextTyped(q.c) /\ Declared(c.meta) \subseteq D /\ new \in Seq(D)
      BY ApplyTyped
    <3> HIDE DEF D, new
    <3>3. Tail(hs) \in Seq(D)
      BY <2>2, <3>2, GoalsStayTyped
    <3>4. new \o Tail(hs) \in Seq(D)
      BY <3>2, <3>3
    <3>. QED BY <3>1, <3>2, <3>4 DEF OutcomeTyped, D, new
  <2>. QED BY <2>1, <2>2
<1>5. CASE o \in Focus(c, gs)
  <2>1. CASE gs = <<>>
    BY <1>1, <1>5, <2>1 DEF Focus
  <2>2. CASE gs # <<>>
    <3> DEFINE main == <<Head(gs)>>
    <3>1. PICK q \in Apply(c, main) \cup Intro(c, main) :
            o = [res |-> q.res, c |-> q.c, goals |-> q.goals \o Tail(gs)]
      BY <1>5, <2>2 DEF Focus
    <3>2. main \in Seq(Declared(c.meta))
      BY <2>2
    <3> HIDE DEF main
    <3> DEFINE D == Declared(q.c.meta)
    <3>3. ContextTyped(q.c) /\ (q.res = "ok" => q.goals \in Seq(D))
      BY <1>3, <1>4, <3>1, <3>2 DEF OutcomeTyped
    <3>4. Declared(c.meta) \subseteq D
      <4>1. IsContext(c)
        BY DEF ContextTyped
      <4>2. Sound(c, Head(main), q)
        BY <3>1, <4>1, TacticsExtend
      <4>. QED BY <4>2 DEF Sound, ExtendsTo, Keeps, D
    <3> HIDE DEF D
    <3>5. Tail(gs) \in Seq(D)
      BY <2>2, <3>4, GoalsStayTyped
    <3>6. q.res = "ok" => q.goals \o Tail(gs) \in Seq(D)
      BY <3>3, <3>5
    <3>. QED BY <3>1, <3>3, <3>6 DEF OutcomeTyped, D
  <2>. QED BY <2>1, <2>2
<1>6. CASE o \in Exact(c, gs, t) \cup Rfl(c, gs) \cup Assumption(c, gs)
  <2>1. CASE gs = <<>>
    BY <1>1, <1>6, <2>1 DEF Exact, Rfl, Assumption
  <2>2. CASE gs # <<>>
    <3>1. Tail(gs) \in Seq(Declared(c.meta)) /\ {} \in SUBSET Names
      BY <2>2
    <3>. QED BY <1>2, <1>6, <2>2, <3>1 DEF Exact, Rfl, Assumption
  <2>. QED BY <2>1, <2>2
<1>. QED
  BY <1>3, <1>4, <1>5, <1>6

\* The types of a session.
SessionTyped ==
  /\ MetaTyped(session.meta)
  /\ session.core \in [next : 0 .. MaxNames, env : SUBSET Constants, error : BOOLEAN]
  /\ session.env \subseteq Constants
  /\ goals \in Seq(Declared(session.meta))
  /\ fetched \in (SUBSET Constants) \cup {Missing}
  /\ \A s \in saved : MetaTyped(s.meta) /\ s.goals \in Seq(Declared(s.meta))
  /\ answer \in [res : {"none", "ok", "err", "branched"}, goal : Names \cup {Missing}]

\* The goal that a call names is a name.
LEMMA OpenIsName ==
  ASSUME SessionTyped, NEW g
  PROVE  IfOpen(g) \in Names \cup {Missing}
BY DEF IfOpen, Open, SessionTyped, MetaTyped, IsMeta

\* The context of a typed session is typed.
LEMMA ContextIsTyped ==
  ASSUME IInv, SessionTyped
  PROVE  ContextTyped(session)
BY DEF IInv, SessionTyped, ContextTyped

\* A tactic of tactic.rs
LEMMA ConcludeTyped ==
  ASSUME IInv, SessionTyped, NEW o, Sound(session, Head(goals), o), OutcomeTyped(o), Conclude(o)
  PROVE  SessionTyped'
<1>1. /\ session' = o.c /\ goals' = (IF o.res = "ok" THEN o.goals ELSE goals)
      /\ UNCHANGED <<fetched, saved>>
      /\ answer' = [res |-> o.res, goal |-> IF goals = <<>> THEN Missing ELSE IfOpen(Head(goals))]
  BY DEF Conclude
<1>2. /\ MetaTyped(o.c.meta) /\ o.c.core.next \in 0 .. MaxNames
      /\ o.c.core = [next |-> o.c.core.next, env |-> o.c.core.env, error |-> o.c.core.error]
      /\ o.c.core.env = session.core.env /\ o.c.core.error = session.core.error
      /\ o.c.env = session.env
      /\ Declared(session.meta) \subseteq Declared(o.c.meta) /\ o.res \in {"ok", "err"}
  BY DEF OutcomeTyped, ContextTyped, IsContext, Sound, ExtendsTo, Keeps, Leaves
<1>3. o.c.core \in [next : 0 .. MaxNames, env : SUBSET Constants, error : BOOLEAN]
  BY <1>2 DEF SessionTyped
<1>4. goals' \in Seq(Declared(o.c.meta))
  <2>1. CASE o.res = "ok"
    BY <1>1, <2>1 DEF OutcomeTyped
  <2>2. CASE o.res # "ok"
    BY <1>1, <1>2, <2>2, GoalsStayTyped DEF SessionTyped
  <2>. QED BY <2>1, <2>2
<1>5. answer' \in [res : {"none", "ok", "err", "branched"}, goal : Names \cup {Missing}]
  <2>1. (IF goals = <<>> THEN Missing ELSE IfOpen(Head(goals))) \in Names \cup {Missing}
    BY OpenIsName
  <2>. QED BY <1>1, <1>2, <2>1
<1>. QED
  BY <1>1, <1>2, <1>3, <1>4, <1>5 DEF SessionTyped

\* Every call of a tactic by the caller: exact is given terms of its goals.
LEMMA TacticsKeepTypes ==
  ASSUME IInv, SessionTyped,
         ExactMain \/ RflMain \/ AssumptionMain \/ IntroMain \/ ApplyMain \/ FocusMain
  PROVE  SessionTyped'
<1>1. ContextTyped(session) /\ IsContext(session) /\ goals \in Seq(Declared(session.meta))
      /\ {} \in SUBSET Names
  BY ContextIsTyped DEF IInv, SessionTyped
<1>2. ASSUME NEW t \in SUBSET Names,
             NEW o \in Exact(session, goals, t) \cup Rfl(session, goals)
                     \cup Assumption(session, goals) \cup Intro(session, goals)
                     \cup Apply(session, goals) \cup Focus(session, goals),
             Conclude(o)
      PROVE  SessionTyped'
  <2>1. OutcomeTyped(o) /\ Sound(session, Head(goals), o)
    BY <1>1, <1>2, TacticsTyped, TacticsExtend
  <2>. QED BY <1>2, <2>1, ConcludeTyped
<1>3. CASE ExactMain
  <2>1. PICK t \in IF goals = <<>> THEN {{}} ELSE Terms(Head(goals)) :
          \E o \in Exact(session, goals, t) : Conclude(o)
    BY <1>3 DEF ExactMain
  <2>2. t \in SUBSET Names
    <3>1. Range(goals) \subseteq Names
      BY <1>1 DEF ContextTyped, MetaTyped, IsMeta, Range
    <3>. QED BY <2>1, <3>1 DEF Terms
  <2>. QED BY <1>2, <2>1, <2>2
<1>4. CASE RflMain \/ AssumptionMain \/ IntroMain \/ ApplyMain \/ FocusMain
  BY <1>1, <1>2, <1>4 DEF RflMain, AssumptionMain, IntroMain, ApplyMain, FocusMain
<1>. QED BY <1>3, <1>4

\* mk_goal declares the goal it lists.
LEMMA MkGoalKeepsTypes ==
  ASSUME IInv, SessionTyped, MkGoal
  PROVE  SessionTyped'
<1> DEFINE n == session.core.next
           d == Declare(session.meta, n, 1, session.lctx, Missing)
           c == [session EXCEPT !.meta = Declare(@, session.core.next, 1, session.lctx, Missing),
                                !.core.next = @ + 1]
<1>1. /\ UNCHANGED <<fetched, saved>>
      /\ \/ session' = session /\ goals' = goals
         \/ session' = c /\ goals' = Append(goals, n) /\ n # MaxNames
      /\ answer'.goal = Missing /\ answer' = [res |-> answer'.res, goal |-> answer'.goal]
      /\ answer'.res \in {"ok", "err"}
  BY DEF MkGoal, RunPersistent
<1>2. answer' \in [res : {"none", "ok", "err", "branched"}, goal : Names \cup {Missing}]
  BY <1>1
<1>3. CASE session' = session /\ goals' = goals
  BY <1>1, <1>2, <1>3 DEF SessionTyped
<1>4. CASE session' = c /\ goals' = Append(goals, n) /\ n # MaxNames
  <2>1. IsContext(session) /\ n \in 0 .. MaxNames /\ MaxNames \in Nat /\ session.lctx = 0
        /\ MaxScope \in Nat
    BY ProofSessionAssumption DEF IInv, SessionTyped
  <2>2. /\ session'.meta = d
        /\ session'.core = [next |-> n + 1, env |-> session.core.env, error |-> session.core.error]
        /\ session'.env = session.env
    BY <1>4, <2>1 DEF IsContext
  <2> HIDE DEF n, d, c
  <2>3. n \in Nat /\ n + 1 <= MaxNames /\ n + 1 \in 0 .. MaxNames /\ n \in n .. n + 1 - 1
        /\ session.lctx \in 0 .. MaxScope
    BY <1>4, <2>1
  <2>4. MetaTyped(d) /\ Declared(d) = Declared(session.meta) \cup n .. n + 1 - 1
    BY <2>3, DeclareTyped DEF SessionTyped, d
  <2>5. goals' \in Seq(Declared(d))
    <3> DEFINE D == Declared(d)
    <3>1. goals \in Seq(D) /\ n \in D
      BY <2>3, <2>4, GoalsStayTyped DEF SessionTyped
    <3> HIDE DEF D
    <3>2. Append(goals, n) \in Seq(D)
      BY <3>1
    <3>. QED BY <1>4, <3>2 DEF D
  <2>6. session'.core \in [next : 0 .. MaxNames, env : SUBSET Constants, error : BOOLEAN]
    BY <2>2, <2>3 DEF SessionTyped
  <2>. QED BY <1>1, <1>2, <2>2, <2>4, <2>5, <2>6 DEF SessionTyped
<1>. QED BY <1>1, <1>3, <1>4

\* What a run of Lean's elaborator that run_tactic accepts does to Meta.State.
LEMMA ElaborationTyped ==
  ASSUME NEW c, NEW g, ContextTyped(c), NEW e \in Elaborations(c, c.meta, g), ~e.thrown, ~e.error
  PROVE  /\ MetaTyped(e.meta) /\ e.new \in Nat /\ c.core.next + e.new \in 0 .. MaxNames
         /\ Declared(c.meta) \subseteq Declared(e.meta)
         /\ c.core.next .. c.core.next + e.new - 1 \subseteq Declared(e.meta)
<1> DEFINE n == c.core.next
<1>1. IsContext(c) /\ MetaTyped(c.meta) /\ n \in Nat /\ n <= MaxNames /\ MaxNames \in Nat
  BY ProofSessionAssumption DEF ContextTyped
<1>2. CASE e.meta = c.meta /\ e.new = 0
  <2>1. n + 0 = n /\ n .. n + 0 - 1 = {} /\ n \in 0 .. MaxNames
    BY <1>1
  <2>. QED BY <1>1, <1>2, <2>1
<1>3. CASE ~(e.meta = c.meta /\ e.new = 0)
  <2>1. g \in Declared(c.meta)
    BY <1>3 DEF Elaborations
  <2>2. PICK k \in 0 .. MaxNew(c), s \in c.meta.decl[g].scope .. MaxScope :
          e.meta = Refine(c.meta, n, k, s, g) /\ e.new = k
    BY <1>3 DEF Elaborations
  <2>3. k \in Nat /\ n + k <= MaxNames
    <3>1. MaxNew(c) \in Nat /\ MaxNew(c) <= MaxNames - n
      BY <1>1, ProofSessionAssumption DEF MaxNew
    <3>. HIDE DEF n
    <3>. QED BY <1>1, <2>2, <3>1
  <2>4. c.meta.decl[g].scope \in 0 .. MaxScope /\ g \in Names /\ MaxScope \in Nat
    BY <1>1, <2>1, ProofSessionAssumption DEF MetaTyped, IsMeta
  <2>5. s \in 0 .. MaxScope
    BY <2>2, <2>4
  <2> DEFINE d == Declare(c.meta, n, k, s, g)
             t == n .. n + k - 1
  <2>6. e.meta = Assign(d, g, t)
    BY <2>2 DEF Refine
  <2> HIDE DEF n, d
  <2>7. MetaTyped(d) /\ Declared(d) = Declared(c.meta) \cup t
    <3>1. n \in Nat /\ k \in Nat /\ n + k <= MaxNames /\ s \in 0 .. MaxScope
          /\ g \in Names \cup {Missing} /\ MetaTyped(c.meta)
      BY <1>1, <2>3, <2>4, <2>5
    <3>. HIDE DEF t
    <3>2. MetaTyped(Declare(c.meta, n, k, s, g))
          /\ Declared(Declare(c.meta, n, k, s, g)) = Declared(c.meta) \cup n .. n + k - 1
      BY <3>1, DeclareTyped
    <3>. QED BY <3>2 DEF d, t
  <2>8. t \in SUBSET Names /\ n + k \in 0 .. MaxNames
    <3>1. t \subseteq 0 .. MaxNames - 1 /\ n + k \in 0 .. MaxNames
      BY <1>1, <2>3
    <3>. QED BY <3>1 DEF Names
  <2> HIDE DEF t
  <2>9. MetaTyped(e.meta) /\ Declared(e.meta) = Declared(d)
    BY <2>1, <2>6, <2>7, <2>8, AssignTyped
  <2>. QED BY <2>2, <2>3, <2>7, <2>8, <2>9 DEF n, t
<1>. QED BY <1>2, <1>3

\* Replacing one element of a list by others keeps its type.
LEMMA SpliceTyped ==
  ASSUME NEW D, NEW s \in Seq(D), NEW i \in DOMAIN s, NEW new \in Seq(D)
  PROVE  SubSeq(s, 1, i - 1) \o new \o SubSeq(s, i + 1, Len(s)) \in Seq(D)
<1> DEFINE a == SubSeq(s, 1, i - 1)
           b == SubSeq(s, i + 1, Len(s))
<1>1. Len(s) \in Nat /\ i \in 1 .. Len(s)
  OBVIOUS
<1>2. a \in Seq(D)
  BY <1>1
<1>3. b \in Seq(D)
  BY <1>1
<1> HIDE DEF a, b
<1>4. (a \o new) \o b \in Seq(D)
  <2>1. a \o new \in Seq(D)
    BY <1>2
  <2>. HIDE DEF a, b
  <2>. QED BY <1>3, <2>1
<1>. QED BY <1>4 DEF a, b

\* run_tactic puts the new goals where the old one was, or changes nothing.
LEMMA RunTacticTyped ==
  ASSUME IInv, ~strayed, SessionTyped, NEW i \in DOMAIN goals, RunTactic(i), ~strayed'
  PROVE  SessionTyped'
<1> DEFINE n == session.core.next
           Listed(e) == SubSeq(goals, 1, i - 1) \o Minted(n, e.new)
                          \o SubSeq(goals, i + 1, Len(goals))
           Taken(e, aux) ==
             LET failed == e.thrown \/ e.error \/ session.core.error IN
             /\ session' = IF failed THEN session ELSE UpdateStates(session, e, aux)
             /\ goals' = IF failed THEN goals ELSE Listed(e)
             /\ answer' = [res |-> IF failed THEN "err" ELSE "ok", goal |-> IfOpen(goals[i])]
             /\ strayed' = (strayed \/ (OutOfStep /\ ~failed))
             /\ fetched' = fetched /\ saved' = saved
<1>1. \E e \in Elaborations(session, View, goals[i]), aux \in SUBSET {"aux"} : Taken(e, aux)
  BY Zenon DEF RunTactic
<1>2. PICK e \in Elaborations(session, View, goals[i]), aux \in SUBSET {"aux"} : Taken(e, aux)
  BY <1>1, Zenon
<1>3. answer' \in [res : {"none", "ok", "err", "branched"}, goal : Names \cup {Missing}]
      /\ fetched' = fetched /\ saved' = saved
  <2>1. IfOpen(goals[i]) \in Names \cup {Missing}
    BY OpenIsName
  <2>2. \E res \in {"ok", "err"} : answer' = [res |-> res, goal |-> IfOpen(goals[i])]
    BY <1>2
  <2>. QED BY <1>2, <2>1, <2>2
<1>4. CASE e.thrown \/ e.error \/ session.core.error
  <2>1. session' = session /\ goals' = goals
    BY <1>2, <1>4
  <2>. QED BY <1>3, <2>1 DEF SessionTyped
<1>5. CASE ~e.thrown /\ ~e.error /\ ~session.core.error
  <2>1. session' = UpdateStates(session, e, aux) /\ goals' = Listed(e)
    BY <1>2, <1>5
  <2>2. /\ session'.meta = e.meta /\ session'.env = session.env
        /\ session'.core = [next |-> n + e.new, env |-> session.core.env \cup aux,
                            error |-> session.core.error \/ e.error]
    BY <2>1 DEF UpdateStates, IInv, IsContext
  <2>3. e \in Elaborations(session, session.meta, goals[i]) /\ ContextTyped(session)
    <3>1. ~OutOfStep
      BY <1>2, <1>5, Zenon
    <3>. QED BY <1>2, <3>1, ViewOfContext, ContextIsTyped
  <2>4. /\ MetaTyped(e.meta) /\ e.new \in Nat /\ n + e.new \in 0 .. MaxNames
        /\ Declared(session.meta) \subseteq Declared(e.meta)
        /\ n .. n + e.new - 1 \subseteq Declared(e.meta)
    BY <1>5, <2>3, ElaborationTyped
  <2>5. session'.core \in [next : 0 .. MaxNames, env : SUBSET Constants, error : BOOLEAN]
    <3>1. (session.core.error \/ e.error) \in BOOLEAN
      BY Zenon
    <3>2. session.core.env \cup aux \in SUBSET Constants
      BY DEF SessionTyped, Constants
    <3> DEFINE error == session.core.error \/ e.error
    <3> HIDE DEF error, n
    <3>3. session'.core = [next |-> n + e.new, env |-> session.core.env \cup aux, error |-> error]
      BY <2>2, Zenon DEF error
    <3>4. error \in BOOLEAN
      BY <3>1 DEF error
    <3>. QED BY <2>4, <3>2, <3>3, <3>4
  <2>6. goals' \in Seq(Declared(e.meta))
    <3> DEFINE D == Declared(e.meta)
               new == Minted(n, e.new)
    <3>1. n \in Nat
      BY DEF IInv, IsContext
    <3>2. new \in Seq(Nat) /\ Range(new) \subseteq D
      <4>. HIDE DEF n
      <4>. QED BY <2>4, <3>1, MintedNames
    <3>3. goals \in Seq(D)
      BY <2>4, GoalsStayTyped DEF SessionTyped
    <3> HIDE DEF D, new, n
    <3>4. new \in Seq(D)
      <4>1. \A j \in 1 .. Len(new) : new[j] \in D
        BY <3>2 DEF Range
      <4>. QED BY <3>2, <4>1
    <3>5. Listed(e) \in Seq(D)
      BY <3>3, <3>4, SpliceTyped DEF new
    <3>. QED BY <2>1, <3>5 DEF D
  <2>. QED BY <1>3, <2>2, <2>4, <2>5, <2>6 DEF SessionTyped
<1>. QED BY <1>4, <1>5, Zenon

\* Commands, and snapshots, which are typed when they come back.
LEMMA OthersKeepTypes ==
  ASSUME IInv, SessionTyped,
         Inspect \/ RunCommand \/ ReplaceEnv \/ Snapshot \/ (\E s \in saved : Branch(s))
  PROVE  SessionTyped'
<1>1. CASE Inspect \/ RunCommand
  <2>1. /\ session' = session /\ goals' = goals /\ saved' = saved
        /\ fetched' \in {fetched, session.env \cup {"user"}}
        /\ \E res \in {"ok", "err"} : answer' = [res |-> res, goal |-> Missing]
    BY <1>1 DEF Inspect, RunCommand, Run
  <2>. QED BY <2>1 DEF SessionTyped, Constants
<1>2. CASE ReplaceEnv
  <2>1. fetched \subseteq Constants /\ fetched' = Missing /\ goals' = goals /\ saved' = saved
        /\ answer' = [res |-> "none", goal |-> Missing]
    BY <1>2 DEF ReplaceEnv, SessionTyped
  <2>2. /\ session'.meta = session.meta /\ session'.env = fetched
        /\ session'.core = [next |-> session.core.next, env |-> fetched,
                            error |-> session.core.error]
    BY <1>2 DEF ReplaceEnv, IInv, IsContext
  <2>. QED BY <2>1, <2>2 DEF SessionTyped
<1>3. CASE Snapshot
  <2>1. /\ UNCHANGED <<session, goals, fetched>>
        /\ saved' = saved \cup {[meta |-> session.meta, goals |-> goals]}
        /\ answer' = [res |-> "none", goal |-> Missing]
    BY <1>3 DEF Snapshot
  <2>. QED BY <2>1 DEF SessionTyped
<1>4. ASSUME NEW s \in saved, Branch(s) PROVE SessionTyped'
  <2>1. /\ session'.meta = s.meta /\ session'.core = session.core /\ session'.env = session.env
        /\ goals' = s.goals /\ saved' = saved /\ fetched' = fetched
        /\ answer' = [res |-> "branched", goal |-> Missing]
    BY <1>4 DEF Branch, IInv, IsContext
  <2>. QED BY <2>1 DEF SessionTyped
<1>. QED BY <1>1, <1>2, <1>3, <1>4

\* The types of a session are kept by every call.
LEMMA SessionTypedIsInductive == SessionSpec => [](~strayed => SessionTyped)
<1>1. SessionInit => SessionTyped
  <2> SUFFICES ASSUME SessionInit PROVE SessionTyped
    OBVIOUS
  <2>1. /\ session.meta = NoMeta /\ session.env = {}
        /\ session.core = [next |-> 0, env |-> {}, error |-> FALSE]
        /\ goals = <<>> /\ saved = {} /\ fetched = Missing
        /\ answer = [res |-> "none", goal |-> Missing]
    BY DEF SessionInit
  <2>2. MetaTyped(NoMeta)
    <3> DEFINE d == [n \in {} |-> Missing]
               a == [n \in {} |-> {}]
    <3>1. DOMAIN d = {} /\ DOMAIN a = {}
          /\ d \in [{} -> [scope : 0 .. MaxScope, parent : Names \cup {Missing}]]
          /\ a \in [{} -> SUBSET Names]
      OBVIOUS
    <3>2. NoMeta = [decl |-> d, asg |-> a]
      BY DEF NoMeta
    <3> HIDE DEF d, a
    <3>3. NoMeta.decl = d /\ NoMeta.asg = a
      BY <3>2
    <3>. QED BY <3>1, <3>2, <3>3 DEF MetaTyped, IsMeta, Declared, Assigned
  <2>3. 0 \in 0 .. MaxNames
    BY ProofSessionAssumption
  <2>. QED BY <2>1, <2>2, <2>3 DEF SessionTyped
<1>2. IInv /\ (~strayed => SessionTyped) /\ [SessionNext]_sessionVars => (~strayed => SessionTyped)'
  <2> SUFFICES ASSUME IInv, ~strayed => SessionTyped, [SessionNext]_sessionVars, ~strayed'
               PROVE  SessionTyped'
    OBVIOUS
  <2>1. CASE UNCHANGED sessionVars
    BY <2>1 DEF sessionVars, SessionTyped
  <2>2. CASE SessionNext
    <3>1. ~strayed
      BY <2>2, StrayedStays
    <3>. QED
      BY <2>2, <3>1, MkGoalKeepsTypes, TacticsKeepTypes, RunTacticTyped, OthersKeepTypes
      DEF SessionNext
  <2>. QED BY <2>1, <2>2
<1>. QED
  BY IInvIsInductive, <1>1, <1>2, PTL DEF SessionSpec

\* The value of strayed is a truth value.
LEMMA StrayedIsBoolean == SessionSpec => [](strayed \in BOOLEAN)
<1>1. SessionInit => strayed \in BOOLEAN
  BY DEF SessionInit
<1>2. strayed \in BOOLEAN /\ [SessionNext]_sessionVars => (strayed \in BOOLEAN)'
  <2> SUFFICES ASSUME strayed \in BOOLEAN, [SessionNext]_sessionVars PROVE strayed' \in BOOLEAN
    OBVIOUS
  <2>1. CASE \E i \in DOMAIN goals : RunTactic(i)
    <3>1. PICK i \in DOMAIN goals : RunTactic(i)
      BY <2>1
    <3>2. \E e \in Elaborations(session, View, goals[i]) :
            strayed' = (strayed \/ (OutOfStep /\ ~(e.thrown \/ e.error \/ session.core.error)))
      BY <3>1, Zenon DEF RunTactic
    <3>. QED BY <3>2, Zenon
  <2>2. CASE ~\E i \in DOMAIN goals : RunTactic(i)
    BY <2>2
       DEF SessionNext, MkGoal, Inspect, ExactMain, RflMain, AssumptionMain, IntroMain, ApplyMain,
           FocusMain, RunCommand, ReplaceEnv, Snapshot, Branch, Conclude, RefUnused, sessionVars
  <2>. QED BY <2>1, <2>2
<1>. QED
  BY <1>1, <1>2, PTL DEF SessionSpec

\* A session keeps its types, as long as run_tactic went on from no reference that was out of
\* step: no more names are minted than there are, what is assigned is declared, and the goals
\* of the caller are declared in the context that they belong to, also on the branches that a
\* snapshot keeps (metam.rs, tactic.rs, repl.rs).
THEOREM SessionTypesHold == SessionSpec => []SessionTypeOK
<1>1. ASSUME IInv, ~strayed => SessionTyped, strayed \in BOOLEAN PROVE SessionTypeOK
  <2> SUFFICES ASSUME ~strayed PROVE SessionTypeOK
    BY <1>1 DEF SessionTypeOK
  <2>1. session = [meta |-> session.meta, core |-> session.core, env |-> session.env,
                   lctx |-> session.lctx]
        /\ session.lctx \in 0 .. MaxScope
    <3>1. 0 \in 0 .. MaxScope
      BY ProofSessionAssumption
    <3>. QED BY <1>1, <3>1 DEF IInv, IsContext
  <2>2. ASSUME NEW m, MetaTyped(m), NEW gs \in Seq(Declared(m))
        PROVE  /\ IsMeta(m) /\ Assigned(m) \subseteq Declared(m)
               /\ gs \in Seq(Names) /\ Range(gs) \subseteq Declared(m)
    <3>1. Declared(m) \subseteq Names
      BY <2>2 DEF MetaTyped, IsMeta
    <3>2. gs \in Seq(Names)
      BY <2>2, <3>1, GoalsStayTyped
    <3>. QED BY <2>2, <3>2 DEF Range, MetaTyped
  <2>3. \A b \in {[meta |-> session.meta, goals |-> goals]} \cup saved :
          MetaTyped(b.meta) /\ b.goals \in Seq(Declared(b.meta))
    BY <1>1 DEF SessionTyped
  <2>4. \A b \in {[meta |-> session.meta, goals |-> goals]} \cup saved :
          /\ IsMeta(b.meta) /\ Assigned(b.meta) \subseteq Declared(b.meta)
          /\ b.goals \in Seq(Names) /\ Range(b.goals) \subseteq Declared(b.meta)
    BY <2>2, <2>3
  <2>. QED BY <1>1, <2>1, <2>4 DEF SessionTyped, SessionTypeOK
<1>. QED
  BY IInvIsInductive, SessionTypedIsInductive, StrayedIsBoolean, <1>1, PTL
=============================================================================
