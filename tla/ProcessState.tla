---------------------------- MODULE ProcessState ----------------------------
(***************************************************************************)
(* The state of Lean that the whole process shares and that three kinds of *)
(* calls of leo3 drive from any thread once the runtime is up:             *)
(*   LeanModule::load               (module.rs)                            *)
(*   import_modules_with_exts       (meta/repl.rs)                         *)
(*   LeanEnvironment::empty         (meta/environment.rs)                  *)
(* Lean keeps an initialization phase that must end before environments    *)
(* are created, an importing flag that must be on while initializers       *)
(* register options and extensions, a switch that lets imports run module  *)
(* initializers, and the table of builtin tactics that every environment   *)
(* copies when it is created.  load runs on its caller's thread; the Lean  *)
(* part of the other two runs on the worker, one closure at a time (module *)
(* Runtime has the worker's own failures).                                 *)
(***************************************************************************)
EXTENDS Naturals, FiniteSets

CONSTANTS
  Threads,
  None,            \* no thread
  NTactics,        \* the builtin tactics registered by the repl layer
  RegisterMayFail  \* whether addBuiltin may return an IO error

ASSUME ProcessStateAssumption ==
  /\ None \notin Threads
  /\ NTactics \in Nat \ {0}
  /\ RegisterMayFail \in BOOLEAN

VARIABLES
  job,              \* where each thread is in its call
  worker,           \* the thread whose closure the worker runs
  initializing,     \* IO.initializing
  finalized,        \* FINALIZED
  marks,            \* history: calls of lean_io_mark_end_initialization
  importing,        \* Lean's importingRef
  runInitializers,  \* Lean's runInitializersRef
  registered,       \* REGISTERED
  table,            \* how often each builtin tactic was added to the attribute's table
  gaveUp,           \* history: a registration ended with an error
  envs,             \* history: the environments created
  opens,            \* dlopen handles on module libraries
  modules           \* the LeanModule each thread holds

initPhase == <<initializing, finalized, marks>>
tactics == <<registered, table, gaveUp>>
loads == <<opens, modules>>
processVars == <<job, worker, initPhase, importing, runInitializers, tactics, envs, loads>>

Tactics == 1..NTactics

\* The first tactic, intro, is also added once by the bootstrap itself.
AddedAtBoot == [i \in Tactics |-> IF i = 1 THEN 1 ELSE 0]

LoadPlaces == {"dlopen", "dlopened", "dlfailed", "lookup", "open_init", "init",
               "init_ok", "init_failed"}
CallerPlaces == {"search_path", "finalize", "mark", "tactics", "register", "call"}
WorkerPlaces == {"enable", "with_importing", "import", "import_end", "mk_empty"}
Places == {"idle"} \cup LoadPlaces \cup CallerPlaces \cup WorkerPlaces

Job == [at : Places, via : {"none", "load", "import", "empty"}, nth : 0..NTactics]
Idle == [at |-> "idle", via |-> "none", nth |-> 0]

\* An environment remembers the call that made it, its copy of the tactic
\* table and whether imports could run initializers when it was made.
Environment == [via : {"import", "empty"}, knows : SUBSET Tactics, enabled : BOOLEAN]

ProcessTypeOK ==
  /\ job \in [Threads -> Job]
  /\ worker \in Threads \cup {None}
  /\ initializing \in BOOLEAN /\ finalized \in BOOLEAN /\ marks \in Nat
  /\ importing \in BOOLEAN /\ runInitializers \in BOOLEAN
  /\ registered \in BOOLEAN /\ table \in [Tactics -> Nat] /\ gaveUp \in BOOLEAN
  /\ envs \subseteq Environment
  /\ opens \in Nat /\ modules \in [Threads -> {"none", "initialized", "uninitialized"}]

\* What ensure_environment_initialized leaves behind: the phase is still open,
\* initializer execution is enabled, intro is in the table.
ProcessInit ==
  /\ job = [t \in Threads |-> Idle]
  /\ worker = None
  /\ initializing = TRUE /\ finalized = FALSE /\ marks = 0
  /\ importing = FALSE /\ runInitializers = TRUE
  /\ registered = FALSE /\ table = AddedAtBoot /\ gaveUp = FALSE
  /\ envs = {}
  /\ opens = 0 /\ modules = [t \in Threads |-> "none"]

At(t, place) == job[t].at = place
Goto(t, place) == job' = [job EXCEPT ![t].at = place]
Return(t) == job' = [job EXCEPT ![t] = Idle]

-----------------------------------------------------------------------------
(* LeanModule::load                                                        *)

\* set_importing_flag(true) before Library::new
StartLoad(t) ==
  /\ At(t, "idle") /\ modules[t] = "none"
  /\ job' = [job EXCEPT ![t] = [at |-> "dlopen", via |-> "load", nth |-> 0]]
  /\ importing' = TRUE
  /\ UNCHANGED <<worker, initPhase, runInitializers, tactics, envs, loads>>

\* Library::new runs the static initializers of the library.
Dlopen(t) ==
  /\ At(t, "dlopen")
  /\ \/ Goto(t, "dlopened") /\ opens' = opens + 1
     \/ Goto(t, "dlfailed") /\ opens' = opens
  /\ UNCHANGED <<worker, initPhase, importing, runInitializers, tactics, envs, modules>>

\* Faulty variant: the error arm returns with the window open.
CloseAfterDlopenOk(t) ==
  /\ \/ At(t, "dlopened") /\ Goto(t, "lookup") /\ importing' = FALSE
     \/ At(t, "dlfailed") /\ Return(t) /\ UNCHANGED importing
  /\ UNCHANGED <<worker, initPhase, runInitializers, tactics, envs, loads>>

\* set_importing_flag(false) on both arms of the match
CloseAfterDlopen(t) ==
  /\ \/ At(t, "dlopened") /\ Goto(t, "lookup")
     \/ At(t, "dlfailed") /\ Return(t)
  /\ importing' = FALSE
  /\ UNCHANGED <<worker, initPhase, runInitializers, tactics, envs, loads>>

\* library.get(initialize_...): without the symbol the library is dropped.
LookupInit(t) ==
  /\ At(t, "lookup")
  /\ \/ Goto(t, "open_init") /\ opens' = opens
     \/ Return(t) /\ opens' = opens - 1
  /\ UNCHANGED <<worker, initPhase, importing, runInitializers, tactics, envs, modules>>

OpenForInit(t) ==
  /\ At(t, "open_init")
  /\ Goto(t, "init")
  /\ importing' = TRUE
  /\ UNCHANGED <<worker, initPhase, runInitializers, tactics, envs, loads>>

RunInit(t) ==
  /\ At(t, "init")
  /\ Goto(t, "init_ok") \/ Goto(t, "init_failed")
  /\ UNCHANGED <<worker, initPhase, importing, runInitializers, tactics, envs, loads>>

\* Faulty variant: the result of the init function is not looked at.
FinishLoadUnchecked(t) ==
  /\ \/ At(t, "init_ok") /\ modules' = [modules EXCEPT ![t] = "initialized"]
     \/ At(t, "init_failed") /\ modules' = [modules EXCEPT ![t] = "uninitialized"]
  /\ Return(t)
  /\ importing' = FALSE
  /\ UNCHANGED <<worker, initPhase, runInitializers, tactics, envs, opens>>

\* The flag is cleared, then the result decides between the module and an
\* error that drops the library.
FinishLoad(t) ==
  /\ \/ At(t, "init_ok") /\ modules' = [modules EXCEPT ![t] = "initialized"] /\ opens' = opens
     \/ At(t, "init_failed") /\ modules' = modules /\ opens' = opens - 1
  /\ Return(t)
  /\ importing' = FALSE
  /\ UNCHANGED <<worker, initPhase, runInitializers, tactics, envs>>

DropModule(t) ==
  /\ At(t, "idle") /\ modules[t] # "none"
  /\ modules' = [modules EXCEPT ![t] = "none"]
  /\ opens' = opens - 1
  /\ UNCHANGED <<job, worker, initPhase, importing, runInitializers, tactics, envs>>

-----------------------------------------------------------------------------
(* import_modules_with_exts and LeanEnvironment::empty, on the caller      *)

StartImport(t) ==
  /\ At(t, "idle")
  /\ job' = [job EXCEPT ![t] = [at |-> "search_path", via |-> "import", nth |-> 0]]
  /\ UNCHANGED <<worker, initPhase, importing, runInitializers, tactics, envs, loads>>

StartEmpty(t) ==
  /\ At(t, "idle")
  /\ job' = [job EXCEPT ![t] = [at |-> "finalize", via |-> "empty", nth |-> 0]]
  /\ UNCHANGED <<worker, initPhase, importing, runInitializers, tactics, envs, loads>>

\* ensure_search_path: no sysroot, or one of another toolchain, is an error.
SearchPath(t) ==
  /\ At(t, "search_path")
  /\ Goto(t, "finalize") \/ Return(t)
  /\ UNCHANGED <<worker, initPhase, importing, runInitializers, tactics, envs, loads>>

AfterPhase(t) == IF job[t].via = "import" THEN "tactics" ELSE "call"

\* Faulty variant: the flag is read and written in two steps, the write after the call.
CheckFinalized(t) ==
  /\ At(t, "finalize")
  /\ finalized' = ~initializing
  /\ Goto(t, IF finalized THEN AfterPhase(t) ELSE "mark")
  /\ UNCHANGED <<worker, initializing, marks, importing, runInitializers, tactics, envs, loads>>

\* FINALIZED.swap(true)
SwapFinalized(t) ==
  /\ At(t, "finalize")
  /\ finalized' = TRUE
  /\ Goto(t, IF finalized THEN AfterPhase(t) ELSE "mark")
  /\ UNCHANGED <<worker, initializing, marks, importing, runInitializers, tactics, envs, loads>>

\* lean_io_mark_end_initialization
MarkEnd(t) ==
  /\ At(t, "mark")
  /\ initializing' = FALSE
  /\ marks' = marks + 1
  /\ Goto(t, AfterPhase(t))
  /\ UNCHANGED <<worker, finalized, importing, runInitializers, tactics, envs, loads>>

\* REGISTERED.swap(true)
SwapRegistered(t) ==
  /\ At(t, "tactics")
  /\ registered' = TRUE
  /\ Goto(t, IF registered THEN "call" ELSE "register")
  /\ UNCHANGED <<worker, initPhase, importing, runInitializers, table, gaveUp, envs, loads>>

\* Faulty variant: an error makes the next import start over.
RegisterRetried(t) ==
  LET i == job[t].nth + 1 IN
  /\ At(t, "register")
  /\ \/ /\ table' = [table EXCEPT ![i] = @ + 1]
        /\ job' = [job EXCEPT ![t].nth = i, ![t].at = IF i = NTactics THEN "call" ELSE @]
        /\ UNCHANGED registered
     \/ /\ RegisterMayFail
        /\ registered' = FALSE
        /\ Return(t)
        /\ UNCHANGED table
  /\ UNCHANGED <<worker, initPhase, importing, runInitializers, gaveUp, envs, loads>>

\* register_builtin_tactic, one after the other; the first error ends the import.
Register(t) ==
  LET i == job[t].nth + 1 IN
  /\ At(t, "register")
  /\ \/ /\ table' = [table EXCEPT ![i] = @ + 1]
        /\ job' = [job EXCEPT ![t].nth = i, ![t].at = IF i = NTactics THEN "call" ELSE @]
        /\ UNCHANGED gaveUp
     \/ /\ RegisterMayFail
        /\ gaveUp' = TRUE
        /\ Return(t)
        /\ UNCHANGED table
  /\ UNCHANGED <<worker, initPhase, importing, runInitializers, registered, envs, loads>>

-----------------------------------------------------------------------------
(* Their closures on the worker                                            *)

WithWorker(t) ==
  /\ At(t, "call") /\ worker = None
  /\ worker' = t
  /\ Goto(t, IF job[t].via = "import" THEN "enable" ELSE "mk_empty")
  /\ UNCHANGED <<initPhase, importing, runInitializers, tactics, envs, loads>>

\* Faulty variant: the enabling done once by the bootstrap is relied upon.
TrustBootstrap(t) ==
  /\ At(t, "enable")
  /\ Goto(t, "with_importing")
  /\ UNCHANGED <<worker, runInitializers, initPhase, importing, tactics, envs, loads>>

\* lean_enable_initializer_execution
EnableInitializers(t) ==
  /\ At(t, "enable")
  /\ \/ Goto(t, "with_importing") /\ runInitializers' = TRUE /\ UNCHANGED worker
     \/ Return(t) /\ worker' = None /\ UNCHANGED runInitializers
  /\ UNCHANGED <<initPhase, importing, tactics, envs, loads>>

\* Lean's withImporting opens the same window as load.
EnterImporting(t) ==
  /\ At(t, "with_importing")
  /\ importing' = TRUE
  /\ Goto(t, "import")
  /\ UNCHANGED <<worker, initPhase, runInitializers, tactics, envs, loads>>

\* The environment a call creates now.
NewEnvironment(t) ==
  [via |-> job[t].via, knows |-> {i \in Tactics : table[i] > 0},
   enabled |-> job[t].via = "import" /\ runInitializers]

\* lean_import_modules_full: no environment while the phase is open; bad
\* modules or a failing initializer are errors.
Import(t) ==
  /\ At(t, "import")
  /\ \/ ~initializing /\ envs' = envs \cup {NewEnvironment(t)}
     \/ UNCHANGED envs
  /\ Goto(t, "import_end")
  /\ UNCHANGED <<worker, initPhase, importing, runInitializers, tactics, loads>>

\* The finally block of withImporting.
LeaveImporting(t) ==
  /\ At(t, "import_end")
  /\ importing' = FALSE
  /\ runInitializers' = FALSE
  /\ worker' = None
  /\ Return(t)
  /\ UNCHANGED <<initPhase, tactics, envs, loads>>

\* lean_mk_empty_environment
MkEmpty(t) ==
  /\ At(t, "mk_empty")
  /\ envs' = IF initializing THEN envs ELSE envs \cup {NewEnvironment(t)}
  /\ worker' = None
  /\ Return(t)
  /\ UNCHANGED <<initPhase, importing, runInitializers, tactics, loads>>

-----------------------------------------------------------------------------
Load(t) ==
  \/ StartLoad(t) \/ Dlopen(t) \/ CloseAfterDlopen(t) \/ LookupInit(t)
  \/ OpenForInit(t) \/ RunInit(t) \/ FinishLoad(t) \/ DropModule(t)

Prepare(t) ==
  \/ StartImport(t) \/ StartEmpty(t) \/ SearchPath(t) \/ SwapFinalized(t)
  \/ MarkEnd(t) \/ SwapRegistered(t) \/ Register(t)

OnWorker(t) ==
  \/ WithWorker(t) \/ EnableInitializers(t) \/ EnterImporting(t) \/ Import(t)
  \/ LeaveImporting(t) \/ MkEmpty(t)

ProcessNext == \E t \in Threads : Load(t) \/ Prepare(t) \/ OnWorker(t)

ProcessSpec == ProcessInit /\ [][ProcessNext]_processVars

-----------------------------------------------------------------------------
InLoadWindow(t) == job[t].at \in {"dlopen", "dlopened", "dlfailed", "init", "init_ok", "init_failed"}
InImportWindow(t) == job[t].at \in {"import", "import_end"}

\* Importing mode is on only while somebody loads or imports: every way out of
\* LeanModule::load and of an import, the failing ones included, turns it off,
\* in whatever order overlapping calls end (module.rs:172-206).
WindowCloses ==
  importing => \E t \in Threads : InLoadWindow(t) \/ InImportWindow(t)

\* The initialization phase is ended once, and from then on it is still open
\* only while the thread that won the swap has not made the call
\* (runtime.rs:158-165): no other thread is left believing in an end that
\* never comes.
PhaseEndsOnce ==
  /\ marks <= 1
  /\ initializing <=> marks = 0
  /\ finalized /\ initializing => \E t \in Threads : At(t, "mark")

\* The repl layer adds each builtin tactic to the process-wide table at most
\* once, and once registration is claimed the table is complete unless somebody
\* is still at it or gave up (repl.rs:64-134).
TacticsRegisteredOnce ==
  /\ \A i \in Tactics : table[i] \in {AddedAtBoot[i], AddedAtBoot[i] + 1}
  /\ registered /\ ~gaveUp /\ (\A t \in Threads : ~At(t, "register")) =>
       \A i \in Tactics : table[i] = AddedAtBoot[i] + 1

\* Every import of a process comes with the execution of initializers switched
\* on, although each one leaves the switch off behind itself: enabling and
\* importing are one closure on the worker, and no other import comes between
\* them (repl.rs:861-867, 900-928).  It says nothing of what Lean does with the
\* switch once the initialization phase is over, on which two comments differ
\* (runtime.rs:131-135, repl.rs:868-871).
ImportsAreEnabled ==
  \A e \in envs : e.via = "import" => e.enabled

\* A library is mapped exactly as long as a load in progress or a LeanModule
\* needs it, and there is no LeanModule whose init function reported an error
\* (module.rs:173-214).
LibraryOpenWhileUsed ==
  /\ \A t \in Threads : modules[t] # "uninitialized"
  /\ opens = Cardinality({t \in Threads : modules[t] = "initialized"
                             \/ job[t].at \in LoadPlaces \ {"dlopen", "dlfailed"}})

\* What the comments say and concurrent calls break.

\* While a library's initializers run, importing mode is on (module.rs:141-146,
\* 168-171, 191-193).
InitializersMayRegister ==
  \A t \in Threads : job[t].at \in {"dlopen", "init"} => importing

\* An imported environment has the core tactics: they are registered "before
\* creating the imported environment" (repl.rs:873-874).
EnvironmentsKnowTactics ==
  \A e \in envs : e.via = "import" => e.knows = Tactics
=============================================================================
