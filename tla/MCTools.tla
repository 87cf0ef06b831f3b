------------------------------ MODULE MCTools -------------------------------
(* Numbers, the build configuration, the wrappers and declarations of         *)
(* exported functions, derived conversions, IO actions, the state of the      *)
(* process and proof sessions, side by side: a behaviour is about one of      *)
(* them.  The threads of the process are interchangeable, and so are the      *)
(* variables that hold actions.                                               *)
EXTENDS MCNumbersAndBuild, MCBindings, MCDerive, IoActions, MCProcessState, ProofSession

CONSTANTS p1, p2

NoBindings == NoCall /\ NoLibrary
NoDerive ==
  /\ decl = Type("union", FALSE, <<>>) /\ derives = {} /\ step = "source" /\ value = <<>> /\ object = <<>>
  /\ field = 1 /\ locals = <<>>
NoPaths == [p \in Paths |-> "nothing"]
NoIo == ioSteps = 0 /\ fs = NoPaths
NoIoInit == IoInit /\ fs = NoPaths

\* A file is there at one of the paths, nothing at the other.
SomePathsInit == IoInit /\ fs[p1] = "file" /\ fs[p2] = "nothing"

\* No thread has done anything yet, or everything has been undone.
NoProcess ==
  /\ \A t \in Threads : job[t] = Idle /\ modules[t] = "none"
  /\ worker = None /\ initializing /\ runInitializers /\ opens = 0 /\ envs = {}
  /\ ~importing /\ ~finalized /\ ~registered

\* A session is followed until it has strayed: from then on nothing is claimed of
\* it but what FailureLeavesGoalOpen says.  A caller that has taken a snapshot
\* gives run_tactic no reference and keeps no environment for update_states.
SessionBounded ==
  ~strayed /\ (saved' # {} => ref' = Missing /\ fetched' = Missing /\ session'.env = {})

Unused ==
  /\ Init /\ changes = 0 /\ stage = "idle" /\ out["leo3-ffi"] = NeverBuilt
  /\ NoBindings /\ NoDerive /\ NoIo

toolVars == <<vars, buildVars, callVars, bindingVars, deriveVars, ioVars>>

ToolsInit ==
  /\ NumbersAndBuildInit /\ ProcessInit /\ SessionInit
  /\ \/ NoBindings /\ NoDerive /\ NoIoInit
     \/ CallsAndLibrariesInit /\ NoDerive /\ NoIoInit
     \/ NoBindings /\ DeriveInit /\ NoIoInit
     \/ NoBindings /\ NoDerive /\ SomePathsInit

OneTool ==
  \/ NoBindings /\ NoDerive /\ NoIo /\ NumbersAndBuildNext /\ UNCHANGED <<callVars, bindingVars, deriveVars, ioVars>>
  \/ ~NoBindings /\ CallsAndLibrariesNext /\ UNCHANGED <<vars, buildVars, deriveVars, ioVars>>
  \/ ~NoDerive /\ DeriveNext /\ UNCHANGED <<vars, buildVars, callVars, bindingVars, ioVars>>
  \/ ~NoIo /\ IoNext /\ UNCHANGED <<vars, buildVars, callVars, bindingVars, deriveVars>>

ToolsNext ==
  \/ NoProcess /\ SessionInit /\ OneTool /\ UNCHANGED <<processVars, sessionVars>>
  \/ Unused /\ SessionInit /\ ProcessNext /\ UNCHANGED <<toolVars, sessionVars>>
  \/ Unused /\ NoProcess /\ SessionNext /\ SessionBounded /\ UNCHANGED <<toolVars, processVars>>

ToolsSpec == ToolsInit /\ [][ToolsNext]_<<toolVars, processVars, sessionVars>>

UpToVariables ==
  <<fs, opened, exit_code, holding, ran, ioSteps,
    [io \in Range(ios) |-> Cardinality({s \in LeanIOs : ios[s] = io})]>>

ToolsView ==
  <<vars, buildVars, callVars, bindingVars, deriveVars, UpToVariables, UpToThreads, sessionVars>>
=============================================================================
