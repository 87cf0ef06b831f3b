----------------------------- MODULE IoActions -------------------------------
(* IO actions (leo3/src/io): a LeanIO is a closure that waits for the world   *)
(* token, and owns what it captured.  `then' puts two closures into a third;  *)
(* `map' and `bind' run their action at once.  A file handle is a counted     *)
(* object of Lean that closes its file when its last reference goes; the      *)
(* primitives only borrow it, so the reference that a closure hands to one is *)
(* never given back.  Contents, names and times are left out: a primitive is  *)
(* told apart by what it may fail of.                                         *)
EXTENDS Naturals, Sequences, FiniteSets

CONSTANTS
  Paths,
  Files,      \* handles that the process may have open at a time: addresses
  HandleOps,  \* the primitives on handles: "read", "get_line", "write", "flush", "is_eof"
  LeanIOs,    \* variables of the program that hold an action
  MaxParts,   \* bound: primitives in one action
  MaxIoSteps  \* bound: calls of the program

ASSUME IoAssumption ==
  /\ HandleOps \subseteq {"read", "get_line", "write", "flush", "is_eof"}
  /\ MaxParts \in Nat \ {0}

VARIABLES
  fs,       \* what each path names: "nothing", "file" or "dir"
  opened,    \* the handle objects
  exit_code,  \* EXIT_CODE
  holding,       \* the LeanHandle values of the program, by their objects
  ios,        \* the LeanIO values: what their closures do
  ran,        \* the action that the last call ran, its primitives and its result
  ioSteps     \* calls made

ioVars == <<fs, opened, exit_code, holding, ios, ran, ioSteps>>

NoAction == [do |-> "nothing"]
NotRun == [io |-> NoAction, done |-> <<>>, result |-> [ok |-> TRUE, value |-> "none"]]
Closed == [mode |-> "none", rc |-> 0]

PathKinds == {"nothing", "file", "dir"}

\* FileMode.
Modes == {"Read", "Write", "WriteNew", "ReadWrite", "Append"}

\* A handle object; "none" is the mode of an address that is not in use.
HandleStates == [mode : Modes \cup {"none"}, rc : Nat]

\* Codes are told apart by whether they say that the program failed.
ExitCodes == {"success", "failure"}

\* What a primitive gives, besides a handle, and what it fails of.
IoErrors ==
  {"noFileOrDirectory", "alreadyExists", "inappropriateType", "resourceExhausted", "invalidArgument", "otherError", "freed"}
IoValues == HandleOps \cup ExitCodes \cup IoErrors \cup {"unit", "none"}

\* A result that is a handle is told from every other.
ASSUME HandlesAssumption == Files \cap IoValues = {}

\* The primitives that an action is built from.
open(path, mode) == [do |-> "open", path |-> path, mode |-> mode]
handle_op(do, h) == [do |-> do, handle |-> h]
set_exit_code(code) == [do |-> "set_exit_code", code |-> code]
get_exit_code == [do |-> "get_exit_code"]
pure == [do |-> "pure"]
console == [do |-> "console"]

FreePrimitives ==
  {open(p, m) : p \in Paths, m \in Modes} \cup {set_exit_code("failure"), get_exit_code, pure, console}

Primitives == FreePrimitives \cup [do : HandleOps, handle : Files]

\* The closures in which `then' is nested n times or less.
Closures[n \in 0..MaxParts - 1] ==
  IF n = 0 THEN Primitives
  ELSE Closures[n - 1] \cup [do : {"then"}, first : Closures[n - 1], next : Closures[n - 1]]

\* No action has more than MaxParts primitives, so none is nested deeper.
Actions == Closures[MaxParts - 1]

\* The primitives of an action, in their order.
PartsOf[io \in Actions] ==
  IF io.do = "then" THEN PartsOf[io.first] \o PartsOf[io.next] ELSE <<io>>

Parts(io) == IF io.do = "nothing" THEN <<>> ELSE PartsOf[io]

CapturesOf(io, h) ==
  Cardinality({i \in DOMAIN Parts(io) : Parts(io)[i].do \in HandleOps /\ Parts(io)[i].handle = h})

-----------------------------------------------------------------------------
(* References to handle objects.                                             *)

Inc(cells, h) == [cells EXCEPT ![h].rc = @ + 1]
Dec(cells, h, n) == [cells EXCEPT ![h] = IF @.rc <= n THEN Closed ELSE [mode |-> @.mode, rc |-> @.rc - n]]

-----------------------------------------------------------------------------
(* Running a closure.  m is the world: paths, handles, exit code, what has  *)
(* been done so far, the latest result, and how many primitives still work   *)
(* before the system refuses one.                                            *)

Results == [ok : BOOLEAN, value : Files \cup IoValues]
Worlds ==
  [fs : [Paths -> PathKinds], opened : [Files -> HandleStates], exit_code : ExitCodes,
   done : Seq([io : Primitives, ok : BOOLEAN]), result : Results, works : Nat]

Ok(m, v) == [m EXCEPT !.result = [ok |-> TRUE, value |-> v]]
Err(m, error) == [m EXCEPT !.result = [ok |-> FALSE, value |-> error]]

\* What fopen says of a path in a mode.
OpenError(m, io) ==
  LET old == m.fs[io.path]
  IN CASE old = "nothing" /\ io.mode \in {"Read", "ReadWrite"} -> "noFileOrDirectory"
       [] old # "nothing" /\ io.mode = "WriteNew" -> "alreadyExists"
       [] old = "dir" /\ io.mode \notin {"Read", "WriteNew"} -> "inappropriateType"
       [] OTHER -> IF \A h \in Files : m.opened[h].rc > 0 THEN "resourceExhausted" ELSE "none"

OpenFile(m, io) ==
  LET h == CHOOSE h \in Files : m.opened[h].rc = 0
      error == OpenError(m, io)
  IN IF error # "none" THEN Err(m, error)
     ELSE Ok([m EXCEPT !.fs[io.path] = IF @ = "nothing" THEN "file" ELSE @,
                       !.opened[h] = [mode |-> io.mode, rc |-> 1]], h)

Refused(do) ==
  CASE do \in {"read", "get_line"} -> {"Write", "WriteNew", "Append"}
    [] do = "write" -> {"Read"}
    [] OTHER -> {}

HandleOp(m, io) ==
  LET handle == m.opened[io.handle]
  IN IF handle.rc = 0 THEN Err(m, "freed")
     ELSE IF handle.mode \in Refused(io.do) THEN Err(m, "invalidArgument")
     ELSE Ok(m, io.do)

Primitive(m, io) ==
  LET fails == m.works = Len(m.done) /\ io.do \in HandleOps \cup {"open", "console"}
      after == IF fails THEN Err(m, "otherError")
               ELSE CASE io.do = "open" -> OpenFile(m, io)
                      [] io.do \in HandleOps -> HandleOp(m, io)
                      [] io.do = "set_exit_code" -> Ok([m EXCEPT !.exit_code = io.code], "unit")
                      [] io.do = "get_exit_code" -> Ok(m, m.exit_code)
                      [] OTHER -> Ok(m, "unit")
  IN [after EXCEPT !.done = Append(@, [io |-> io, ok |-> after.result.ok])]

\* lean_apply_1: the closure of `then' runs its second action only after the
\* first has come back well; the value of the first is never released.
RunClosure[io \in Actions] ==
  [m \in Worlds |->
     IF io.do # "then" THEN Primitive(m, io)
     ELSE LET m1 == RunClosure[io.first][m]
          IN IF ~m1.result.ok THEN m1 ELSE RunClosure[io.next][m1]]

\* The Rust error that the constructor of an IO.Error becomes.
from_lean_io_error(error) ==
  CASE error \in {"alreadyExists", "noFileOrDirectory"} -> "Filesystem"
    [] error = "unsupportedOperation" -> "Unsupported"
    [] error = "interrupted" -> "Interrupted"
    [] error = "userError" -> "UserError"
    [] OTHER -> "Other"

-----------------------------------------------------------------------------
(* The calls of the program.                                                 *)

IoStep == ioSteps < MaxIoSteps /\ ioSteps' = ioSteps + 1

Free(s) == ios[s] = NoAction
Quiet == ran' = NotRun /\ UNCHANGED <<fs, exit_code>>

IoInit ==
  /\ fs \in [Paths -> PathKinds]
  /\ opened = [h \in Files |-> Closed]
  /\ exit_code = "success"
  /\ holding = {}
  /\ ios = [s \in LeanIOs |-> NoAction]
  /\ ran = NotRun
  /\ ioSteps = 0

\* open, set_exit_code, get_exit_code, LeanIO::pure, put_str, the clocks.
NewAction(s) ==
  /\ IoStep /\ Free(s) /\ Quiet
  /\ \E io \in FreePrimitives : ios' = [ios EXCEPT ![s] = io]
  /\ UNCHANGED <<opened, holding>>

\* Faulty variant: lean_inc is forgotten.
UseHandleUncounted(s) ==
  /\ IoStep /\ Free(s) /\ Quiet
  /\ \E h \in holding, do \in HandleOps : ios' = [ios EXCEPT ![s] = handle_op(do, h)]
  /\ UNCHANGED <<opened, holding>>

\* read, get_line, write, flush, is_eof: the closure gets a reference of its own.
UseHandle(s) ==
  /\ IoStep /\ Free(s) /\ Quiet
  /\ \E h \in holding, do \in HandleOps :
       /\ ios' = [ios EXCEPT ![s] = handle_op(do, h)]
       /\ opened' = Inc(opened, h)
  /\ UNCHANGED holding

\* The value is dropped while the action is made; the action itself does nothing.
close(s) ==
  /\ IoStep /\ Free(s) /\ Quiet
  /\ \E h \in holding :
       /\ holding' = holding \ {h}
       /\ opened' = Dec(opened, h, 1)
  /\ ios' = [ios EXCEPT ![s] = pure]

DropHandle(h) ==
  /\ IoStep /\ Quiet
  /\ h \in holding
  /\ holding' = holding \ {h}
  /\ opened' = Dec(opened, h, 1)
  /\ UNCHANGED ios

\* A closure that is not run gives back what it captured.
DropAction(s) ==
  /\ IoStep /\ ~Free(s) /\ Quiet
  /\ opened' = [h \in Files |-> IF CapturesOf(ios[s], h) = 0 THEN opened[h]
                              ELSE Dec(opened, h, CapturesOf(ios[s], h))[h]]
  /\ ios' = [ios EXCEPT ![s] = NoAction]
  /\ UNCHANGED holding

then(s, s2) ==
  /\ IoStep /\ Quiet
  /\ s # s2 /\ ~Free(s) /\ ~Free(s2)
  /\ Len(Parts(ios[s])) + Len(Parts(ios[s2])) <= MaxParts
  /\ ios' = [ios EXCEPT ![s] = [do |-> "then", first |-> ios[s], next |-> ios[s2]], ![s2] = NoAction]
  /\ UNCHANGED <<opened, holding>>

\* run applies the closure to a world and takes field 0 of the result, which
\* it never releases: the field's reference becomes that of the value.
World(works) ==
  [fs |-> fs, opened |-> opened, exit_code |-> exit_code, done |-> <<>>,
   result |-> NotRun.result, works |-> works]

Ran(io, m) ==
  /\ fs' = m.fs
  /\ exit_code' = m.exit_code
  /\ ran' = [io |-> io, done |-> m.done,
             result |-> IF m.result.ok THEN m.result
                        ELSE [ok |-> FALSE, value |-> from_lean_io_error(m.result.value)]]

Outcomes(s) == {RunClosure[ios[s]][World(works)] : works \in 0..MaxParts}

\* The LeanHandle of a result is a clone, and the value it is cloned of is dropped.
run(s) ==
  /\ IoStep /\ ~Free(s)
  /\ \E m \in Outcomes(s) :
       /\ Ran(ios[s], m)
       /\ opened' = IF m.result.value \in Files THEN Dec(Inc(m.opened, m.result.value), m.result.value, 1)
                   ELSE m.opened
       /\ holding' = IF m.result.value \in Files THEN holding \cup {m.result.value} ELSE holding
  /\ ios' = [ios EXCEPT ![s] = NoAction]

\* map: its function takes the value (a handle ends there), and its result is
\* wrapped up again, unless it cannot be converted.
map(s) ==
  /\ IoStep /\ ~Free(s)
  /\ \E m \in Outcomes(s) :
       /\ Ran(ios[s], m)
       /\ opened' = IF m.result.value \in Files THEN Dec(m.opened, m.result.value, 1) ELSE m.opened
       /\ \E io \in {NoAction} \cup (IF m.result.ok THEN {pure} ELSE {}) : ios' = [ios EXCEPT ![s] = io]
  /\ UNCHANGED holding

\* bind: its function makes the next action out of the value, or fails; a
\* handle that it was given ends with it.
bind(s) ==
  /\ IoStep /\ ~Free(s)
  /\ \E m \in Outcomes(s) :
       LET h == m.result.value
       IN /\ Ran(ios[s], m)
          /\ \/ /\ h \in Files /\ \E do \in HandleOps : ios' = [ios EXCEPT ![s] = handle_op(do, h)]
                /\ opened' = Dec(Inc(m.opened, h), h, 1)
             \/ /\ h \notin Files /\ m.result.ok
                /\ \E io \in FreePrimitives : ios' = [ios EXCEPT ![s] = io]
                /\ opened' = m.opened
             \/ /\ ios' = [ios EXCEPT ![s] = NoAction]
                /\ opened' = IF h \in Files THEN Dec(m.opened, h, 1) ELSE m.opened
  /\ UNCHANGED holding

\* fs: calls of std::fs that are no actions.  What they fail of changes nothing;
\* no path lies below another.
write_file(p) == fs[p] # "dir" /\ fs' = [fs EXCEPT ![p] = "file"]
remove_file(p) == fs[p] = "file" /\ fs' = [fs EXCEPT ![p] = "nothing"]
create_dir(p) == fs[p] = "nothing" /\ fs' = [fs EXCEPT ![p] = "dir"]
remove_dir(p) == fs[p] = "dir" /\ fs' = [fs EXCEPT ![p] = "nothing"]
rename(p, q) ==
  /\ p # q /\ fs[p] # "nothing"
  /\ fs[q] \in {"nothing", fs[p]}
  /\ fs' = [fs EXCEPT ![q] = fs[p], ![p] = "nothing"]

FsCall ==
  /\ IoStep
  /\ \E p, q \in Paths : write_file(p) \/ remove_file(p) \/ create_dir(p) \/ remove_dir(p) \/ rename(p, q)
  /\ ran' = NotRun
  /\ UNCHANGED <<opened, exit_code, holding, ios>>

IoNext ==
  \/ \E s \in LeanIOs : NewAction(s) \/ UseHandle(s) \/ close(s) \/ DropAction(s) \/ run(s) \/ map(s) \/ bind(s)
  \/ \E s, s2 \in LeanIOs : then(s, s2)
  \/ \E h \in Files : DropHandle(h)
  \/ FsCall

IoSpec == IoInit /\ [][IoNext]_ioVars

-----------------------------------------------------------------------------
(* An action that is run performs the primitives it was composed of, in their *)
(* order, up to the first that fails, and gives the last one's result; and    *)
(* whatever was closed, dropped or passed on before, it meets every handle    *)
(* that it captured while its file is open.                                   *)
StepsRunInOrder ==
  LET todo == Parts(ran.io)
      n == Len(ran.done)
  IN /\ n <= Len(todo)
     /\ \A i \in 1..n : ran.done[i].io = todo[i] /\ (ran.done[i].ok \/ i = n)
     /\ n > 0 => ran.result.ok = ran.done[n].ok
     /\ n < Len(todo) => ~ran.result.ok

HandlesAreOpen ==
  /\ \A h \in holding : opened[h].rc > 0
  /\ \A s \in LeanIOs : \A h \in Files : CapturesOf(ios[s], h) > 0 => opened[h].rc > 0

ActionsRunAsComposed == StepsRunInOrder /\ HandlesAreOpen
=============================================================================
