---------------------------- MODULE WrapperCalls ----------------------------
(* The calls that Lean makes of exported Rust functions: the wrappers that    *)
(* #[leanfn], #[leanclass] and #[lean_instance] generate.  Lean gives the     *)
(* references to the arguments away, except to the functions of an instance,  *)
(* which borrow them; the wrapper decodes the arguments one after another,    *)
(* runs the user's function behind a panic boundary and builds the result.    *)
(*                                                                            *)
(* Argument 0 is the receiver of a method.  refs counts the references to the *)
(* object of every argument, of which kept are Lean's own.                    *)
EXTENDS RustTypes

CONSTANTS
  Signatures,  \* of exported functions: their parameters, result, class, receiver
  NotCalled    \* a function that Lean has not called yet

VARIABLES sig, at, next, refs, kept, outcome

callVars == <<sig, at, next, refs, kept, outcome>>

Receivers == {"none", "ref", "mut", "owned", "instance"}
IsMethod(s) == s.receiver # "none"
Class(s) == <<s.class>>

(* A class is a type of the program, so that the receiver is an object; the   *)
(* functions of the type classes that #[lean_instance] knows have at most one *)
(* argument beside it.                                                        *)
ASSUME WrapperCallsAssumption ==
  /\ \A s \in Signatures :
       /\ s.receiver \in Receivers
       /\ DOMAIN s.params = 1..Len(s.params) /\ Len(s.params) \in Nat
       /\ IsMethod(s) => ~IsScalar(Class(s))
       /\ s.receiver = "instance" => Len(s.params) <= 1
  /\ NotCalled \notin {"receiver", "params", "user", "result", "returned"}

Positions == (IF IsMethod(sig) THEN {0} ELSE {}) \cup DOMAIN sig.params
ParamType(i) == IF i = 0 THEN Class(sig) ELSE sig.params[i]

-----------------------------------------------------------------------------
(* The calling convention *)

method_return_abi(s) == s.receiver \notin {"mut", "instance"} /\ IsScalar(s.ret)

Takes(i) == i # 0 /\ ~IsScalar(ParamType(i))
OnObject(i) == ~IsScalar(ParamType(i))
References(i) == IF i \in kept THEN 1 ELSE 0
Drop(i) == [refs EXCEPT ![i] = @ - 1]

CallsInit ==
  /\ sig \in Signatures
  /\ at = NotCalled /\ next = 0 /\ refs = <<>> /\ kept = {} /\ outcome = "none"

(* Lean keeps a reference to the arguments that it uses afterwards. *)
LeanCalls ==
  /\ at = NotCalled
  /\ \E k \in SUBSET {i \in Positions : OnObject(i)} :
       /\ sig.receiver = "instance" => k = Positions
       /\ kept' = k
       /\ refs' = [i \in Positions |->
            IF ~OnObject(i) THEN 0
            ELSE IF sig.receiver = "instance" THEN 1
            ELSE 1 + (IF i \in k THEN 1 ELSE 0)]
  /\ at' = IF IsMethod(sig) THEN "receiver" ELSE "params"
  /\ next' = 1
  /\ UNCHANGED <<sig, outcome>>

(* &self holds its object until the wrapper returns. *)
TakeRef ==
  /\ at = "receiver" /\ sig.receiver = "ref"
  /\ at' = "params"
  /\ UNCHANGED <<sig, next, refs, kept, outcome>>

(* &mut self goes on with a clone when the object is shared. *)
TakeMut ==
  /\ at = "receiver" /\ sig.receiver = "mut"
  /\ refs' = IF refs[0] > 1 THEN Drop(0) ELSE refs
  /\ at' = "params"
  /\ UNCHANGED <<sig, next, kept, outcome>>

(* self moves the value out of its object, or clones it. *)
TakeOwned ==
  /\ at = "receiver" /\ sig.receiver = "owned"
  /\ refs' = Drop(0)
  /\ at' = "params"
  /\ UNCHANGED <<sig, next, kept, outcome>>

(* The function of an instance borrows: it takes references of its own. *)
TakeInstance ==
  /\ at = "receiver" /\ sig.receiver = "instance"
  /\ refs' = [i \in Positions |-> refs[i] + 1]
  /\ at' = "user"
  /\ UNCHANGED <<sig, next, kept, outcome>>

HoldsReceiver == sig.receiver = "ref" \/ (sig.receiver = "mut" /\ refs[0] > References(0))

(* The handle of the receiver goes when the wrapper leaves in any other way   *)
(* than with that object as its result.                                       *)
ReleaseReceiverOfRef(after) ==
  IF sig.receiver = "ref" THEN [after EXCEPT ![0] = @ - 1] ELSE after

ReleaseReceiver(after) ==
  IF sig.receiver \in {"ref", "mut"} /\ HoldsReceiver THEN [after EXCEPT ![0] = @ - 1] ELSE after

Leave(after, how) ==
  /\ at' = "returned"
  /\ refs' = after
  /\ outcome' = IF how # "value" /\ method_return_abi(sig) THEN "abort" ELSE how
  /\ UNCHANGED <<sig, next, kept>>

generate_param_conversions ==
  /\ at = "params" /\ next \in DOMAIN sig.params
  /\ next' = next + 1
  /\ refs' = IF Takes(next) THEN Drop(next) ELSE refs
  /\ UNCHANGED <<sig, at, kept, outcome>>

(* A char that is none, or an object that does not hold the value expected. *)
ConversionFails ==
  /\ at = "params" /\ next \in DOMAIN sig.params
  /\ Takes(next) \/ sig.params[next] = <<"char">>
  /\ Leave(ReleaseReceiver(IF Takes(next) THEN Drop(next) ELSE refs), "panic")

AllConverted ==
  /\ at = "params" /\ next \notin DOMAIN sig.params
  /\ at' = "user"
  /\ UNCHANGED <<sig, next, refs, kept, outcome>>

ReleaseBoth(after) ==
  IF sig.receiver = "instance" THEN [i \in Positions |-> after[i] - 1] ELSE ReleaseReceiver(after)

UserPanics ==
  /\ at = "user"
  /\ Leave(ReleaseBoth(refs), "panic")

UserReturns ==
  /\ at = "user"
  /\ at' = "result"
  /\ UNCHANGED <<sig, next, refs, kept, outcome>>

generate_result_conversion ==
  /\ at = "result"
  /\ Leave(IF sig.receiver = "mut" THEN refs ELSE ReleaseBoth(refs), "value")

ResultFails ==
  /\ at = "result"
  /\ ~method_return_abi(sig) /\ ~is_unit_type(sig.ret)
  /\ Leave(ReleaseBoth(refs), "panic")

CallsNext ==
  \/ LeanCalls \/ TakeRef \/ TakeMut \/ TakeOwned \/ TakeInstance
  \/ generate_param_conversions \/ ConversionFails \/ AllConverted
  \/ UserReturns \/ UserPanics
  \/ generate_result_conversion \/ ResultFails

CallsSpec == CallsInit /\ [][CallsNext]_callVars

-----------------------------------------------------------------------------
(* Properties *)

(* A wrapper gives back every reference that it was given, once: after a call *)
(* that succeeds, or that fails in the user's function, Lean's own references *)
(* are left, and the one to the receiver that it gets as the result; after an *)
(* argument that could not be converted, the later ones are still there.      *)
ArgumentsAreReleasedOnce ==
  at = "returned" =>
    \A i \in Positions :
      LET own == IF OnObject(i) THEN References(i) ELSE 0
          returned == IF i = 0 /\ sig.receiver = "mut" /\ outcome = "value" /\ refs[0] > own THEN 1 ELSE 0
          unread == IF next \in DOMAIN sig.params /\ i > next /\ Takes(i) THEN 1 ELSE 0
      IN refs[i] = own + returned + unread
=============================================================================
