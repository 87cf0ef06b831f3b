----------------------------- MODULE PureValues -----------------------------
(***************************************************************************)
(* What the smart pointers of leo3 promise of a Lean object: it is a value.*)
(* A handle (LeanBound, LeanRef, LeanUnbound) names a value that only an   *)
(* operation given that very handle can change, whoever else holds handles *)
(* to the same object, on whatever thread.                                 *)
(*                                                                         *)
(* A value is the payload of an external object (a Rust value, or nothing  *)
(* once that was moved out) or an array of payloads.                       *)
(***************************************************************************)
EXTENDS Naturals, Sequences

CONSTANTS
  Handles,   \* slots for handles
  Payloads,  \* Rust values inside external objects
  Moved      \* what is left of one that was moved out

VARIABLE value  \* the value each handle names

Value == [sort : {"none", "payload", "array"}, of : Seq(Payloads \cup {Moved})]

None == [sort |-> "none", of |-> <<>>]
Payload(v) == [sort |-> "payload", of |-> <<v>>]
Array(s) == [sort |-> "array", of |-> s]

IsPayload(h) == value[h].sort = "payload"
IsArray(h) == value[h].sort = "array"

PureInit == value = [h \in Handles |-> None]

New(h) ==
  /\ value[h] = None
  /\ \E v \in {Array(<<>>)} \cup {Payload(p) : p \in Payloads} : value' = [value EXCEPT ![h] = v]

Copy(h, g) ==
  /\ value[h] # None /\ value[g] = None
  /\ value' = [value EXCEPT ![g] = value[h]]

Discard(h) ==
  /\ value[h] # None
  /\ value' = [value EXCEPT ![h] = None]

\* A method on the payload, or its removal: h alone sees it.
Write(h) ==
  /\ IsPayload(h) /\ value[h] # Payload(Moved)
  /\ \E p \in Payloads \cup {Moved} : value' = [value EXCEPT ![h] = Payload(p)]

Push(h, g) ==
  /\ IsArray(h) /\ IsPayload(g)
  /\ value' = [value EXCEPT ![h] = Array(value[h].of \o value[g].of), ![g] = None]

Get(h, i, g) ==
  /\ IsArray(h) /\ value[g] = None
  /\ value' = [value EXCEPT ![g] = Payload(value[h].of[i])]

Replace(h, i, g) ==
  /\ IsArray(h) /\ IsPayload(g)
  /\ value' = [value EXCEPT ![h] = Array([value[h].of EXCEPT ![i] = value[g].of[1]]), ![g] = None]

Pop(h) ==
  /\ IsArray(h) /\ value[h].of # <<>>
  /\ value' = [value EXCEPT ![h] = Array(SubSeq(value[h].of, 1, Len(value[h].of) - 1))]

Swap(h, i, j) ==
  /\ IsArray(h)
  /\ value' = [value EXCEPT ![h] = Array([value[h].of EXCEPT ![i] = value[h].of[j],
                                                          ![j] = value[h].of[i]])]

\* An operation that reports an error drops what it was given.
Fail(h, g) ==
  /\ IsArray(h) /\ IsPayload(g)
  /\ value' = [value EXCEPT ![h] = None, ![g] = None]

PureNext ==
  \E h \in Handles :
    \/ New(h) \/ Discard(h) \/ Write(h) \/ Pop(h)
    \/ \E i, j \in 1..Len(value[h].of) : Swap(h, i, j)
    \/ \E g \in Handles :
         \/ Copy(h, g) \/ Push(h, g) \/ Fail(h, g)
         \/ \E i \in 1..Len(value[h].of) : Get(h, i, g) \/ Replace(h, i, g)

PureSpec == PureInit /\ [][PureNext]_value
=============================================================================
