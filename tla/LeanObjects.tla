----------------------------- MODULE LeanObjects ----------------------------
(***************************************************************************)
(* Lean objects under the smart pointers of leo3: reference counts that    *)
(* are plain (m_rc > 0) until lean_mark_mt makes them atomic (m_rc < 0),   *)
(* handles that are bound to a thread (LeanBound), unbound (LeanRef) or    *)
(* shared between threads (LeanUnbound), and the operations that update an *)
(* object in place when it is exclusively owned and copy it otherwise.     *)
(*                                                                         *)
(* Two sorts of objects stand for all: externals, which hold a Rust value, *)
(* and arrays of externals.  An operation is one step: what it touches     *)
(* with plain counts no other thread reaches, which STIsConfined states.   *)
(***************************************************************************)
EXTENDS Integers, Sequences, FiniteSets

CONSTANTS
  Objects,    \* memory for objects; each is allocated at most once
  Handles,    \* slots for handles
  Threads,
  Payloads,   \* Rust values inside external objects
  Null,       \* no payload, no object, no thread
  MaxLen,     \* bound: length of an array
  RefsCross   \* whether a LeanRef of an unmarked object may be sent to another thread

ASSUME LeanObjectsAssumption ==
  /\ IsFiniteSet(Objects) /\ IsFiniteSet(Handles)
  /\ Null \notin Objects \cup Threads \cup Payloads
  /\ MaxLen \in Nat
  /\ RefsCross \in BOOLEAN

VARIABLES
  heap,     \* the objects
  handles,  \* the smart pointers
  ended     \* history: how often the payload of an object was moved out or finalized

vars == <<heap, handles, ended>>

Fresh == [kind |-> "fresh", rc |-> 0, val |-> Null, kids |-> <<>>]
Freed == [kind |-> "freed", rc |-> 0, val |-> Null, kids |-> <<>>]
Empty == [form |-> "empty", obj |-> Null, thread |-> Null]

ExternalCells == [kind : {"external"}, rc : Int \ {0}, val : Payloads \cup {Null}, kids : {<<>>}]
ArrayCells == [kind : {"array"}, rc : Int \ {0}, val : {Null}, kids : Seq(Objects)]
Cells == {Fresh, Freed} \cup ExternalCells \cup ArrayCells

Handle == [form : {"empty", "bound", "ref", "unbound"},
           obj : Objects \cup {Null}, thread : Threads \cup {Null}]

TypeOK ==
  /\ heap \in [Objects -> Cells]
  /\ handles \in [Handles -> Handle]
  /\ ended \in [Objects -> Nat]

Init ==
  /\ heap = [o \in Objects |-> Fresh]
  /\ handles = [h \in Handles |-> Empty]
  /\ ended = [o \in Objects |-> 0]

-----------------------------------------------------------------------------
(* The reference counts of leo3-ffi.                                       *)

Occurrences(s, o) == Cardinality({i \in DOMAIN s : s[i] = o})

\* lean_inc_n
Inc(c, n) == [c EXCEPT !.rc = IF @ > 0 THEN @ + n ELSE @ - n]

\* lean_dec, n times: the last one frees the object.
Dec(c, n) ==
  IF n = 0 THEN c
  ELSE IF c.rc > n THEN [c EXCEPT !.rc = @ - n]
  ELSE IF c.rc < -n THEN [c EXCEPT !.rc = @ + n]
  ELSE Freed

\* lean_dec of o: an array that is freed releases its elements.
Release(hp, o) ==
  LET dies == hp[o].rc \in {1, -1}
  IN [x \in Objects |->
        IF x = o THEN Dec(hp[x], 1)
        ELSE IF dies THEN Dec(hp[x], Occurrences(hp[o].kids, x)) ELSE hp[x]]

Retain(hp, o) == [hp EXCEPT ![o] = Inc(@, 1)]

\* Faulty variant: only the object itself is marked.
MarkRoot(hp, o) == [hp EXCEPT ![o].rc = IF @ > 0 THEN -@ ELSE @]

\* lean_mark_mt: the object and all it reaches switch to atomic counts.
MarkMT(hp, o) ==
  [x \in Objects |->
     IF (x = o \/ Occurrences(hp[o].kids, x) > 0) /\ hp[x].rc > 0
     THEN [hp[x] EXCEPT !.rc = -@] ELSE hp[x]]

\* Faulty variant: ~lean_is_shared, which calls every atomic object unshared.
NotShared(c) == ~(c.rc > 1)

\* lean_is_exclusive: never true of an atomic object.
IsExclusive(c) == c.rc = 1

\* The heap becomes hp; the payloads of the objects in moved are moved out, those of
\* the objects that are freed with one are finalized.
Become(hp, moved) ==
  /\ heap' = hp
  /\ ended' = [o \in Objects |->
       ended[o] + (IF o \in moved THEN 1 ELSE 0)
                + (IF heap[o].kind = "external" /\ hp[o].kind = "freed"
                      /\ heap[o].val # Null /\ o \notin moved THEN 1 ELSE 0)]

-----------------------------------------------------------------------------
(* Handles.                                                                *)

Obj(h) == handles[h].obj
CellOf(h) == heap[Obj(h)]
IsEmpty(h) == handles[h] = Empty

Bound(t, o) == [form |-> "bound", obj |-> o, thread |-> t]
Ref(t, o) == [form |-> "ref", obj |-> o, thread |-> t]
Unbound(o) == [form |-> "unbound", obj |-> o, thread |-> Null]

\* Only a LeanBound gives access to the object.
IsExternal(h) == ~IsEmpty(h) /\ handles[h].form = "bound" /\ CellOf(h).kind = "external"
IsArray(h) == ~IsEmpty(h) /\ handles[h].form = "bound" /\ CellOf(h).kind = "array"

\* take_inner leaves a null m_data.  A handle to such an object is a handle as any
\* other; get_ref, get_mut and take_inner dereference m_data, where null ends the
\* program.
HasValue(h) == IsExternal(h) /\ CellOf(h).val # Null

FreshObjects == {o \in Objects : heap[o].kind = "fresh"}

External(v) == [kind |-> "external", rc |-> 1, val |-> v, kids |-> <<>>]
Array(s) == [kind |-> "array", rc |-> 1, val |-> Null, kids |-> s]

\* Slot h is given a new object.
Allocate(h, t, hp, o, c) ==
  /\ Become([hp EXCEPT ![o] = c], {})
  /\ handles' = [handles EXCEPT ![h] = Bound(t, o)]

NewExternal(t, h) ==
  /\ IsEmpty(h)
  /\ \E o \in FreshObjects, v \in Payloads : Allocate(h, t, heap, o, External(v))

NewArray(t, h) ==
  /\ IsEmpty(h)
  /\ \E o \in FreshObjects : Allocate(h, t, heap, o, Array(<<>>))

\* clone of a LeanBound or LeanRef, clone_ref of a LeanUnbound
Clone(h, g) ==
  /\ ~IsEmpty(h) /\ IsEmpty(g)
  /\ Become(Retain(heap, Obj(h)), {})
  /\ handles' = [handles EXCEPT ![g] = handles[h]]

Unbind(h) ==
  /\ ~IsEmpty(h) /\ handles[h].form = "bound"
  /\ handles' = [handles EXCEPT ![h].form = "ref"]
  /\ UNCHANGED <<heap, ended>>

\* LeanBound::unbind_mt, LeanRef::into_unbound
UnbindMT(h) ==
  /\ ~IsEmpty(h) /\ handles[h].form \in {"bound", "ref"}
  /\ Become(MarkMT(heap, Obj(h)), {})
  /\ handles' = [handles EXCEPT ![h] = Unbound(Obj(h))]

\* bind of a LeanRef on its thread, of a LeanUnbound on any.
Bind(t, h, g) ==
  /\ ~IsEmpty(h) /\ IsEmpty(g)
  /\ handles[h].form = "unbound" \/ (handles[h].form = "ref" /\ handles[h].thread = t)
  /\ Become(Retain(heap, Obj(h)), {})
  /\ handles' = [handles EXCEPT ![g] = Bound(t, Obj(h))]

\* LeanUnbound::into_bound, LeanUnbound::into_ref
FromUnbound(t, h) ==
  /\ ~IsEmpty(h) /\ handles[h].form = "unbound"
  /\ \E new \in {Bound(t, Obj(h)), Ref(t, Obj(h))} : handles' = [handles EXCEPT ![h] = new]
  /\ UNCHANGED <<heap, ended>>

\* LeanRef is Send, whatever its object's count is.
SendRef(t, h) ==
  /\ ~IsEmpty(h) /\ handles[h].form = "ref"
  /\ RefsCross \/ CellOf(h).rc < 0
  /\ handles' = [handles EXCEPT ![h].thread = t]
  /\ UNCHANGED <<heap, ended>>

Drop(h) ==
  /\ ~IsEmpty(h)
  /\ Become(Release(heap, Obj(h)), {})
  /\ handles' = [handles EXCEPT ![h] = Empty]

-----------------------------------------------------------------------------
(* Arrays: lean_ensure_exclusive_array, then an update in place.           *)

SameThread(h, g) == handles[h].thread = handles[g].thread

\* Faulty variant: the copy shares the elements without retaining them.
CopyUnretained(hp, a, r) == [Release(hp, a) EXCEPT ![r] = Array(hp[a].kids)]

\* lean_copy_array: the copy retains the elements, the original is released.
CopyArray(hp, a, r) ==
  LET kept == [x \in Objects |->
                 LET n == Occurrences(hp[a].kids, x) IN IF n = 0 THEN hp[x] ELSE Inc(hp[x], n)]
  IN [Release(kept, a) EXCEPT ![r] = Array(hp[a].kids)]

\* Where an update goes: an exclusive object itself, or a new one.
Targets(h) == IF IsExclusive(CellOf(h)) THEN {Obj(h)} ELSE FreshObjects

\* The heap once the array of h, or its copy r, has the elements s.
Updated(h, r, s) ==
  LET hp == IF r = Obj(h) THEN heap ELSE CopyArray(heap, Obj(h), r)
  IN [hp EXCEPT ![r].kids = s]

ArrayPush(h, g) ==
  /\ IsArray(h) /\ IsExternal(g) /\ SameThread(h, g)
  /\ Len(CellOf(h).kids) < MaxLen
  /\ \E r \in Targets(h) :
       /\ Become(Updated(h, r, Append(CellOf(h).kids, Obj(g))), {})
       /\ handles' = [handles EXCEPT ![h].obj = r, ![g] = Empty]

ArrayGet(h, i, g) ==
  /\ IsArray(h) /\ i \in DOMAIN CellOf(h).kids /\ IsEmpty(g)
  /\ Become(Retain(heap, CellOf(h).kids[i]), {})
  /\ handles' = [handles EXCEPT ![g] = Bound(handles[h].thread, CellOf(h).kids[i])]

\* The element that was there is released.
ArraySet(h, i, g) ==
  /\ IsArray(h) /\ IsExternal(g) /\ SameThread(h, g) /\ i \in DOMAIN CellOf(h).kids
  /\ \E r \in Targets(h) :
       /\ Become(Release(Updated(h, r, [CellOf(h).kids EXCEPT ![i] = Obj(g)]),
                         CellOf(h).kids[i]), {})
       /\ handles' = [handles EXCEPT ![h].obj = r, ![g] = Empty]

\* An index out of bounds: both arguments are dropped.
ArraySetFails(h, g) ==
  /\ IsArray(h) /\ IsExternal(g) /\ SameThread(h, g)
  /\ Become(Release(Release(heap, Obj(h)), Obj(g)), {})
  /\ handles' = [handles EXCEPT ![h] = Empty, ![g] = Empty]

\* Popping the empty array is an error, which drops it.
ArrayPop(h) ==
  /\ IsArray(h) /\ CellOf(h).kids # <<>>
  /\ LET n == Len(CellOf(h).kids)
     IN \E r \in Targets(h) :
          /\ Become(Release(Updated(h, r, SubSeq(CellOf(h).kids, 1, n - 1)),
                            CellOf(h).kids[n]), {})
          /\ handles' = [handles EXCEPT ![h].obj = r]

\* Swapping an element with itself leaves even a shared array alone.
ArraySwap(h, i, j) ==
  /\ IsArray(h) /\ {i, j} \subseteq DOMAIN CellOf(h).kids /\ i # j
  /\ \E r \in Targets(h) :
       /\ Become(Updated(h, r, [CellOf(h).kids EXCEPT ![i] = CellOf(h).kids[j],
                                                    ![j] = CellOf(h).kids[i]]), {})
       /\ handles' = [handles EXCEPT ![h].obj = r]

-----------------------------------------------------------------------------
(* Externals: the receivers of #[leanclass] methods, and LeanExternal.     *)

\* A method with receiver &mut self, which leaves the payload v.
MutMethod(h) ==
  /\ HasValue(h)
  /\ \E v \in Payloads, r \in Targets(h) :
       /\ Become(IF r = Obj(h) THEN [heap EXCEPT ![r].val = v]
                 ELSE [Release(heap, Obj(h)) EXCEPT ![r] = External(v)], {})
       /\ handles' = [handles EXCEPT ![h].obj = r]

\* A method with receiver self: take_inner of an exclusive object, a clone of the
\* payload of another, and the object is dropped.
OwnedMethod(h) ==
  /\ HasValue(h)
  /\ Become(Release(heap, Obj(h)), IF IsExclusive(CellOf(h)) THEN {Obj(h)} ELSE {})
  /\ handles' = [handles EXCEPT ![h] = Empty]

\* try_get_mut: nothing but an exclusive object is changed.
TryGetMut(h) ==
  /\ HasValue(h) /\ IsExclusive(CellOf(h))
  /\ \E v \in Payloads : Become([heap EXCEPT ![Obj(h)].val = v], {})
  /\ UNCHANGED handles

\* Faulty variant: the payload is moved out, m_data is left as it was.
TakeInnerKeepsData(h) ==
  /\ HasValue(h) /\ IsExclusive(CellOf(h))
  /\ ended' = [ended EXCEPT ![Obj(h)] = @ + 1]
  /\ UNCHANGED <<heap, handles>>

\* try_take_inner: m_data becomes null; where it is null already, nothing happens.
TryTakeInner(h) ==
  /\ HasValue(h) /\ IsExclusive(CellOf(h))
  /\ Become([heap EXCEPT ![Obj(h)].val = Null], {Obj(h)})
  /\ UNCHANGED handles

-----------------------------------------------------------------------------
Next ==
  \E h \in Handles :
    \/ Unbind(h) \/ UnbindMT(h) \/ Drop(h)
    \/ \E i, j \in 1..MaxLen : ArraySwap(h, i, j)
    \/ ArrayPop(h) \/ MutMethod(h) \/ OwnedMethod(h) \/ TryGetMut(h) \/ TryTakeInner(h)
    \/ \E t \in Threads : NewExternal(t, h) \/ NewArray(t, h) \/ FromUnbound(t, h) \/ SendRef(t, h)
    \/ \E g \in Handles \ {h} :
         \/ Clone(h, g) \/ ArrayPush(h, g) \/ ArraySetFails(h, g)
         \/ \E t \in Threads : Bind(t, h, g)
         \/ \E i \in 1..MaxLen : ArrayGet(h, i, g) \/ ArraySet(h, i, g)

Spec == Init /\ [][Next]_vars

-----------------------------------------------------------------------------
Live == {o \in Objects : heap[o].kind \in {"external", "array"}}

\* The references to o: the handles to it and its places in live arrays.
References(o) ==
  Cardinality({h \in Handles : Obj(h) = o})
    + Cardinality({p \in Live \X (1..MaxLen) :
                     p[2] \in DOMAIN heap[p[1]].kids /\ heap[p[1]].kids[p[2]] = o})

\* The count of every object is the number of references to it: no object is freed
\* while something refers to it, and none is left over when nothing does.
CountsAreExact ==
  \A o \in Objects : References(o) = IF heap[o].rc < 0 THEN -heap[o].rc ELSE heap[o].rc

\* The threads that may touch o, by a handle or through an array.
HandleThreads(h) == IF handles[h].form = "unbound" THEN Threads ELSE {handles[h].thread}

Reachers(o) ==
  UNION {HandleThreads(h) : h \in {g \in Handles :
    Obj(g) # Null /\ (Obj(g) = o \/ Occurrences(CellOf(g).kids, o) > 0)}}

\* An object whose count is not atomic is within reach of one thread only: its count
\* is never updated by two threads, and what an operation reads of it stays true
\* until the operation ends.
STIsConfined ==
  \A o \in Live : heap[o].rc > 0 => Cardinality(Reachers(o)) <= 1

\* The Rust value in an external ends exactly once: it is moved out, or finalized
\* when the object is freed, and never both.
PayloadEndsOnce ==
  \A o \in Objects :
    /\ heap[o].kind = "external" => ended[o] = IF heap[o].val = Null THEN 1 ELSE 0
    /\ ended[o] <= 1

\* Objects are values: what a handle denotes only changes by an operation on that
\* handle, although objects are shared and updated in place (copy-on-write).
Denotes(h) ==
  CASE IsEmpty(h) -> [sort |-> "none", of |-> <<>>]
    [] ~IsEmpty(h) /\ CellOf(h).kind = "external" -> [sort |-> "payload", of |-> <<CellOf(h).val>>]
    [] ~IsEmpty(h) /\ CellOf(h).kind = "array" ->
         [sort |-> "array", of |-> [i \in DOMAIN CellOf(h).kids |-> heap[CellOf(h).kids[i]].val]]

Pure == INSTANCE PureValues WITH value <- [h \in Handles |-> Denotes(h)], Moved <- Null

ImplementsPureValues == Pure!PureSpec
=============================================================================
