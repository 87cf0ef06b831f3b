------------------------------ MODULE MCObjects -----------------------------
(* LeanObjects, Containers and Layouts for TLC, side by side: a behaviour is *)
(* one of threads that share objects, of a thread that works on containers,  *)
(* or of the construction of the structures of a session.  Nothing tells two *)
(* objects or two handles of LeanObjects apart, or two addresses of          *)
(* Containers, and every property is one of safety.                          *)
EXTENDS LeanObjects, Containers, MCLayouts, TLC

\* Types that are converted.
Of(sort, types, len) == [sort |-> sort, of |-> types, len |-> len]
Scalar == Of("scalar", <<>>, 0)
Leaf == Of("leaf", <<>>, 0)
SomeTypes ==
  {Of("vec", <<Leaf>>, 0), Of("option", <<Leaf>>, 0), Of("fixed", <<Leaf>>, 2),
   Of("result", <<Scalar, Leaf>>, 0), Of("pair", <<Leaf, Of("pair", <<Leaf, Scalar>>, 0)>>, 0),
   Of("option", <<Of("vec", <<Leaf>>, 0)>>, 0)}

\* The other behaviours are the same for every version of Lean.
Unbuilt ==
  /\ minor = 34 /\ exported = {} /\ ~forced
  /\ frames = <<>> /\ read = <<"", "">> /\ \A type \in DOMAIN built : built[type] = Nothing

ObjectsInit == Init /\ ContainersInit /\ LayoutsInit

ObjectsNext ==
  \/ ContainersInit /\ Unbuilt /\ Next /\ UNCHANGED <<containerVars, layoutVars>>
  \/ Init /\ Unbuilt /\ ContainersNext /\ UNCHANGED <<vars, layoutVars>>
  \/ Init /\ ContainersInit /\ LayoutsNext /\ UNCHANGED <<vars, containerVars>>

ObjectsSpec == ObjectsInit /\ [][ObjectsNext]_<<vars, containerVars, layoutVars>>

-----------------------------------------------------------------------------
(* Addresses differ only in which is taken first: a state is seen with the   *)
(* objects of Containers in the order in which the program reaches them, and *)
(* those behind them that it does not reach.                                 *)
RECURSIVE Reached(_, _)
Reached(seen, todo) ==
  IF todo = <<>> THEN seen
  ELSE LET p == Head(todo)
       IN IF IsScalar(p) \/ p \in ToSet(seen) THEN Reached(seen, Tail(todo))
          ELSE Reached(Append(seen, p), mem[p].kids \o Tail(todo))

\* Slots are told apart by what they hold, as far as that is easy.
Weight(h) ==
  IF IsScalar(P(h)) THEN P(h)
  ELSE 1 + mem[P(h)].rc + 5 * (mem[P(h)].tag + 5 * (Len(mem[P(h)].kids) + 5 * Inside(mem, P(h))))

HeldObjects ==
  LET slots == SetToSortSeq(Held, LAMBDA g, h : Weight(g) < Weight(h))
  IN [i \in DOMAIN slots |-> P(slots[i])]

InOrder ==
  LET reached == Reached(<<>>, HeldObjects \o abandoned)
  IN reached \o SetToSeq({p \in Memory \ FreeCells(mem) : p \notin ToSet(reached)})

\* Nor does it matter which handle of LeanObjects is which, or which object: a state
\* is seen with all the ways to name them.
Named(n) ==
  LET cell(o) == [heap[o] EXCEPT !.kids = [i \in DOMAIN @ |-> n[@[i]]]]
      handle(h) == [handles[h] EXCEPT !.obj = IF @ = Null THEN Null ELSE n[@]]
  IN <<[m \in Objects |-> LET o == CHOOSE o \in Objects : n[o] = m IN <<cell(o), ended[o]>>],
       [x \in {handle(h) : h \in Handles} |-> Cardinality({h \in Handles : handle(h) = x})]>>

UpToNames == IF Init THEN {} ELSE {Named(n) : n \in Permutations(Objects)}

UpToAddresses ==
  LET order == InOrder
      n(p) == IF IsScalar(p) THEN p ELSE CHOOSE i \in DOMAIN order : order[i] = p
      Renamed(s) == [i \in DOMAIN s |-> n(s[i])]
  IN IF ContainersInit THEN <<>>
     ELSE <<Renamed(HeldObjects), Renamed(abandoned),
            [i \in DOMAIN order |-> [mem[order[i]] EXCEPT !.kids = Renamed(@)]]>>

ObjectsView == <<UpToNames, UpToAddresses, layoutVars>>
=============================================================================
