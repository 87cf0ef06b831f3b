----------------------------- MODULE Containers -----------------------------
(***************************************************************************)
(* The containers of Lean under the wrappers of leo3: lists, options,      *)
(* sums, Except, pairs, arrays, closures and thunks, and the conversions   *)
(* between Rust values and Lean objects.  An operation is a function of    *)
(* the memory; what matters is which references it takes, which it gives   *)
(* back on each of its ways out, and what its result denotes.              *)
(*                                                                         *)
(* Everything here happens on one thread: counts are plain (LeanObjects    *)
(* has the other sort).  Memory that is freed is used again.  A pointer is *)
(* a number: an address, or Box(n) for the scalar n.                       *)
(***************************************************************************)
EXTENDS Integers, Sequences, FiniteSets, SequencesExt

CONSTANTS
  Memory,     \* addresses
  Slots,      \* variables of the program, each of which may hold a handle
  Leaves,   \* heap-allocated elements (strings, large numbers, externals)
  Chosen,     \* the payloads that the predicates of the program accept
  Refused,    \* the payloads that its functions, and conversions, fail on
  RustTypes,  \* types whose values are converted, see ValuesOf
  MaxElements,     \* bound: elements of a container
  MaxInside  \* bound: elements of a container, and of those in it

ASSUME ContainersAssumption ==
  /\ Memory \subseteq Nat \ {0} /\ Leaves \subseteq Nat
  /\ Chosen \subseteq Leaves /\ Refused \subseteq Leaves
  /\ MaxElements \in Nat \ {0} /\ MaxInside \in Nat

VARIABLES
  mem,       \* the objects
  owned,     \* the handles that the program has: pointers, by their slots
  abandoned  \* references that belong to nobody

containerVars == <<mem, owned, abandoned>>

Box(n) == -n
IsScalar(p) == p <= 0

FreeCell == [kind |-> "free", tag |-> 0, kids |-> <<>>, rc |-> 0]

\* The result of an operation; ok is FALSE where Rust has None or an error.
Result(m, p) == [mem |-> m, out |-> p, ok |-> TRUE]
Failure(m) == [mem |-> m, out |-> 0, ok |-> FALSE]

-----------------------------------------------------------------------------
(* Objects and their counts.                                               *)

IncRef(m, p) == IF IsScalar(p) THEN m ELSE [m EXCEPT ![p].rc = @ + 1]

RECURSIVE DecRef(_, _)
DecRef(m, p) ==
  IF IsScalar(p) THEN m
  ELSE IF m[p].rc > 1 THEN [m EXCEPT ![p].rc = @ - 1]
  ELSE FoldLeft(LAMBDA n, kid : DecRef(n, kid), [m EXCEPT ![p] = FreeCell], m[p].kids)

IncAll(m, s) == FoldLeft(LAMBDA n, p : IncRef(n, p), m, s)
DecAll(m, s) == FoldLeft(LAMBDA n, p : DecRef(n, p), m, s)

FreeCells(m) == {p \in Memory : m[p].kind = "free"}
\* Memory for n objects.
Room(n) == Cardinality(FreeCells(mem)) >= n

\* A new object takes over the references in kids.
Make(m, kind, tag, kids) ==
  LET p == CHOOSE q \in FreeCells(m) : \A r \in FreeCells(m) : q <= r
  IN Result([m EXCEPT ![p] = [kind |-> kind, tag |-> tag, kids |-> kids, rc |-> 1]], p)

Ctor(m, tag, kids) == Make(m, "ctor", tag, kids)
Tag(m, p) == IF IsScalar(p) THEN -p ELSE m[p].tag
Kid(m, p, i) == m[p].kids[i]

\* A field of a borrowed object, as an owned reference.
Field(m, p, i) == Result(IncRef(m, Kid(m, p, i)), Kid(m, p, i))

IsKind(m, p, kind) == ~IsScalar(p) /\ m[p].kind = kind
IsCtor(m, p, tags, n) == IsKind(m, p, "ctor") /\ m[p].tag \in tags /\ Len(m[p].kids) = n

\* A thunk has tag 1 when it holds its value, 0 when it holds the closure that
\* computes it: a function that returns the first of its arguments.
Outcome(m, t) ==
  LET inside == Kid(m, t, 1)
  IN IF Tag(m, t) = 1 THEN inside
     ELSE Kid(m, inside, 1)

\* What a pointer denotes: a tree, the same before and after a thunk is forced.
RECURSIVE Term(_, _)
Term(m, p) ==
  IF IsScalar(p) THEN [kind |-> "box", tag |-> -p, kids |-> <<>>]
  ELSE IF m[p].kind = "thunk" THEN [kind |-> "thunk", tag |-> 0, kids |-> <<Term(m, Outcome(m, p))>>]
  ELSE [kind |-> m[p].kind, tag |-> m[p].tag,
        kids |-> [i \in DOMAIN m[p].kids |-> Term(m, Kid(m, p, i))]]

-----------------------------------------------------------------------------
(* Functions of the program.  A predicate borrows its argument; a function *)
(* owns it, and either returns it, or drops it and returns a scalar, or    *)
(* drops it and fails.                                                     *)

Accepts(m, p) == IsKind(m, p, "leaf") /\ m[p].tag \in Chosen
Refuses(m, p) == IsKind(m, p, "leaf") /\ m[p].tag \in Refused
SameValue(m, p, q) == Term(m, p) = Term(m, q)

Functions == {"keep", "forget", "check"}

Call(f, m, p) ==
  IF f = "forget" THEN Result(DecRef(m, p), Box(1))
  ELSE IF f = "check" /\ Refuses(m, p) THEN Failure(DecRef(m, p))
  ELSE Result(m, p)

-----------------------------------------------------------------------------
(* Lists: nil is Box(0), a cell has tag 1, a head and a tail.              *)

list_nil(m) == Result(m, Box(0))
list_cons(m, head, tail) == Ctor(m, 1, <<head, tail>>)
list_isEmpty(m, l) == Tag(m, l) = 0
list_head(m, l) == IF list_isEmpty(m, l) THEN Failure(m) ELSE Field(m, l, 1)
list_tail(m, l) == IF list_isEmpty(m, l) THEN Failure(m) ELSE Field(m, l, 2)
list_singleton(m, x) == list_cons(m, x, Box(0))

RECURSIVE Spine(_, _)
Spine(m, l) == IF list_isEmpty(m, l) THEN <<>> ELSE <<l>> \o Spine(m, Kid(m, l, 2))

\* A loop over the cells of a list.  It owns a reference to the current cell, raw
\* references that it collects (raw), a bound result (out) and a count (n); how is
\* how it ended: it ran off the end, stopped at a cell, or left with an error.
Loop(m, l) == [mem |-> IncRef(m, l), current |-> l, raw |-> <<>>, out |-> 0, n |-> 0, how |-> "end"]

\* From a cell to the next one.
Advance(w) ==
  LET next == Kid(w.mem, w.current, 2)
  IN [w EXCEPT !.mem = DecRef(IncRef(w.mem, next), w.current), !.current = next]

\* Visit is given the head, borrowed.  On the way out the current cell is given back,
\* except when the ? of an error leaves the loop.
Walk(m, l, Visit(_, _)) ==
  LET Iterate(w, cell) ==
        IF w.how # "end" THEN w
        ELSE LET v == Visit(w, Kid(w.mem, cell, 1))
             IN IF v.how = "end" THEN Advance(v) ELSE v
      last == FoldLeft(Iterate, Loop(m, l), Spine(m, l))
  IN IF last.how = "error" THEN last ELSE [last EXCEPT !.mem = DecRef(@, last.current)]

\* Faulty variant: the collected reference is not taken.
CollectBorrowed(w, head) == [w EXCEPT !.raw = Append(@, head)]

Collect(w, head) == [w EXCEPT !.mem = IncRef(@, head), !.raw = Append(@, head)]

\* The collected elements before a list.
Rebuild(m, elements, l) ==
  FoldRight(LAMBDA x, r : list_cons(r.mem, x, r.out), elements, Result(m, l))

list_length(m, l) == Walk(m, l, LAMBDA w, head : [w EXCEPT !.n = @ + 1])

list_append(m, xs, ys) ==
  IF list_isEmpty(m, xs) THEN Result(m, ys)
  ELSE IF list_isEmpty(m, ys) THEN Result(m, xs)
  ELSE LET w == Walk(m, xs, Collect)
           r == Rebuild(w.mem, w.raw, ys)
       IN Result(DecRef(r.mem, xs), r.out)

list_reverse(m, l) ==
  LET w == Walk(m, l, LAMBDA v, head :
             LET r == list_cons(IncRef(v.mem, head), head, v.out)
             IN [v EXCEPT !.mem = r.mem, !.out = r.out])
  IN Result(DecRef(w.mem, l), w.out)

list_headOpt(m, l) ==
  LET r == list_head(m, l) IN IF r.ok THEN Ctor(r.mem, 1, <<r.out>>) ELSE Result(m, Box(0))

\* The tail is retained once for the option and once for a variable that is dropped.
list_tailOpt(m, l) ==
  LET r == list_tail(m, l)
      o == Ctor(IncRef(r.mem, r.out), 1, <<r.out>>)
  IN IF r.ok THEN Result(DecRef(o.mem, r.out), o.out) ELSE Result(m, Box(0))

\* The default is given back when it is not needed.
OrDefault(r, default) == IF r.ok THEN Result(DecRef(r.mem, default), r.out) ELSE Result(r.mem, default)

list_headD(m, l, default) == OrDefault(list_head(m, l), default)

Stopped(w) == [mem |-> w.mem, out |-> w.out, ok |-> w.how = "stop"]

list_get(m, l, index) ==
  Stopped(Walk(m, l, LAMBDA w, head :
    IF w.n = index THEN [w EXCEPT !.mem = IncRef(@, head), !.out = head, !.how = "stop"]
    ELSE [w EXCEPT !.n = @ + 1]))

list_getD(m, l, index, default) == OrDefault(list_get(m, l, index), default)

TakeLast(w, head) == [w EXCEPT !.mem = IncRef(DecRef(@, w.out), head), !.out = head]

list_getLast(m, l) ==
  IF list_isEmpty(m, l) THEN Failure(m)
  ELSE LET w == Walk(m, l, TakeLast) IN Result(w.mem, w.out)

\* The first element that a test accepts; the others are taken and dropped.
list_search(m, l, Test(_, _)) ==
  Stopped(Walk(m, l, LAMBDA w, head :
    IF Test(IncRef(w.mem, head), head) THEN [w EXCEPT !.mem = IncRef(@, head), !.out = head, !.how = "stop"]
    ELSE [w EXCEPT !.mem = DecRef(IncRef(@, head), head)]))

list_find(m, l) == list_search(m, l, Accepts)

\* contains, any and all drop what they have found.
Found(r) == [mem |-> IF r.ok THEN DecRef(r.mem, r.out) ELSE r.mem, out |-> 0, ok |-> r.ok]
list_contains(m, l, x) == Found(list_search(m, l, LAMBDA n, head : SameValue(n, head, x)))
list_any(m, l) == Found(list_search(m, l, Accepts))
list_all(m, l) ==
  LET r == Found(list_search(m, l, LAMBDA n, head : ~Accepts(n, head))) IN [r EXCEPT !.ok = ~@]
list_countP(m, l) ==
  Walk(m, l, LAMBDA w, head :
    [w EXCEPT !.mem = DecRef(IncRef(@, head), head), !.n = IF Accepts(w.mem, head) THEN @ + 1 ELSE @])

\* The function owns each element; this one keeps the last and drops the others.
list_foldl(m, l) == LET w == Walk(m, l, TakeLast) IN Result(w.mem, w.out)

list_filter(m, l) ==
  LET w == Walk(m, l, LAMBDA v, head :
             LET kept == IF Accepts(v.mem, head) THEN Collect([v EXCEPT !.mem = IncRef(@, head)], head)
                         ELSE [v EXCEPT !.mem = IncRef(@, head)]
             IN [kept EXCEPT !.mem = DecRef(@, head)])
      r == Rebuild(w.mem, w.raw, Box(0))
  IN Result(DecRef(r.mem, l), r.out)

\* An error of the function leaves the loop with the cell and the results so far as
\* raw pointers, which nobody drops.
list_map(m, l, f) ==
  LET w == Walk(m, l, LAMBDA v, head :
             LET r == Call(f, IncRef(v.mem, head), head)
             IN IF r.ok THEN [v EXCEPT !.mem = r.mem, !.raw = Append(@, r.out)]
                ELSE [v EXCEPT !.mem = r.mem, !.how = "error"])
      r == Rebuild(w.mem, w.raw, Box(0))
  IN IF w.how = "error"
     THEN [mem |-> DecRef(w.mem, l), out |-> 0, ok |-> FALSE, lost |-> Append(w.raw, w.current)]
     ELSE [mem |-> DecRef(r.mem, l), out |-> r.out, ok |-> TRUE, lost |-> <<>>]

list_take(m, l, n) ==
  LET w == Walk(m, l, LAMBDA v, head :
             IF v.n < n THEN [Collect(v, head) EXCEPT !.n = @ + 1] ELSE [v EXCEPT !.how = "stop"])
      r == Rebuild(w.mem, w.raw, Box(0))
  IN Result(DecRef(IF n = 0 THEN m ELSE r.mem, l), IF n = 0 THEN Box(0) ELSE r.out)

\* Unlike the others this loop keeps the cell it stops at: it is the result.
list_drop(m, l, n) ==
  LET w == FoldLeft(LAMBDA v, cell : IF v.n < n THEN [Advance(v) EXCEPT !.n = @ + 1] ELSE v,
                    Loop(m, l), Spine(m, l))
  IN Result(DecRef(w.mem, l), w.current)

-----------------------------------------------------------------------------
(* Options: none is Box(0).  Sums and Except: tags 0 and 1.  Pairs.        *)

option_none(m) == Result(m, Box(0))
option_some(m, x) == Ctor(m, 1, <<x>>)
option_isNone(o) == IsScalar(o)
option_get(m, o) == IF option_isNone(o) THEN Failure(m) ELSE Field(m, o, 1)
option_getD(m, o, default) == OrDefault(option_get(m, o), default)

\* The option is dropped on the way out, whatever the function did.
option_bind(m, o, F(_, _)) ==
  LET x == option_get(m, o)
      r == IF x.ok THEN F(x.mem, x.out) ELSE Result(m, Box(0))
  IN [r EXCEPT !.mem = DecRef(@, o)]

Some(r) == IF r.ok THEN option_some(r.mem, r.out) ELSE r
option_map(m, o, f) == option_bind(m, o, LAMBDA n, x : Some(Call(f, n, x)))
option_filter(m, o) ==
  option_bind(m, o, LAMBDA n, x : IF Accepts(n, x) THEN option_some(n, x) ELSE Result(DecRef(n, x), Box(0)))
option_toList(m, o) == option_bind(m, o, LAMBDA n, x : list_singleton(n, x))

\* The inner option is retained for the result, and the variable is dropped.
option_join(m, o) == option_bind(m, o, LAMBDA n, x : Result(DecRef(IncRef(n, x), x), x))

\* or and merge make a new option even of one that they pass on.
Again(m, o) == LET x == option_get(m, o) IN IF x.ok THEN option_some(x.mem, x.out) ELSE Result(m, Box(0))
DropBoth(r, a, b) == [r EXCEPT !.mem = DecRef(DecRef(@, b), a)]

option_or(m, a, b) == DropBoth(IF option_isNone(a) THEN Again(m, b) ELSE Again(m, a), a, b)

\* The function of merge owns both values; this one keeps what f makes of the first.
option_merge(m, a, b, f) ==
  DropBoth(IF option_isNone(a) THEN Again(m, b)
           ELSE IF option_isNone(b) THEN Again(m, a)
           ELSE LET x == option_get(m, a)
                    y == option_get(x.mem, b)
                IN Some(Call(f, DecRef(y.mem, y.out), x.out)),
           a, b)

\* isEqSome, all and any look at the value and drop it.
option_test(m, o, Test(_, _), default) ==
  LET x == option_get(m, o)
  IN IF x.ok THEN [mem |-> DecRef(x.mem, x.out), out |-> 0, ok |-> Test(x.mem, x.out)]
     ELSE [mem |-> m, out |-> 0, ok |-> default]

sum_inl(m, x) == Ctor(m, 0, <<x>>)
sum_inr(m, x) == Ctor(m, 1, <<x>>)
sum_getLeft(m, s) == IF Tag(m, s) # 0 THEN Failure(m) ELSE Field(m, s, 1)
sum_getRight(m, s) == IF Tag(m, s) = 0 THEN Failure(m) ELSE Field(m, s, 1)
sum_swap(m, s) ==
  LET x == Field(m, s, 1)
      n == DecRef(x.mem, s)
  IN IF Tag(m, s) = 0 THEN sum_inr(n, x.out) ELSE sum_inl(n, x.out)

except_toRustResult(m, e) ==
  IF ~IsKind(m, e, "ctor") \/ m[e].kids = <<>> THEN Failure(m)
  ELSE IF Tag(m, e) = 0 THEN sum_getLeft(m, e) ELSE sum_getRight(m, e)

prod_mk(m, x, y) == Ctor(m, 0, <<x, y>>)
prod_fst(m, p) == Field(m, p, 1)
prod_snd(m, p) == Field(m, p, 2)
prod_swap(m, p) ==
  LET x == prod_fst(m, p)
      y == prod_snd(x.mem, p)
      r == prod_mk(y.mem, y.out, x.out)
  IN Result(DecRef(r.mem, p), r.out)

-----------------------------------------------------------------------------
(* Arrays.                                                                 *)

array_empty(m) == Make(m, "array", 0, <<>>)
array_size(m, a) == Len(m[a].kids)

\* lean_ensure_exclusive_array: the copy of a shared array retains the elements.
Exclusive(m, a) ==
  IF m[a].rc = 1 THEN Result(m, a)
  ELSE LET r == Make(IncAll(m, m[a].kids), "array", 0, m[a].kids) IN Result(DecRef(r.mem, a), r.out)

array_push(m, a, x) ==
  LET r == Exclusive(m, a) IN Result([r.mem EXCEPT ![r.out].kids = Append(@, x)], r.out)
array_get(m, a, i) == IF i >= array_size(m, a) THEN Failure(m) ELSE Field(m, a, i + 1)
array_getD(m, a, i, default) == OrDefault(array_get(m, a, i), default)
array_back(m, a) == IF array_size(m, a) = 0 THEN Failure(m) ELSE array_get(m, a, array_size(m, a) - 1)

\* The errors of set, pop and swap drop the arguments.
array_set(m, a, i, x) ==
  IF i >= array_size(m, a) THEN Failure(DecRef(DecRef(m, x), a))
  ELSE LET r == Exclusive(m, a)
       IN Result([DecRef(r.mem, Kid(r.mem, r.out, i + 1)) EXCEPT ![r.out].kids[i + 1] = x], r.out)

\* Faulty variant: a shared array is updated in place.
array_pop_shared(m, a) ==
  LET s == m[a].kids
  IN IF s = <<>> THEN Failure(DecRef(m, a))
     ELSE Result([DecRef(m, Last(s)) EXCEPT ![a].kids = Front(s)], a)

array_pop(m, a) ==
  IF array_size(m, a) = 0 THEN Failure(DecRef(m, a))
  ELSE LET r == Exclusive(m, a)
           s == r.mem[r.out].kids
       IN Result([DecRef(r.mem, Last(s)) EXCEPT ![r.out].kids = Front(s)], r.out)

array_swap(m, a, i, j) ==
  IF i >= array_size(m, a) \/ j >= array_size(m, a) THEN Failure(DecRef(m, a))
  ELSE IF i = j THEN Result(m, a)
  ELSE LET r == Exclusive(m, a)
           s == r.mem[r.out].kids
       IN Result([r.mem EXCEPT ![r.out].kids = [s EXCEPT ![i + 1] = s[j + 1], ![j + 1] = s[i + 1]]], r.out)

\* lean_mk_array keeps n references of the one it is given.
array_replicate(m, n, x) ==
  Make(IF n = 0 THEN DecRef(m, x) ELSE IncAll(m, [i \in 1..n - 1 |-> x]), "array", 0, [i \in 1..n |-> x])

array_singleton(m, x) == LET r == array_empty(m) IN array_push(r.mem, r.out, x)
array_range(m, n) ==
  FoldLeft(LAMBDA r, i : array_push(r.mem, r.out, Box(i - 1)), array_empty(m), [i \in 1..n |-> i])

\* Elements first..last of a, retained, behind those of r; a is read anew each time.
PushFrom(a, first, last, r) ==
  FoldLeft(LAMBDA q, i : array_push(IncRef(q.mem, Kid(q.mem, a, i)), q.out, Kid(q.mem, a, i)),
           r, [k \in 1..last - first + 1 |-> first + k - 1])

MinOf(i, j) == IF i < j THEN i ELSE j
array_extract(m, a, start, end) ==
  PushFrom(a, MinOf(start, array_size(m, a)) + 1, MinOf(end, array_size(m, a)), array_empty(m))
array_take(m, a, n) == array_extract(m, a, 0, n)
array_drop(m, a, n) == array_extract(m, a, n, array_size(m, a))
array_append(m, xs, ys) == PushFrom(ys, 1, array_size(m, ys), Result(m, xs))

\* What visits the elements of a, by index, and then drops it.
PushAll(m, a, s, Element(_, _)) ==
  LET r == FoldLeft(LAMBDA q, x :
             IF ~q.ok THEN q
             ELSE LET e == Element(IncRef(q.mem, x), x)
                  IN IF e.how = "keep" THEN array_push(e.mem, q.out, e.out)
                     ELSE IF e.how = "skip" THEN [q EXCEPT !.mem = e.mem]
                     ELSE Failure(DecRef(e.mem, q.out)),
             array_empty(m), s)
  IN [r EXCEPT !.mem = DecRef(@, a)]

Keep(r) == [mem |-> r.mem, out |-> r.out, how |-> IF r.ok THEN "keep" ELSE "error"]
Skip(m) == [mem |-> m, out |-> 0, how |-> "skip"]

array_reverse(m, a) ==
  IF array_size(m, a) <= 1 THEN Result(m, a)
  ELSE PushAll(m, a, Reverse(m[a].kids), LAMBDA n, x : Keep(Result(n, x)))
array_filter(m, a) ==
  PushAll(m, a, m[a].kids, LAMBDA n, x : IF Accepts(n, x) THEN Keep(Result(n, x)) ELSE Skip(DecRef(n, x)))
array_map(m, a, f) == PushAll(m, a, m[a].kids, LAMBDA n, x : Keep(Call(f, n, x)))

array_zip(m, xs, ys) ==
  FoldLeft(LAMBDA r, i :
             LET x == Kid(r.mem, xs, i)
                 y == Kid(r.mem, ys, i)
                 pair == prod_mk(IncRef(IncRef(r.mem, x), y), x, y)
             IN array_push(pair.mem, r.out, pair.out),
           array_empty(m), [i \in 1..MinOf(array_size(m, xs), array_size(m, ys)) |-> i])

\* The inner arrays are taken and dropped, their elements pushed.
array_flatten(m, a) ==
  LET r == FoldLeft(LAMBDA q, inner :
                      LET p == PushFrom(inner, 1, array_size(q.mem, inner),
                                        Result(IncRef(q.mem, inner), q.out))
                      IN Result(DecRef(p.mem, inner), p.out),
                    array_empty(m), m[a].kids)
  IN Result(DecRef(r.mem, a), r.out)

\* The first element that a test accepts; the others are taken and dropped.
array_search(m, a, Test(_, _)) ==
  FoldLeft(LAMBDA r, x : IF r.ok THEN r
                         ELSE IF Test(IncRef(r.mem, x), x) THEN Result(IncRef(r.mem, x), x)
                         ELSE Failure(DecRef(IncRef(r.mem, x), x)),
           Failure(m), m[a].kids)
array_find(m, a) == array_search(m, a, Accepts)
array_contains(m, a, x) == Found(array_search(m, a, LAMBDA n, y : SameValue(n, y, x)))
array_any(m, a) == Found(array_search(m, a, Accepts))
array_all(m, a) ==
  LET r == Found(array_search(m, a, LAMBDA n, x : ~Accepts(n, x))) IN [r EXCEPT !.ok = ~@]

\* The folds of a function that keeps the last element it is given.
array_fold(m, s) ==
  FoldLeft(LAMBDA r, x : Result(IncRef(DecRef(r.mem, r.out), x), x), Result(m, Box(0)), s)
array_foldl(m, a) == array_fold(m, m[a].kids)
array_foldr(m, a) == array_fold(m, Reverse(m[a].kids))

array_isPrefixOf(m, xs, ys) ==
  /\ array_size(m, xs) <= array_size(m, ys)
  /\ \A i \in 1..array_size(m, xs) : SameValue(m, Kid(m, xs, i), Kid(m, ys, i))

\* Arrays of lists and lists of arrays are Lean's own code.
array_mk(m, l) ==
  LET heads == [i \in DOMAIN Spine(m, l) |-> Kid(m, Spine(m, l)[i], 1)]
      r == Make(IncAll(m, heads), "array", 0, heads)
  IN Result(DecRef(r.mem, l), r.out)
array_toList(m, a) ==
  LET r == Rebuild(IncAll(m, m[a].kids), m[a].kids, Box(0)) IN Result(DecRef(r.mem, a), r.out)

-----------------------------------------------------------------------------
(* Closures: the tag is the arity, the kids are the captured arguments.    *)

\* from_raw_fn, with_captured: the arguments of a refused call are dropped.
closure_with_captured(m, arity, captured) ==
  IF arity = 0 \/ Len(captured) >= arity THEN Failure(DecAll(m, captured))
  ELSE Make(m, "closure", arity, captured)

remaining_arity(m, c) == m[c].tag - Len(m[c].kids)
closure_get_captured(m, c, i) == IF i >= Len(m[c].kids) THEN Failure(m) ELSE Field(m, c, i + 1)

\* lean_apply_n: consumes the closure and the arguments.  Saturated, it runs the
\* function, which owns its arguments, returns the first and drops the others.
lean_apply(m, c, args) ==
  LET all == m[c].kids \o args
      n == DecRef(IncAll(m, m[c].kids), c)
  IN IF Len(all) < m[c].tag THEN Make(n, "closure", m[c].tag, all)
     ELSE Result(DecAll(n, Tail(all)), Head(all))

\* apply, apply2, ..., apply_n leave the closure usable; the _once variants do not.
closure_apply(m, c, args) == lean_apply(IncRef(m, c), c, args)
closure_apply_once(m, c, args) == lean_apply(m, c, args)

-----------------------------------------------------------------------------
(* Thunks.                                                                 *)

thunk_new(m, c) == Make(m, "thunk", 0, <<c>>)
thunk_pure(m, x) == Make(m, "thunk", 1, <<x>>)

\* lean_thunk_get: the first time, the closure is taken out and applied to unit.
Force(m, t) ==
  IF Tag(m, t) = 1 THEN m
  ELSE LET r == lean_apply([m EXCEPT ![t].kids = <<>>], Kid(m, t, 1), <<Box(0)>>)
       IN [r.mem EXCEPT ![t].tag = 1, ![t].kids = <<r.out>>]

thunk_get_cloned(m, t) == Field(Force(m, t), t, 1)
thunk_get_owned(m, t) == LET r == thunk_get_cloned(m, t) IN Result(DecRef(r.mem, t), r.out)

\* map and bind force the thunk at once.
thunk_bind(m, t, F(_, _)) == LET r == thunk_get_owned(m, t) IN F(r.mem, r.out)
thunk_map(m, t, f) ==
  thunk_bind(m, t, LAMBDA n, x : LET r == Call(f, n, x) IN thunk_pure(r.mem, r.out))

\* try_from_any of thunks and closures: what is not one is dropped.
try_from_any(m, p, kind) == IF IsKind(m, p, kind) THEN Result(m, p) ELSE Failure(DecRef(m, p))

-----------------------------------------------------------------------------
(* Conversions.  A type is [sort, of, len]; longer tuples are pairs of an  *)
(* element and a tuple, in Rust's implementation as well.                  *)

SeqsUpTo(S, n) == UNION {[1..k -> S] : k \in 0..n}

RECURSIVE ValuesOf(_)
ValuesOf(type) ==
  LET value(tags, vals) == [tag : tags, vals : vals]
      parts(i) == ValuesOf(type.of[i])
  IN CASE type.sort = "scalar" -> value({0, 1}, {<<>>})
       [] type.sort = "leaf"   -> value(Leaves, {<<>>})
       [] type.sort = "vec"    -> value({0}, SeqsUpTo(parts(1), MaxElements))
       [] type.sort = "fixed"  -> value({0}, [1..type.len -> parts(1)])
       [] type.sort = "option" -> value({0}, {<<>>}) \cup value({1}, [1..1 -> parts(1)])
       [] type.sort = "result" -> UNION {value({tag}, [1..1 -> parts(tag + 1)]) : tag \in {0, 1}}
       [] type.sort = "pair"   -> value({0}, {<<x, y>> : x \in parts(1), y \in parts(2)})

Arrays == {"vec", "fixed"}
Variants == {"option", "result"}

\* Converted parts wait in Rust for the others, and are dropped if one fails.
RECURSIVE into_lean(_, _, _)

\* Faulty variant: the array is not dropped when an element fails.
elements_into_lean_undropped(m, type, v) ==
  LET Add(r, x) ==
        LET e == into_lean(r.mem, type.of[1], x)
        IN IF ~r.ok THEN r ELSE IF e.ok THEN array_push(e.mem, r.out, e.out) ELSE e
  IN FoldLeft(Add, array_empty(m), v.vals)

elements_into_lean(m, type, v) ==
  LET Add(r, x) ==
        LET e == into_lean(r.mem, type.of[1], x)
        IN IF ~r.ok THEN r
           ELSE IF e.ok THEN array_push(e.mem, r.out, e.out) ELSE Failure(DecRef(e.mem, r.out))
  IN FoldLeft(Add, array_empty(m), v.vals)

\* The tag of an option or a Result is that of the object; none is the scalar.
variant_into_lean(m, type, v) ==
  IF type.sort = "option" /\ v.tag = 0 THEN option_none(m)
  ELSE LET r == into_lean(m, type.of[IF type.sort = "option" THEN 1 ELSE v.tag + 1], v.vals[1])
       IN IF r.ok THEN Ctor(r.mem, v.tag, <<r.out>>) ELSE r

tuple_into_lean(m, type, v) ==
  LET a == into_lean(m, type.of[1], v.vals[1])
      b == into_lean(a.mem, type.of[2], v.vals[2])
  IN IF ~a.ok THEN a
     ELSE IF b.ok THEN prod_mk(b.mem, a.out, b.out) ELSE Failure(DecRef(b.mem, a.out))

into_lean(m, type, v) ==
  CASE type.sort = "scalar"   -> Result(m, Box(v.tag))
    [] type.sort = "leaf"     -> IF v.tag \in Refused THEN Failure(m) ELSE Make(m, "leaf", v.tag, <<>>)
    [] type.sort \in Arrays   -> elements_into_lean(m, type, v)
    [] type.sort \in Variants -> variant_into_lean(m, type, v)
    [] type.sort = "pair"     -> tuple_into_lean(m, type, v)

\* What is taken out of an object to be converted is dropped afterwards.
RECURSIVE from_lean(_, _, _)

Converted(type, r) ==
  LET e == from_lean(r.mem, type, r.out) IN [e EXCEPT !.mem = DecRef(@, r.out)]

\* The first error is returned.
elements_from_lean(m, type, a) ==
  LET Add(r, x) ==
        LET e == Converted(type.of[1], Result(IncRef(r.mem, x), x))
        IN IF ~r.ok THEN r
           ELSE IF e.ok THEN Result(e.mem, [r.out EXCEPT !.vals = Append(@, e.out)]) ELSE e
  IN IF type.sort = "fixed" /\ array_size(m, a) # type.len THEN Failure(m)
     ELSE FoldLeft(Add, Result(m, [tag |-> 0, vals |-> <<>>]), m[a].kids)

variant_from_lean(m, type, p) ==
  LET part == IF type.sort = "option" THEN option_get(m, p) ELSE except_toRustResult(m, p)
      r == Converted(type.of[IF type.sort = "option" THEN 1 ELSE Tag(m, p) + 1], part)
  IN IF type.sort = "option" /\ option_isNone(p) THEN Result(m, [tag |-> 0, vals |-> <<>>])
     ELSE IF part.ok /\ r.ok THEN Result(r.mem, [tag |-> Tag(m, p), vals |-> <<r.out>>])
     ELSE IF part.ok THEN r ELSE part

\* Both components are taken before the first is converted.
tuple_from_lean(m, type, p) ==
  LET x == prod_fst(m, p)
      y == prod_snd(x.mem, p)
      a == from_lean(y.mem, type.of[1], x.out)
      b == from_lean(a.mem, type.of[2], y.out)
      dropped(r) == DecAll(r.mem, <<y.out, x.out>>)
  IN IF ~a.ok THEN Failure(dropped(a))
     ELSE IF ~b.ok THEN Failure(dropped(b))
     ELSE Result(dropped(b), [tag |-> 0, vals |-> <<a.out, b.out>>])

from_lean(m, type, p) ==
  CASE type.sort = "scalar"   -> Result(m, [tag |-> -p, vals |-> <<>>])
    [] type.sort = "leaf"     -> IF Refuses(m, p) THEN Failure(m)
                                 ELSE Result(m, [tag |-> m[p].tag, vals |-> <<>>])
    [] type.sort \in Arrays   -> elements_from_lean(m, type, p)
    [] type.sort \in Variants -> variant_from_lean(m, type, p)
    [] type.sort = "pair"     -> tuple_from_lean(m, type, p)

-----------------------------------------------------------------------------
(* The program.  Its handles are of the types that its operations need.    *)

RECURSIVE IsList(_, _)
IsList(m, p) == p = Box(0) \/ (IsCtor(m, p, {1}, 2) /\ IsList(m, Kid(m, p, 2)))
IsOption(m, p) == p = Box(0) \/ IsCtor(m, p, {1}, 1)
IsSum(m, p) == IsCtor(m, p, {0, 1}, 1)
IsProd(m, p) == IsCtor(m, p, {0}, 2)
IsLeanArray(m, p) == IsKind(m, p, "array")
IsClosure(m, p) == IsKind(m, p, "closure")
IsThunk(m, p) == IsKind(m, p, "thunk")

Elements(m, p) ==
  IF IsScalar(p) THEN <<>>
  ELSE IF IsList(m, p) THEN [i \in DOMAIN Spine(m, p) |-> Kid(m, Spine(m, p)[i], 1)]
  ELSE m[p].kids

\* The elements of a container, and of the containers in it.
RECURSIVE Inside(_, _)
Inside(m, p) == FoldLeft(LAMBDA n, x : n + 1 + Inside(m, x), 0, Elements(m, p))

\* The bounds on what the program keeps.
Small(m, p) == Len(Elements(m, p)) <= MaxElements /\ Inside(m, p) <= MaxInside

ContainersInit ==
  /\ mem = [p \in Memory |-> FreeCell]
  /\ owned = <<>>
  /\ abandoned = <<>>

Held == DOMAIN owned
P(h) == owned[h]
Without(hs) == [h \in Held \ hs |-> owned[h]]

\* The handles hs are consumed; the result, if there is one, goes to slot g.
Consume(hs, g, r) ==
  /\ g \notin Held \ hs
  /\ r.ok => Small(r.mem, r.out)
  /\ mem' = r.mem
  /\ owned' = IF r.ok THEN Without(hs) @@ (g :> r.out) ELSE Without(hs)
  /\ UNCHANGED abandoned

Replace(h, results) == \E r \in results : Consume({h}, h, r)
Borrow(g, results) == \E r \in results : r.ok /\ Consume({}, g, r)
Indices == 0..MaxElements

CloneHandle(h, g) == Borrow(g, {Result(IncRef(mem, P(h)), P(h))})
Discard(h) == Replace(h, {Failure(DecRef(mem, P(h)))})

New(g) ==
  Borrow(g, {Make(mem, "leaf", v, <<>>) : v \in Leaves}
              \cup {list_nil(mem), option_none(mem), array_empty(mem), array_range(mem, 1)}
              \cup {closure_with_captured(mem, n, <<>>) : n \in {0, 2}})

Wrap(h) ==
  LET x == P(h)
  IN Replace(h, {option_some(mem, x), sum_inl(mem, x), thunk_pure(mem, x), list_singleton(mem, x),
                 array_singleton(mem, x), try_from_any(mem, x, "thunk"), try_from_any(mem, x, "closure")}
                  \cup {array_replicate(mem, n, x) : n \in Indices}
                  \cup {closure_with_captured(mem, n, <<x>>) : n \in 1..2})

UpdateList(h) ==
  LET l == P(h)
  IN IsList(mem, l) /\
     Replace(h, {list_reverse(mem, l), list_filter(mem, l), array_mk(mem, l)}
                 \cup UNION {{list_take(mem, l, n), list_drop(mem, l, n)} : n \in Indices})

MapList(h) ==
  /\ IsList(mem, P(h))
  /\ \E f \in Functions :
       LET r == list_map(mem, P(h), f)
       IN /\ abandoned = <<>> \/ r.lost = <<>>
          /\ mem' = r.mem
          /\ owned' = IF r.ok THEN [owned EXCEPT ![h] = r.out] ELSE Without({h})
          /\ abandoned' = abandoned \o r.lost

ReadList(h, g) ==
  LET l == P(h)
  IN IsList(mem, l) /\
     Borrow(g, {list_head(mem, l), list_tail(mem, l), list_headOpt(mem, l), list_tailOpt(mem, l),
                list_getLast(mem, l), list_find(mem, l), list_foldl(mem, l)}
                \cup {list_get(mem, l, i) : i \in Indices})

UpdateOption(h) ==
  LET o == P(h)
      ofOptions == option_isNone(o) \/ IsOption(mem, Kid(mem, o, 1))
  IN IsOption(mem, o) /\
     Replace(h, {option_filter(mem, o), option_toList(mem, o)}
                 \cup {option_map(mem, o, f) : f \in Functions}
                 \cup {option_join(mem, q) : q \in {r \in {o} : ofOptions}})

UpdateArray(h) ==
  LET a == P(h)
      ofArrays == \A i \in DOMAIN mem[a].kids : IsLeanArray(mem, mem[a].kids[i])
  IN IsLeanArray(mem, a) /\
     Replace(h, {array_pop(mem, a), array_reverse(mem, a), array_filter(mem, a), array_toList(mem, a)}
                 \cup {array_map(mem, a, f) : f \in Functions}
                 \cup {array_swap(mem, a, i, j) : i, j \in Indices}
                 \cup {array_flatten(mem, b) : b \in {c \in {a} : ofArrays}})

ReadArray(h, g) ==
  LET a == P(h)
  IN IsLeanArray(mem, a) /\
     Borrow(g, {array_back(mem, a), array_find(mem, a), array_foldl(mem, a), array_foldr(mem, a)}
                \cup {array_get(mem, a, i) : i \in Indices}
                \cup UNION {{array_take(mem, a, n), array_drop(mem, a, n)} : n \in Indices})

UpdateOther(h) ==
  LET p == P(h)
  IN \/ IsSum(mem, p) /\ Replace(h, {sum_swap(mem, p)})
     \/ IsProd(mem, p) /\ Replace(h, {prod_swap(mem, p)})
     \/ IsClosure(mem, p) /\ remaining_arity(mem, p) = 1 /\ Replace(h, {thunk_new(mem, p)})
     \/ IsThunk(mem, p) /\ Replace(h, {thunk_get_owned(mem, p)}
                                         \cup {thunk_map(mem, p, f) : f \in {"keep", "forget"}})

ReadOther(h, g) ==
  LET p == P(h)
  IN \/ IsOption(mem, p) /\ Borrow(g, {option_get(mem, p)})
     \/ IsSum(mem, p) /\ Borrow(g, {sum_getLeft(mem, p), sum_getRight(mem, p), except_toRustResult(mem, p)})
     \/ IsProd(mem, p) /\ Borrow(g, {prod_fst(mem, p), prod_snd(mem, p)})
     \/ IsClosure(mem, p) /\ Borrow(g, {closure_get_captured(mem, p, i) : i \in Indices})
     \/ IsThunk(mem, p) /\ Borrow(g, {thunk_get_cloned(mem, p)})

\* Two handles, of which the first keeps the result.
Combine(h, g) ==
  LET x == P(h)
      y == P(g)
      Both(results) == \E r \in results : Consume({h, g}, h, r)
  IN \/ Both({prod_mk(mem, x, y)})
     \/ IsList(mem, y) /\ Both({list_cons(mem, x, y)})
     \/ IsList(mem, x) /\ IsList(mem, y) /\ Both({list_append(mem, x, y)})
     \/ IsLeanArray(mem, x) /\ Both({array_push(mem, x, y)} \cup {array_set(mem, x, i, y) : i \in Indices})
     \/ IsOption(mem, x) /\ IsOption(mem, y)
          /\ Both({option_or(mem, x, y)} \cup {option_merge(mem, x, y, f) : f \in Functions})
     \/ IsClosure(mem, x) /\ Both({closure_apply_once(mem, x, <<y>>)})

\* The second is only borrowed, or the first is.
CombineKeeping(h, g) ==
  LET x == P(h)
      y == P(g)
  IN \/ IsLeanArray(mem, x) /\ IsLeanArray(mem, y) /\ Replace(h, {array_append(mem, x, y)})
     \/ IsClosure(mem, x) /\ Replace(g, {closure_apply(mem, x, <<y>>)})
     \/ IsOption(mem, x) /\ Replace(g, {option_getD(mem, x, y)})
     \/ IsList(mem, x) /\ Replace(g, {list_headD(mem, x, y)} \cup {list_getD(mem, x, i, y) : i \in Indices})
     \/ IsLeanArray(mem, x) /\ Replace(g, {array_getD(mem, x, i, y) : i \in Indices})

ZipArrays(h, g, k) ==
  Room(MaxElements + 1) /\ IsLeanArray(mem, P(h)) /\ IsLeanArray(mem, P(g)) /\ Borrow(k, {array_zip(mem, P(h), P(g))})

Convert(g) ==
  /\ Room(2 * MaxElements)
  /\ \E type \in RustTypes : \E v \in ValuesOf(type) : Borrow(g, {into_lean(mem, type, v)})

ContainersNext ==
  \/ \E h \in Held : Discard(h)
  \/ \E g \in Slots \ Held : Convert(g)
  \/ Room(MaxElements) /\
       \/ \E g \in Slots \ Held : New(g)
       \/ \E h \in Held, g \in Slots \ Held :
            CloneHandle(h, g) \/ ReadList(h, g) \/ ReadArray(h, g) \/ ReadOther(h, g)
       \/ \E h \in Held :
            \/ Wrap(h) \/ UpdateList(h) \/ MapList(h)
            \/ UpdateOption(h) \/ UpdateArray(h) \/ UpdateOther(h)
       \/ \E h \in Held : \E g \in Held \ {h} : Combine(h, g) \/ CombineKeeping(h, g)
       \/ \E h, g \in Held, k \in Slots \ Held : ZipArrays(h, g, k)

ContainersSpec == ContainersInit /\ [][ContainersNext]_containerVars

-----------------------------------------------------------------------------
(* Every object is referred to as often as its count says: by handles,     *)
(* by objects, and by what a failed map has abandoned; and what nothing    *)
(* refers to is free.  No operation gives back a reference that it does    *)
(* not own, or keeps one on any of its ways out.                           *)
Times(s, p) == Cardinality({i \in DOMAIN s : s[i] = p})

ReferencesMatch ==
  \A p \in Memory :
    LET handles == Cardinality({h \in Held : P(h) = p})
        kids == SumFunction([q \in Memory |-> Times(mem[q].kids, p)])
    IN mem[p].rc = handles + kids + Times(abandoned, p)

-----------------------------------------------------------------------------
(* What the operations promise, in terms of sequences of terms.            *)

BoxTerm(n) == [kind |-> "box", tag |-> n, kids |-> <<>>]
CtorTerm(tag, s) == [kind |-> "ctor", tag |-> tag, kids |-> s]
ArrayTerm(s) == [kind |-> "array", tag |-> 0, kids |-> s]
ThunkTerm(t) == [kind |-> "thunk", tag |-> 0, kids |-> <<t>>]
ListTerm(s) == FoldRight(LAMBDA x, l : CtorTerm(1, <<x, l>>), s, BoxTerm(0))
OptionTerm(s) == IF s = <<>> THEN BoxTerm(0) ELSE CtorTerm(1, <<Head(s)>>)

Value(p) == Term(mem, p)
Values(p) == [i \in DOMAIN Elements(mem, p) |-> Value(Elements(mem, p)[i])]
Accepted(t) == t.kind = "leaf" /\ t.tag \in Chosen
Blocked(f, s) == f = "check" /\ \E i \in DOMAIN s : s[i].kind = "leaf" /\ s[i].tag \in Refused
Mapped(f, s) == [i \in DOMAIN s |-> IF f = "forget" THEN BoxTerm(1) ELSE s[i]]
Prefix(s, n) == SubSeq(s, 1, MinOf(n, Len(s)))
Suffix(s, n) == SubSeq(s, n + 1, Len(s))
At(s, i) == IF i < Len(s) THEN <<s[i + 1]>> ELSE <<>>
Ends(s) == IF s = <<>> THEN <<>> ELSE <<Last(s)>>
SomeOf(s) == SelectSeq(s, Accepted)

\* r has the value in s, or fails if that is empty; handles not in hs keep their values.
Yields(hs, r, s) ==
  /\ r.ok = (s # <<>>)
  /\ s # <<>> => Term(r.mem, r.out) = Head(s)
  /\ \A g \in Held \ hs : Term(r.mem, P(g)) = Value(P(g))

Gives(hs, r, t) == Yields(hs, r, <<t>>)

\* r says whether b, and leaves everything as it was.
Tells(r, b) == r.mem = mem /\ r.ok = b

ListBehaves(h) ==
  LET l == P(h)
      s == Values(l)
  IN /\ LET r == list_length(mem, l) IN r.mem = mem /\ r.n = Len(s)
     /\ LET r == list_countP(mem, l) IN r.mem = mem /\ r.n = Len(SomeOf(s))
     /\ Tells(list_any(mem, l), SomeOf(s) # <<>>) /\ Tells(list_all(mem, l), SomeOf(s) = s)
     /\ Gives({h}, list_reverse(mem, l), ListTerm(Reverse(s)))
     /\ Gives({h}, list_filter(mem, l), ListTerm(SomeOf(s)))
     /\ Gives({h}, array_mk(mem, l), ArrayTerm(s))
     /\ Yields({}, list_head(mem, l), At(s, 0)) /\ Gives({}, list_headOpt(mem, l), OptionTerm(s))
     /\ Gives({}, list_tailOpt(mem, l), OptionTerm(IF s = <<>> THEN s ELSE <<ListTerm(Tail(s))>>))
     /\ Yields({}, list_getLast(mem, l), Ends(s))
     /\ Yields({}, list_find(mem, l), At(SomeOf(s), 0))
     /\ \A n \in Indices :
          /\ Yields({}, list_get(mem, l, n), At(s, n))
          /\ Gives({h}, list_take(mem, l, n), ListTerm(Prefix(s, n)))
          /\ Gives({h}, list_drop(mem, l, n), ListTerm(Suffix(s, n)))
     /\ \A f \in Functions :
          Yields({h}, list_map(mem, l, f), IF Blocked(f, s) THEN <<>> ELSE <<ListTerm(Mapped(f, s))>>)

ArrayBehaves(h) ==
  LET a == P(h)
      s == Values(a)
  IN /\ array_size(mem, a) = Len(s)
     /\ Tells(array_any(mem, a), SomeOf(s) # <<>>) /\ Tells(array_all(mem, a), SomeOf(s) = s)
     /\ Gives({h}, array_reverse(mem, a), ArrayTerm(Reverse(s)))
     /\ Gives({h}, array_filter(mem, a), ArrayTerm(SomeOf(s)))
     /\ Gives({h}, array_toList(mem, a), ListTerm(s))
     /\ Yields({h}, array_pop(mem, a), IF s = <<>> THEN <<>> ELSE <<ArrayTerm(Front(s))>>)
     /\ Yields({}, array_back(mem, a), Ends(s))
     /\ Yields({}, array_find(mem, a), At(SomeOf(s), 0))
     /\ \A n \in Indices :
          /\ Yields({}, array_get(mem, a, n), At(s, n))
          /\ Gives({}, array_take(mem, a, n), ArrayTerm(Prefix(s, n)))
          /\ Gives({}, array_drop(mem, a, n), ArrayTerm(Suffix(s, n)))
          /\ \A k \in Indices :
               Yields({h}, array_swap(mem, a, n, k),
                      IF n >= Len(s) \/ k >= Len(s) THEN <<>>
                      ELSE <<ArrayTerm([s EXCEPT ![n + 1] = s[k + 1], ![k + 1] = s[n + 1]])>>)
     /\ \A f \in Functions :
          Yields({h}, array_map(mem, a, f), IF Blocked(f, s) THEN <<>> ELSE <<ArrayTerm(Mapped(f, s))>>)
     /\ (\A i \in DOMAIN s : s[i].kind = "array") =>
          Gives({h}, array_flatten(mem, a), ArrayTerm(FlattenSeq([i \in DOMAIN s |-> s[i].kids])))

OptionBehaves(h) ==
  LET o == P(h)
      s == IF option_isNone(o) THEN <<>> ELSE Value(o).kids
  IN /\ Yields({}, option_get(mem, o), s)
     /\ Gives({h}, option_filter(mem, o), OptionTerm(SomeOf(s)))
     /\ Gives({h}, option_toList(mem, o), ListTerm(s))
     /\ Tells(option_test(mem, o, Accepts, FALSE), SomeOf(s) # <<>>)
     /\ Tells(option_test(mem, o, Accepts, TRUE), SomeOf(s) = s)
     /\ \A f \in Functions :
          Yields({h}, option_map(mem, o, f), IF Blocked(f, s) THEN <<>> ELSE <<OptionTerm(Mapped(f, s))>>)

OtherBehaves(h) ==
  LET p == P(h)
      t == Value(p)
  IN /\ IsSum(mem, p) => Gives({h}, sum_swap(mem, p), CtorTerm(1 - t.tag, t.kids))
     /\ IsProd(mem, p) => Gives({h}, prod_swap(mem, p), CtorTerm(0, Reverse(t.kids)))
     /\ IsClosure(mem, p) =>
          \A i \in Indices : Yields({}, closure_get_captured(mem, p, i), At(t.kids, i))
     /\ IsThunk(mem, p) =>
          /\ Gives({h}, thunk_get_owned(mem, p), t.kids[1])
          /\ Gives({}, thunk_get_cloned(mem, p), t.kids[1])
          /\ Gives({h}, thunk_map(mem, p, "forget"), ThunkTerm(BoxTerm(1)))

PairBehaves(h, g) ==
  LET x == P(h)
      y == P(g)
      s == Values(x)
      t == Values(y)
  IN /\ IsList(mem, x) =>
          /\ Gives({g}, list_headD(mem, x, y), Head(Append(s, Value(y))))
          /\ \A i \in Indices : Gives({g}, list_getD(mem, x, i, y), Head(Append(At(s, i), Value(y))))
          /\ Tells(list_contains(mem, x, y), Value(y) \in ToSet(s))
     /\ IsList(mem, x) /\ IsList(mem, y) => Gives({h, g}, list_append(mem, x, y), ListTerm(s \o t))
     /\ IsLeanArray(mem, x) =>
          /\ Gives({h, g}, array_push(mem, x, y), ArrayTerm(Append(s, Value(y))))
          /\ Tells(array_contains(mem, x, y), Value(y) \in ToSet(s))
          /\ \A i \in Indices :
               /\ Gives({g}, array_getD(mem, x, i, y), Head(Append(At(s, i), Value(y))))
               /\ Yields({h, g}, array_set(mem, x, i, y),
                         IF i >= Len(s) THEN <<>> ELSE <<ArrayTerm([s EXCEPT ![i + 1] = Value(y)])>>)
     /\ IsLeanArray(mem, x) /\ IsLeanArray(mem, y) =>
          /\ Gives({h}, array_append(mem, x, y), ArrayTerm(s \o t))
          /\ Gives({}, array_zip(mem, x, y),
                   ArrayTerm([i \in 1..MinOf(Len(s), Len(t)) |-> CtorTerm(0, <<s[i], t[i]>>)]))
          /\ array_isPrefixOf(mem, x, y) = IsPrefix(s, t)
     /\ IsClosure(mem, x) =>
          LET all == Append(Value(x).kids, Value(y))
              result == IF Len(all) < Tag(mem, x) THEN [Value(x) EXCEPT !.kids = all] ELSE Head(all)
          IN /\ Gives({g}, closure_apply(mem, x, <<y>>), result)
             /\ Gives({h, g}, closure_apply_once(mem, x, <<y>>), result)
     /\ IsOption(mem, x) =>
          Gives({g}, option_getD(mem, x, y), IF option_isNone(x) THEN Value(y) ELSE Value(x).kids[1])
     /\ IsOption(mem, x) /\ IsOption(mem, y) =>
          LET first == IF option_isNone(x) THEN Value(y) ELSE Value(x)
          IN Gives({h, g}, option_or(mem, x, y), first) /\ Gives({h, g}, option_merge(mem, x, y, "keep"), first)

\* Containers are values: an operation returns what the same operation on sequences
\* returns, or fails when that is undefined, and every other handle keeps what it
\* denotes, although lists share their tails and arrays are updated in place.
ContainersAreValues ==
  Room(MaxElements + 1) =>
    \A h \in Held :
      /\ IsList(mem, P(h)) => ListBehaves(h)
      /\ IsLeanArray(mem, P(h)) => ArrayBehaves(h)
      /\ IsOption(mem, P(h)) => OptionBehaves(h)
      /\ OtherBehaves(h)
      /\ \A g \in Held \ {h} : PairBehaves(h, g)

\* Whether a value has a part that conversions fail on.
RECURSIVE Refusing(_, _)
Refusing(type, v) ==
  IF type.sort = "leaf" THEN v.tag \in Refused
  ELSE \E i \in DOMAIN v.vals :
         Refusing(type.of[CASE type.sort = "result" -> v.tag + 1 [] type.sort = "pair" -> i [] OTHER -> 1],
                  v.vals[i])

\* Beside whatever the program holds: what goes into Lean comes back the same, and
\* dropping it leaves no trace; a conversion that fails at some part, in either
\* direction, leaves none either.
ConversionsRoundTrip ==
  Held # {} /\ Room(2 * MaxElements) =>
    /\ \A type \in RustTypes : \A v \in ValuesOf(type) :
         LET there == into_lean(mem, type, v)
             back == from_lean(there.mem, type, there.out)
         IN IF Refusing(type, v) THEN Tells(there, FALSE)
            ELSE /\ there.ok /\ back.ok /\ back.out = v
                 /\ back.mem = there.mem /\ DecRef(there.mem, there.out) = mem
    /\ \A h \in Held : IsLeanArray(mem, P(h)) /\ (\A x \in ToSet(mem[P(h)].kids) : IsKind(mem, x, "leaf")) =>
         \A type \in {t \in RustTypes : t.sort \in {"vec", "fixed"} /\ t.of[1].sort = "leaf"} :
           Tells(from_lean(mem, type, P(h)),
                 /\ \A x \in ToSet(mem[P(h)].kids) : ~Refuses(mem, x)
                 /\ type.sort = "fixed" => array_size(mem, P(h)) = type.len)
=============================================================================
