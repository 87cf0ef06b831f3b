-------------------------- MODULE LeanObjectsProofs -------------------------
(***************************************************************************)
(* Theorems about LeanObjects for any number of objects, handles and       *)
(* threads and arrays of any length: the reference counts are exact, every *)
(* payload ends once, what is counted without atomics is within reach of   *)
(* one thread, and handles behave like values (LeanObjects implements      *)
(* PureValues).                                                            *)
(*                                                                         *)
(* An operation releases, retains and copies, and in between the counts do *)
(* not match the handles: it holds references of its own.  So exactness is *)
(* stated of a heap and of the references that are held from outside of    *)
(* it, and each primitive of leo3-ffi moves one reference; an operation    *)
(* chains primitives until what is held is again what the handles hold.    *)
(***************************************************************************)
EXTENDS LeanObjects, FiniteSetTheorems, SequenceTheorems, TLAPS

-----------------------------------------------------------------------------
(* How often something occurs in a function, a sequence or an array.       *)

One(x, y) == IF x = y THEN 1 ELSE 0

\* Occurrences in a function with a finite domain are numbers.
LEMMA OccurrencesType ==
  ASSUME NEW f, IsFiniteSet(DOMAIN f), NEW o
  PROVE  /\ IsFiniteSet({i \in DOMAIN f : f[i] = o})
         /\ Occurrences(f, o) \in Nat
         /\ \A i \in DOMAIN f : f[i] = o => Occurrences(f, o) > 0
         /\ (\A i \in DOMAIN f : f[i] # o) => Occurrences(f, o) = 0
<1> DEFINE S == {i \in DOMAIN f : f[i] = o}
<1>1. IsFiniteSet(S)
  BY FS_Subset
<1>2. Cardinality(S) \in Nat /\ (Cardinality(S) = 0 <=> S = {})
  BY <1>1, FS_CardinalityType, FS_EmptySet
<1> QED
  BY <1>1, <1>2 DEF Occurrences

\* An update takes one occurrence away and adds one.
LEMMA OccurrencesUpdate ==
  ASSUME NEW f, IsFiniteSet(DOMAIN f), NEW j \in DOMAIN f, NEW v, NEW g, NEW o,
         DOMAIN g = DOMAIN f, g[j] = v, \A i \in DOMAIN f \ {j} : g[i] = f[i]
  PROVE  Occurrences(g, o) = Occurrences(f, o) - One(f[j], o) + One(v, o)
<1> DEFINE S == {i \in DOMAIN f : f[i] = o}
           T == {i \in DOMAIN g : g[i] = o}
           R == {i \in DOMAIN f \ {j} : f[i] = o}
<1>1. IsFiniteSet(S) /\ IsFiniteSet(R)
  BY FS_Subset
<1>2. Cardinality(R) \in Nat
  BY <1>1, FS_CardinalityType
<1>3. j \notin R
  OBVIOUS
<1>4. Cardinality(R \cup {j}) = Cardinality(R) + 1
  <2> HIDE DEF R
  <2> QED
    BY <1>1, <1>3, FS_AddElement
<1>5. Cardinality(S) = Cardinality(R) + One(f[j], o)
  <2>1. CASE f[j] = o
    <3>1. S = R \cup {j}
      BY <2>1
    <3> QED
      BY <1>4, <2>1, <3>1 DEF One
  <2>2. CASE f[j] # o
    <3>1. S = R
      BY <2>2
    <3> QED
      BY <1>2, <2>2, <3>1 DEF One
  <2> QED
    BY <2>1, <2>2
<1>6. Cardinality(T) = Cardinality(R) + One(v, o)
  <2>1. CASE v = o
    <3>1. T = R \cup {j}
      BY <2>1
    <3> QED
      BY <1>4, <2>1, <3>1 DEF One
  <2>2. CASE v # o
    <3>1. T = R
      BY <2>2
    <3> QED
      BY <1>2, <2>2, <3>1 DEF One
  <2> QED
    BY <2>1, <2>2
<1>7. Occurrences(f, o) = Cardinality(S) /\ Occurrences(g, o) = Cardinality(T)
  BY DEF Occurrences
<1>8. One(f[j], o) \in Nat /\ One(v, o) \in Nat
  BY DEF One
<1> HIDE DEF S, T, R
<1> QED
  BY <1>2, <1>5, <1>6, <1>7, <1>8

\* Sequences have finite domains.
LEMMA SequenceIsFinite ==
  ASSUME NEW s \in Seq(Objects)
  PROVE  /\ IsFiniteSet(DOMAIN s) /\ DOMAIN s = 1 .. Len(s) /\ Len(s) \in Nat
         /\ \A i \in DOMAIN s : s[i] \in Objects
<1>1. DOMAIN s = 1 .. Len(s) /\ Len(s) \in Nat
  OBVIOUS
<1>2. IsFiniteSet(1 .. Len(s))
  <2>1. 1 \in Int /\ Len(s) \in Int
    BY <1>1
  <2> QED
    BY <2>1, FS_Interval
<1> QED
  BY <1>1, <1>2

\* What occurs in a longer, a shorter and a changed array.
LEMMA OccurrencesInArrays ==
  ASSUME NEW s \in Seq(Objects), NEW o
  PROVE  /\ Occurrences(<<>>, o) = 0
         /\ \A x \in Objects : Occurrences(Append(s, x), o) = Occurrences(s, o) + One(x, o)
         /\ s # <<>> => Occurrences(SubSeq(s, 1, Len(s) - 1), o)
                          = Occurrences(s, o) - One(s[Len(s)], o)
<1>1. Occurrences(<<>>, o) = 0
  <2>1. {i \in DOMAIN <<>> : <<>>[i] = o} = {}
    OBVIOUS
  <2> QED
    BY <2>1, FS_EmptySet DEF Occurrences
<1>2. ASSUME NEW t \in Seq(Objects), NEW u \in Seq(Objects), NEW x \in Objects,
             Len(u) = Len(t) + 1, u[Len(u)] = x, \A i \in 1 .. Len(t) : u[i] = t[i]
      PROVE  Occurrences(u, o) = Occurrences(t, o) + One(x, o)
  <2> DEFINE S == {i \in DOMAIN t : t[i] = o}
             T == {i \in DOMAIN u : u[i] = o}
             n == Len(u)
  <2>1. IsFiniteSet(S) /\ Cardinality(S) \in Nat
    BY SequenceIsFinite, OccurrencesType DEF Occurrences
  <2>2. /\ DOMAIN t = 1 .. Len(t) /\ Len(t) \in Nat /\ DOMAIN u = 1 .. Len(t) + 1
        /\ n = Len(t) + 1
    BY <1>2
  <2>3. n \notin S /\ Occurrences(u, o) = Cardinality(T) /\ Occurrences(t, o) = Cardinality(S)
    BY <2>2 DEF Occurrences
  <2>4. CASE x = o
    <3>1. T = S \cup {n}
      BY <1>2, <2>2, <2>4
    <3>2. Cardinality(S \cup {n}) = Cardinality(S) + 1
      <4> HIDE DEF S, n
      <4> QED
        BY <2>1, <2>3, FS_AddElement
    <3>3. One(x, o) = 1
      BY <2>4 DEF One
    <3> HIDE DEF S, T, n
    <3> QED
      BY <2>3, <3>1, <3>2, <3>3
  <2>5. CASE x # o
    <3>1. T = S
      BY <1>2, <2>2, <2>5
    <3>2. One(x, o) = 0
      BY <2>5 DEF One
    <3> HIDE DEF S, T
    <3> QED
      BY <2>1, <2>3, <3>1, <3>2
  <2> QED
    BY <2>4, <2>5
<1>3. ASSUME NEW x \in Objects
      PROVE  Occurrences(Append(s, x), o) = Occurrences(s, o) + One(x, o)
  <2> DEFINE u == Append(s, x)
  <2>1. /\ u \in Seq(Objects) /\ Len(u) = Len(s) + 1 /\ u[Len(u)] = x
        /\ \A i \in 1 .. Len(s) : u[i] = s[i]
    OBVIOUS
  <2> HIDE DEF u
  <2>2. Occurrences(u, o) = Occurrences(s, o) + One(x, o)
    BY <1>2, <2>1
  <2> QED
    BY <2>2 DEF u
<1>4. ASSUME s # <<>>
      PROVE  Occurrences(SubSeq(s, 1, Len(s) - 1), o) = Occurrences(s, o) - One(s[Len(s)], o)
  <2> DEFINE t == SubSeq(s, 1, Len(s) - 1)
  <2>1. Len(s) \in Nat /\ Len(s) >= 1
    BY <1>4
  <2>2. /\ t \in Seq(Objects) /\ Len(s) = Len(t) + 1 /\ s[Len(s)] \in Objects
        /\ \A i \in 1 .. Len(t) : s[i] = t[i]
    <3>1. t \in Seq(Objects)
      BY <2>1
    <3>2. Len(t) = Len(s) - 1
      <4>1. \A n \in Nat : n <= Len(s) => Len(SubSeq(s, 1, n)) = n
        BY <2>1
      <4>2. Len(s) - 1 \in Nat /\ Len(s) - 1 <= Len(s)
        BY <2>1
      <4> QED
        BY <4>1, <4>2, Zenon
    <3>3. \A i \in 1 .. Len(s) - 1 : t[i] = s[i]
      BY <2>1
    <3> QED
      BY <2>1, <3>1, <3>2, <3>3
  <2> HIDE DEF t
  <2>3. Occurrences(s, o) = Occurrences(t, o) + One(s[Len(s)], o)
    BY <1>2, <2>2
  <2>4. Occurrences(t, o) \in Nat /\ One(s[Len(s)], o) \in Nat
    BY <2>2, SequenceIsFinite, OccurrencesType DEF One
  <2>5. Occurrences(t, o) = Occurrences(s, o) - One(s[Len(s)], o)
    BY <2>3, <2>4
  <2> QED
    BY <2>5 DEF t
<1> QED
  BY <1>1, <1>3, <1>4


-----------------------------------------------------------------------------
(* Heaps.                                                                  *)

\* The number of references that a count stands for.
Size(c) == IF c.rc < 0 THEN -c.rc ELSE c.rc

\* A cell, spelled out.
IsCell(c) ==
  /\ c = [kind |-> c.kind, rc |-> c.rc, val |-> c.val, kids |-> c.kids]
  /\ c.kind \in {"fresh", "freed", "external", "array"}
  /\ c.rc \in Int
  /\ c.val \in Payloads \cup {Null}
  /\ c.kids \in Seq(Objects)
  /\ c.kind \in {"fresh", "freed"} <=> c.rc = 0
  /\ c.kind # "array" => c.kids = <<>>
  /\ c.kind # "external" => c.val = Null

\* The places of o in arrays
Places(hp, o) ==
  {p \in Objects \X (1..MaxLen) : p[2] \in DOMAIN hp[p[1]].kids /\ hp[p[1]].kids[p[2]] = o}

Inside(hp, o) == Cardinality(Places(hp, o))

IsHeap(hp) ==
  /\ hp = [x \in Objects |-> hp[x]]
  /\ \A x \in Objects : IsCell(hp[x]) /\ Len(hp[x].kids) <= MaxLen

\* No other array but r changes.
OnlyArray(r, hp, hq) == \A x \in Objects \ {r} : hq[x].kids = hp[x].kids

\* The elements s gave up their places, and the elements t took some.
Traded(s, t, hp, hq) ==
  \A o \in Objects :
    /\ Inside(hp, o) \in Nat /\ Inside(hq, o) \in Nat
    /\ Occurrences(s, o) \in Nat /\ Occurrences(t, o) \in Nat
    /\ Inside(hq, o) = Inside(hp, o) - Occurrences(s, o) + Occurrences(t, o)

\* Cell r became c.
Replaced(r, c, hp, hq) ==
  /\ IsHeap(hq) /\ hq[r] = c /\ \A x \in Objects \ {r} : hq[x] = hp[x]
  /\ Traded(hp[r].kids, c.kids, hp, hq)

\* Arrays hold externals.
Flat(hp) == \A a \in Objects : \A i \in DOMAIN hp[a].kids : hp[hp[a].kids[i]].kind = "external"

\* IsCell is the type of cells.
LEMMA CellsAreCells ==
  ASSUME NEW c
  PROVE  c \in Cells <=> IsCell(c)
<1>0. <<>> \in Seq(Objects)
  OBVIOUS
<1>1. ASSUME c \in Cells PROVE IsCell(c)
  <2>1. CASE c \in {Fresh, Freed}
    <3>1. PICK k \in {"fresh", "freed"} : c = [kind |-> k, rc |-> 0, val |-> Null, kids |-> <<>>]
      BY <2>1 DEF Fresh, Freed
    <3>2. c.kind = k /\ c.rc = 0 /\ c.val = Null /\ c.kids = <<>>
      BY <3>1
    <3> QED
      BY <1>0, <3>1, <3>2 DEF IsCell
  <2>2. CASE c \in ExternalCells
    BY <1>0, <2>2 DEF IsCell, ExternalCells
  <2>3. CASE c \in ArrayCells
    BY <2>3 DEF IsCell, ArrayCells
  <2> QED
    BY <1>1, <2>1, <2>2, <2>3 DEF Cells
<1>2. ASSUME IsCell(c) PROVE c \in Cells
  <2>1. CASE c.kind \in {"fresh", "freed"}
    BY <1>2, <2>1 DEF Cells, IsCell, Fresh, Freed
  <2>2. CASE c.kind = "external"
    <3>1. c.rc \in Int \ {0} /\ c.kids \in {<<>>} /\ c.val \in Payloads \cup {Null}
      BY <1>2, <2>2 DEF IsCell
    <3> QED
      BY <1>2, <2>2, <3>1 DEF Cells, ExternalCells, IsCell
  <2>3. CASE c.kind = "array"
    <3>1. c.rc \in Int \ {0} /\ c.val \in {Null} /\ c.kids \in Seq(Objects)
      BY <1>2, <2>3 DEF IsCell
    <3> QED
      BY <1>2, <2>3, <3>1 DEF Cells, ArrayCells, IsCell
  <2> QED
    BY <1>2, <2>1, <2>2, <2>3 DEF IsCell
<1> QED
  BY <1>1, <1>2

\* The places of o in one array, and in the others
LEMMA PlacesSplit ==
  ASSUME NEW hp, IsHeap(hp), NEW r \in Objects, NEW o
  PROVE  LET Rest == {p \in Places(hp, o) : p[1] # r}
         IN /\ Inside(hp, o) \in Nat /\ Cardinality(Rest) \in Nat
            /\ Occurrences(hp[r].kids, o) \in Nat
            /\ Occurrences(hp[r].kids, o) <= Inside(hp, o)
            /\ Inside(hp, o) = Cardinality(Rest) + Occurrences(hp[r].kids, o)
<1> DEFINE Rest == {p \in Places(hp, o) : p[1] # r}
           Here == {p \in Places(hp, o) : p[1] = r}
           S == {i \in DOMAIN hp[r].kids : hp[r].kids[i] = o}
           f == [i \in S |-> <<r, i>>]
<1>1. IsFiniteSet(Places(hp, o))
  <2>1. IsFiniteSet(1 .. MaxLen)
    <3>1. 1 \in Int /\ MaxLen \in Int
      BY LeanObjectsAssumption
    <3> QED
      BY <3>1, FS_Interval
  <2>2. IsFiniteSet(Objects \X (1 .. MaxLen))
    BY <2>1, LeanObjectsAssumption, FS_Product
  <2> QED
    BY <2>2, FS_Subset DEF Places
<1>2. /\ IsFiniteSet(Rest) /\ Cardinality(Rest) \in Nat
      /\ IsFiniteSet(Here) /\ Cardinality(Here) \in Nat
      /\ Inside(hp, o) \in Nat
  BY <1>1, FS_Subset, FS_CardinalityType DEF Inside
<1>3. hp[r].kids \in Seq(Objects) /\ Len(hp[r].kids) <= MaxLen
  BY DEF IsHeap, IsCell
<1>4. /\ IsFiniteSet(S) /\ Cardinality(S) = Occurrences(hp[r].kids, o)
      /\ Occurrences(hp[r].kids, o) \in Nat
  BY <1>3, SequenceIsFinite, OccurrencesType DEF Occurrences
<1>5. Cardinality(Here) = Cardinality(S)
  <2>1. S \subseteq 1 .. MaxLen
    <3>1. DOMAIN hp[r].kids = 1 .. Len(hp[r].kids) /\ Len(hp[r].kids) \in Nat /\ MaxLen \in Nat
      BY <1>3, SequenceIsFinite, LeanObjectsAssumption
    <3> QED
      BY <1>3, <3>1
  <2>2. \A i \in S : <<r, i>> \in Here
    BY <2>1 DEF Places
  <2>3. \A p \in Here : p[2] \in S /\ p = <<r, p[2]>>
    BY DEF Places
  <2>4. f \in Bijection(S, Here)
    <3>1. f \in [S -> Here]
      BY <2>2
    <3>2. \A i, j \in S : f[i] = f[j] => i = j
      OBVIOUS
    <3>3. \A p \in Here : \E i \in S : f[i] = p
      BY <2>3
    <3> HIDE DEF f, S, Here
    <3> QED
      BY <3>1, <3>2, <3>3 DEF Bijection, Injection, IsInjective, Surjection
  <2>5. ExistsBijection(S, Here)
    BY <2>4 DEF ExistsBijection
  <2> HIDE DEF f, S, Here
  <2> QED
    BY <1>4, <2>5, FS_Bijection
<1>6. Cardinality(Places(hp, o)) = Cardinality(Rest) + Cardinality(Here)
  <2>1. Places(hp, o) = Rest \cup Here /\ Rest \cap Here = {}
    OBVIOUS
  <2> HIDE DEF Rest, Here
  <2>2. Cardinality(Rest \cup Here)
          = Cardinality(Rest) + Cardinality(Here) - Cardinality(Rest \cap Here)
    BY <1>2, FS_Union
  <2>3. Cardinality(Rest \cap Here) = 0
    BY <2>1, FS_EmptySet
  <2> QED
    BY <1>2, <2>1, <2>2, <2>3
<1> HIDE DEF S
<1> QED
  BY <1>2, <1>4, <1>5, <1>6 DEF Inside

\* When one array changes, so do the places of what it held and of what it holds.
LEMMA PlacesChange ==
  ASSUME NEW hp, IsHeap(hp), NEW hq, IsHeap(hq), NEW r \in Objects, OnlyArray(r, hp, hq)
  PROVE  Traded(hp[r].kids, hq[r].kids, hp, hq)
<1> SUFFICES ASSUME NEW o \in Objects
             PROVE  /\ Inside(hp, o) \in Nat /\ Inside(hq, o) \in Nat
                    /\ Occurrences(hp[r].kids, o) \in Nat /\ Occurrences(hq[r].kids, o) \in Nat
                    /\ Inside(hq, o)
                         = Inside(hp, o) - Occurrences(hp[r].kids, o) + Occurrences(hq[r].kids, o)
  BY DEF Traded
<1> DEFINE Rest(h) == {p \in Places(h, o) : p[1] # r}
<1>1. /\ Inside(hp, o) \in Nat /\ Cardinality(Rest(hp)) \in Nat
      /\ Occurrences(hp[r].kids, o) \in Nat
      /\ Inside(hp, o) = Cardinality(Rest(hp)) + Occurrences(hp[r].kids, o)
  BY PlacesSplit
<1>2. /\ Inside(hq, o) \in Nat /\ Cardinality(Rest(hq)) \in Nat
      /\ Occurrences(hq[r].kids, o) \in Nat
      /\ Inside(hq, o) = Cardinality(Rest(hq)) + Occurrences(hq[r].kids, o)
  BY PlacesSplit
<1>3. Rest(hp) = Rest(hq)
  BY DEF Places, OnlyArray
<1> HIDE DEF Rest
<1> QED
  BY <1>1, <1>2, <1>3

\* When none does, none do.
LEMMA PlacesSame ==
  ASSUME NEW hp, IsHeap(hp), NEW hq, \A x \in Objects : hq[x].kids = hp[x].kids, NEW o
  PROVE  Inside(hq, o) = Inside(hp, o)
<1>1. Places(hq, o) = Places(hp, o)
  BY DEF Places
<1> QED
  BY <1>1 DEF Inside

\* What is in an array has a place.
LEMMA PlacesPositive ==
  ASSUME NEW hp, IsHeap(hp), NEW a \in Objects, NEW i \in DOMAIN hp[a].kids
  PROVE  Inside(hp, hp[a].kids[i]) >= 1
<1> DEFINE o == hp[a].kids[i]
<1>1. Occurrences(hp[a].kids, o) \in Nat /\ Occurrences(hp[a].kids, o) <= Inside(hp, o)
  BY PlacesSplit
<1>2. Occurrences(hp[a].kids, o) > 0
  BY SequenceIsFinite, OccurrencesType DEF IsHeap, IsCell
<1>3. Inside(hp, o) \in Nat
  BY PlacesSplit
<1> HIDE DEF o
<1>4. Inside(hp, o) >= 1
  BY <1>1, <1>2, <1>3
<1> QED
  BY <1>4 DEF o


-----------------------------------------------------------------------------
(* The primitives of leo3-ffi, on a heap whose objects are held w[o] times *)
(* from outside of it.                                                     *)

Exact(hp, w) ==
  /\ IsHeap(hp) /\ Flat(hp)
  /\ w \in [Objects -> Nat]
  /\ \A o \in Objects : Size(hp[o]) = w[o] + Inside(hp, o)

More(w, o) == [w EXCEPT ![o] = @ + 1]
Less(w, o) == [w EXCEPT ![o] = @ - 1]

\* What is the same of a cell while its count goes up and down
SameCell(c, d) ==
  d.kind = c.kind /\ d.val = c.val /\ d.kids = c.kids /\ (d.rc < 0 <=> c.rc < 0) /\ d.rc # 0

\* Nothing happens to an allocated cell but that its count changes, or that it is freed.
Fades(c, d) == d = c \/ (c.rc # 0 /\ (SameCell(c, d) \/ d = Freed))

Wanes(hp, hq) == \A x \in Objects : Fades(hp[x], hq[x])

\* lean_inc_n adds to the count, whichever kind it is.
LEMMA IncEffect ==
  ASSUME NEW c, IsCell(c), c.rc # 0, NEW n \in Nat
  PROVE  IsCell(Inc(c, n)) /\ SameCell(c, Inc(c, n)) /\ Size(Inc(c, n)) = Size(c) + n
<1> DEFINE d == Inc(c, n)
           i == IF c.rc > 0 THEN c.rc + n ELSE c.rc - n
<1>1. d = [kind |-> c.kind, rc |-> i, val |-> c.val, kids |-> c.kids]
  BY DEF Inc, IsCell
<1>2. i \in Int /\ i # 0 /\ (i < 0 <=> c.rc < 0)
  BY DEF IsCell
<1>3. (IF i < 0 THEN -i ELSE i) = Size(c) + n
  BY DEF IsCell, Size
<1> HIDE DEF i
<1>4. /\ d.kind = c.kind /\ d.rc = i /\ d.val = c.val /\ d.kids = c.kids
      /\ d = [kind |-> d.kind, rc |-> d.rc, val |-> d.val, kids |-> d.kids]
  BY <1>1
<1> HIDE DEF d
<1>5. IsCell(d)
  BY <1>2, <1>4 DEF IsCell
<1>6. SameCell(c, d)
  BY <1>2, <1>4 DEF SameCell
<1>7. Size(d) = Size(c) + n
  BY <1>3, <1>4 DEF Size
<1> QED
  BY <1>5, <1>6, <1>7 DEF d

\* Freed memory is a cell with nothing in it.
LEMMA FreedIsCell == IsCell(Freed) /\ Size(Freed) = 0 /\ Freed.kids = <<>> /\ Freed.rc = 0
<1>1. <<>> \in Seq(Objects)
  OBVIOUS
<1> QED
  BY <1>1 DEF Freed, IsCell, Size

\* lean_dec n times takes n from the count, and the last time frees the object.
LEMMA DecEffect ==
  ASSUME NEW c, IsCell(c), NEW n \in Nat, n <= Size(c)
  PROVE  /\ IsCell(Dec(c, n)) /\ Size(Dec(c, n)) = Size(c) - n
         /\ n = 0 => Dec(c, n) = c
         /\ n # 0 /\ n < Size(c) => SameCell(c, Dec(c, n))
         /\ n # 0 /\ n = Size(c) => Dec(c, n) = Freed
<1>1. CASE n = 0
  <2>1. Dec(c, n) = c
    BY <1>1 DEF Dec
  <2>2. Size(c) - 0 = Size(c)
    BY DEF IsCell, Size
  <2> QED
    BY <1>1, <2>1, <2>2
<1>2. CASE n # 0 /\ n = Size(c)
  <2>1. ~(c.rc > n) /\ ~(c.rc < -n)
    BY <1>2 DEF IsCell, Size
  <2>2. Dec(c, n) = Freed
    BY <1>2, <2>1 DEF Dec
  <2>3. Size(c) - n = 0
    BY <1>2
  <2> QED
    BY <1>2, <2>2, <2>3, FreedIsCell
<1>3. CASE n # 0 /\ n # Size(c)
  <2> DEFINE i == IF c.rc > n THEN c.rc - n ELSE c.rc + n
             d == [c EXCEPT !.rc = i]
  <2>1. n < Size(c) /\ c.rc \in Int
    BY <1>3 DEF IsCell, Size
  <2>2. c.rc > n \/ c.rc < -n
    BY <2>1 DEF Size
  <2>3. Dec(c, n) = d
    BY <1>3, <2>2 DEF Dec
  <2>4. i \in Int /\ i # 0 /\ (i < 0 <=> c.rc < 0)
    BY <2>1, <2>2
  <2>5. (IF i < 0 THEN -i ELSE i) = Size(c) - n
    BY <2>1, <2>2 DEF Size
  <2> HIDE DEF i
  <2>6. /\ d.kind = c.kind /\ d.rc = i /\ d.val = c.val /\ d.kids = c.kids
        /\ d = [kind |-> d.kind, rc |-> d.rc, val |-> d.val, kids |-> d.kids]
    BY DEF IsCell
  <2> HIDE DEF d
  <2>7. c.rc # 0
    BY <2>1, <2>2
  <2>8. IsCell(d)
    BY <2>4, <2>6, <2>7 DEF IsCell
  <2>9. SameCell(c, d)
    BY <2>4, <2>6 DEF SameCell
  <2>10. Size(d) = Size(c) - n
    BY <2>5, <2>6 DEF Size
  <2> QED
    BY <1>3, <2>3, <2>8, <2>9, <2>10
<1> QED
  BY <1>1, <1>2, <1>3

\* What is not allocated nothing refers to; what something refers to is allocated.
LEMMA ReferredIsLive ==
  ASSUME NEW hp, NEW w, Exact(hp, w), NEW o \in Objects
  PROVE  /\ hp[o].rc = 0 => w[o] = 0 /\ Inside(hp, o) = 0
         /\ hp[o].rc # 0 => Size(hp[o]) >= 1
         /\ \A a \in Objects : Occurrences(hp[a].kids, o) <= Inside(hp, o)
                                 /\ Occurrences(hp[a].kids, o) \in Nat
         /\ Inside(hp, o) \in Nat
<1>1. Inside(hp, o) \in Nat /\ w[o] \in Nat /\ Size(hp[o]) = w[o] + Inside(hp, o)
  BY PlacesSplit DEF Exact
<1>2. hp[o].rc = 0 => Size(hp[o]) = 0
  BY DEF Size
<1>3. hp[o].rc # 0 => Size(hp[o]) >= 1
  BY DEF Exact, IsHeap, IsCell, Size
<1>4. \A a \in Objects : Occurrences(hp[a].kids, o) <= Inside(hp, o)
                           /\ Occurrences(hp[a].kids, o) \in Nat
  BY PlacesSplit DEF Exact
<1> QED
  BY <1>1, <1>2, <1>3, <1>4


\* A heap that is the same up to its counts is as flat.
LEMMA StaysFlat ==
  ASSUME NEW hp, NEW hq, IsHeap(hp), Flat(hp), IsHeap(hq), Wanes(hp, hq),
         \A o \in Objects : Inside(hq, o) >= 1 => hq[o].rc # 0
  PROVE  Flat(hq)
<1> SUFFICES ASSUME NEW a \in Objects, NEW i \in DOMAIN hq[a].kids
             PROVE  hq[hq[a].kids[i]].kind = "external"
  BY DEF Flat
<1>1. hq[a].kids = hp[a].kids
  <2>1. CASE hq[a] = Freed
    BY <2>1, FreedIsCell
  <2>2. CASE hq[a] # Freed
    BY <2>2 DEF Wanes, Fades, SameCell
  <2> QED
    BY <2>1, <2>2
<1> DEFINE y == hq[a].kids[i]
<1>2. y \in Objects
  BY SequenceIsFinite DEF IsHeap, IsCell
<1>3. Inside(hq, y) >= 1
  BY PlacesPositive
<1>4. hq[y] # Freed
  BY <1>2, <1>3, FreedIsCell
<1>5. hp[y].kind = "external"
  BY <1>1 DEF Flat
<1> HIDE DEF y
<1>6. hq[y].kind = hp[y].kind
  BY <1>2, <1>4 DEF Wanes, Fades, SameCell
<1> QED
  BY <1>5, <1>6 DEF y

\* Retaining an object adds a reference to it.
LEMMA RetainExact ==
  ASSUME NEW hp, NEW w, Exact(hp, w), NEW o \in Objects, hp[o].rc # 0
  PROVE  Exact(Retain(hp, o), More(w, o)) /\ Wanes(hp, Retain(hp, o))
<1> DEFINE hq == Retain(hp, o)
           v == More(w, o)
<1>1. hp = [x \in Objects |-> hp[x]]
  BY DEF Exact, IsHeap
<1>2. /\ hq = [x \in Objects |-> hq[x]]
      /\ hq[o] = Inc(hp[o], 1)
      /\ \A x \in Objects \ {o} : hq[x] = hp[x]
  BY <1>1 DEF Retain
<1>3. IsCell(hp[o])
  BY DEF Exact, IsHeap
<1>4. IsCell(hq[o]) /\ SameCell(hp[o], hq[o]) /\ Size(hq[o]) = Size(hp[o]) + 1
  BY <1>2, <1>3, IncEffect
<1>5. v \in [Objects -> Nat] /\ v[o] = w[o] + 1 /\ \A x \in Objects \ {o} : v[x] = w[x]
  BY DEF Exact, More
<1> HIDE DEF hq, v
<1>6. IsHeap(hq) /\ Wanes(hp, hq) /\ \A x \in Objects : hq[x].kids = hp[x].kids
  BY <1>2, <1>4 DEF Exact, IsHeap, Wanes, Fades, SameCell
<1>7. \A x \in Objects : Inside(hq, x) = Inside(hp, x)
  BY <1>6, PlacesSame DEF Exact
<1>8. \A x \in Objects : Size(hq[x]) = v[x] + Inside(hq, x)
  <2> TAKE x \in Objects
  <2>1. Inside(hp, x) \in Nat /\ w[x] \in Nat /\ Size(hp[x]) = w[x] + Inside(hp, x)
    BY ReferredIsLive DEF Exact
  <2>2. CASE x = o
    BY <1>4, <1>5, <1>7, <2>1, <2>2
  <2>3. CASE x # o
    BY <1>2, <1>5, <1>7, <2>1, <2>3
  <2> QED
    BY <2>2, <2>3
<1>9. Flat(hq)
  BY <1>4, <1>2, <1>6, StaysFlat, <1>7, ReferredIsLive DEF Exact, SameCell, Flat
<1> QED
  BY <1>5, <1>6, <1>8, <1>9 DEF Exact, hq, v

\* Releasing an object takes a reference to it away; the last one takes those of an array with it.
LEMMA ReleaseExact ==
  ASSUME NEW hp, NEW w, Exact(hp, w), NEW o \in Objects, w[o] >= 1
  PROVE  Exact(Release(hp, o), Less(w, o)) /\ Wanes(hp, Release(hp, o))
<1> DEFINE hq == Release(hp, o)
           v == Less(w, o)
           dies == hp[o].rc \in {1, -1}
           s == hp[o].kids
           n(x) == IF x = o THEN 1 ELSE IF dies THEN Occurrences(s, x) ELSE 0
<1>0. /\ IsHeap(hp) /\ Flat(hp) /\ w \in [Objects -> Nat]
      /\ \A x \in Objects : Size(hp[x]) = w[x] + Inside(hp, x)
  BY DEF Exact
<1>1. hq = [x \in Objects |-> IF x = o THEN Dec(hp[x], 1)
                              ELSE IF dies THEN Dec(hp[x], Occurrences(s, x)) ELSE hp[x]]
  BY DEF Release
<1>2. \A x \in Objects : Occurrences(s, x) \in Nat /\ Occurrences(s, x) <= Inside(hp, x)
                           /\ Inside(hp, x) \in Nat
  BY ReferredIsLive
<1>3. \A x \in Objects : n(x) \in Nat /\ n(x) <= Size(hp[x])
  <2> TAKE x \in Objects
  <2>1. w[x] \in Nat /\ Size(hp[x]) = w[x] + Inside(hp, x)
    BY <1>0
  <2> QED
    BY <1>2, <2>1
<1>4. \A x \in Objects : hq[x] = Dec(hp[x], n(x))
  <2> TAKE x \in Objects
  <2>1. Dec(hp[x], 0) = hp[x]
    BY DEF Dec
  <2> QED
    BY <1>1, <2>1
<1>5. v \in [Objects -> Nat] /\ v[o] = w[o] - 1 /\ \A x \in Objects \ {o} : v[x] = w[x]
  <2>1. w[o] - 1 \in Nat
    BY <1>0
  <2> QED
    BY <1>0, <2>1 DEF Less
<1>6. \A x \in Objects : Occurrences(s, x) > 0 => hp[x].kind = "external"
  <2> TAKE x \in Objects
  <2>1. IsFiniteSet(DOMAIN s)
    BY <1>0, SequenceIsFinite DEF IsHeap, IsCell
  <2>2. (\A i \in DOMAIN s : s[i] # x) => Occurrences(s, x) = 0
    <3> HIDE DEF s
    <3> QED
      BY <2>1, OccurrencesType
  <2> QED
    BY <1>0, <2>2 DEF Flat
<1>7. ~dies => Size(hp[o]) > 1
  <2>1. Size(hp[o]) >= 1
    BY <1>3
  <2>2. hp[o].rc \in Int
    BY <1>0 DEF IsHeap, IsCell
  <2> QED
    BY <2>1, <2>2 DEF Size
<1>8. dies => Size(hp[o]) = 1
  BY DEF Size
<1>9. n(o) = 1
  OBVIOUS
<1>10. \A x \in Objects \ {o} : n(x) = (IF dies THEN Occurrences(s, x) ELSE 0)
  OBVIOUS
<1> HIDE DEF n, dies, hq, v, s
<1>11. \A x \in Objects : IsCell(hq[x]) /\ Size(hq[x]) = Size(hp[x]) - n(x)
                            /\ (n(x) = 0 => hq[x] = hp[x])
                            /\ (n(x) # 0 /\ n(x) < Size(hp[x]) => SameCell(hp[x], hq[x]))
                            /\ (n(x) # 0 /\ n(x) = Size(hp[x]) => hq[x] = Freed)
  <2> TAKE x \in Objects
  <2>1. IsCell(hp[x])
    BY <1>0 DEF IsHeap
  <2> QED
    BY <1>3, <1>4, <2>1, DecEffect
<1>12. Wanes(hp, hq)
  <2> SUFFICES ASSUME NEW x \in Objects
               PROVE  \/ hq[x] = hp[x]
                      \/ hp[x].rc # 0 /\ (SameCell(hp[x], hq[x]) \/ hq[x] = Freed)
    BY DEF Wanes, Fades
  <2>1. CASE n(x) = 0
    BY <1>11, <2>1
  <2>2. CASE n(x) # 0
    <3>1. hp[x].rc # 0
      BY <1>3, <2>2 DEF Size
    <3>2. n(x) < Size(hp[x]) \/ n(x) = Size(hp[x])
      <4>1. Size(hp[x]) \in Int
        BY <1>0 DEF IsHeap, IsCell, Size
      <4> QED
        BY <1>3, <4>1
    <3> QED
      BY <1>11, <2>2, <3>1, <3>2
  <2> QED
    BY <2>1, <2>2
<1>13. \A x \in Objects \ {o} : hq[x].kids = hp[x].kids
  <2> SUFFICES ASSUME NEW x \in Objects \ {o} PROVE hq[x].kids = hp[x].kids
    OBVIOUS
  <2>1. CASE hq[x] = Freed /\ hq[x] # hp[x]
    <3>1. Occurrences(s, x) > 0
      BY <1>2, <1>10, <1>11, <2>1
    <3>2. hp[x].kids = <<>>
      BY <1>0, <1>6, <3>1 DEF IsHeap, IsCell
    <3> QED
      BY <2>1, <3>2, FreedIsCell
  <2>2. CASE ~(hq[x] = Freed /\ hq[x] # hp[x])
    BY <1>12, <2>2 DEF Wanes, Fades, SameCell
  <2> QED
    BY <2>1, <2>2
<1>14. hq[o].kids = IF dies THEN <<>> ELSE s
  <2>1. CASE dies
    <3>1. hq[o] = Freed
      BY <1>8, <1>9, <1>11, <2>1
    <3> QED
      BY <2>1, <3>1, FreedIsCell
  <2>2. CASE ~dies
    <3>1. SameCell(hp[o], hq[o])
      BY <1>7, <1>9, <1>11, <2>2
    <3> QED
      BY <2>2, <3>1 DEF SameCell, s
  <2> QED
    BY <2>1, <2>2
<1>15. IsHeap(hq)
  <2>1. hq = [x \in Objects |-> hq[x]]
    BY <1>1
  <2>2. \A x \in Objects : Len(hq[x].kids) <= MaxLen
    <3>1. Len(<<>>) = 0 /\ MaxLen \in Nat
      BY LeanObjectsAssumption
    <3> QED
      BY <1>0, <1>13, <1>14, <3>1 DEF IsHeap, s
  <2> QED
    BY <1>11, <2>1, <2>2 DEF IsHeap
<1>16. \A x \in Objects :
         Inside(hq, x) = Inside(hp, x) - (IF dies THEN Occurrences(s, x) ELSE 0)
  <2> TAKE x \in Objects
  <2>1. Inside(hq, x) = Inside(hp, x) - Occurrences(hp[o].kids, x) + Occurrences(hq[o].kids, x)
    <3>1. OnlyArray(o, hp, hq)
      BY <1>13 DEF OnlyArray
    <3>2. Traded(hp[o].kids, hq[o].kids, hp, hq)
      BY <1>0, <1>15, <3>1, PlacesChange
    <3> QED
      BY <3>2 DEF Traded
  <2>2. Occurrences(<<>>, x) = 0
    <3>1. <<>> \in Seq(Objects)
      OBVIOUS
    <3> QED
      BY <3>1, OccurrencesInArrays
  <2> QED
    BY <1>2, <1>14, <2>1, <2>2 DEF s
<1>17. \A x \in Objects : Size(hq[x]) = v[x] + Inside(hq, x)
  <2> SUFFICES ASSUME NEW x \in Objects PROVE Size(hq[x]) = v[x] + Inside(hq, x)
    OBVIOUS
  <2>1. w[x] \in Nat /\ Size(hp[x]) = w[x] + Inside(hp, x) /\ Inside(hp, x) \in Nat
    BY <1>0, <1>2
  <2>2. CASE x = o
    <3>1. Occurrences(s, o) = 0
      <4>1. Occurrences(s, o) > 0 => s = <<>>
        BY <1>0, <1>6 DEF IsHeap, IsCell, s
      <4>2. s = <<>> => Occurrences(s, o) = 0
        BY OccurrencesInArrays, <1>0 DEF IsHeap, IsCell, s
      <4> QED
        BY <1>2, <4>1, <4>2
    <3>2. Inside(hq, o) = Inside(hp, o)
      BY <1>16, <2>1, <2>2, <3>1
    <3> QED
      BY <1>5, <1>9, <1>11, <2>1, <2>2, <3>2
  <2>3. CASE x # o
    BY <1>2, <1>5, <1>10, <1>11, <1>16, <2>1, <2>3
  <2> QED
    BY <2>2, <2>3
<1>18. \A x \in Objects : Inside(hq, x) >= 1 => hq[x].rc # 0
  <2> SUFFICES ASSUME NEW x \in Objects, Inside(hq, x) >= 1 PROVE hq[x].rc # 0
    OBVIOUS
  <2>1. Inside(hq, x) \in Nat /\ v[x] \in Nat
    BY <1>5, <1>15, PlacesSplit
  <2>2. Size(hq[x]) >= 1
    BY <1>17, <2>1
  <2> QED
    BY <2>2 DEF Size
<1>19. Flat(hq)
  BY <1>0, <1>12, <1>15, <1>18, StaysFlat
<1> QED
  BY <1>5, <1>12, <1>15, <1>17, <1>19 DEF Exact, hq, v


\* A cell that is replaced gives its places away and brings others.
LEMMA PlacesReplaced ==
  ASSUME NEW hp, IsHeap(hp), NEW r \in Objects, NEW c, IsCell(c), Len(c.kids) <= MaxLen,
         NEW hq, hq = [hp EXCEPT ![r] = c]
  PROVE  Replaced(r, c, hp, hq)
<1>1. /\ hq = [x \in Objects |-> hq[x]]
      /\ hq[r] = c
      /\ \A x \in Objects \ {r} : hq[x] = hp[x]
  BY DEF IsHeap
<1>2. IsHeap(hq)
  BY <1>1 DEF IsHeap
<1>3. OnlyArray(r, hp, hq)
  BY <1>1 DEF OnlyArray
<1>4. Traded(hp[r].kids, hq[r].kids, hp, hq)
  BY <1>2, <1>3, PlacesChange
<1> QED
  BY <1>1, <1>2, <1>4 DEF Replaced

\* References from outside become an array's, which is held itself.
Given(w, v, r, s) == \A x \in Objects : v[x] + Occurrences(s, x) = w[x] + One(r, x)

Externals(hp, s) == \A i \in DOMAIN s : hp[s[i]].kind = "external"

\* Memory that is free takes a new object, which is held once and takes over what its array is
\* made of.
LEMMA FillExact ==
  ASSUME NEW hp, NEW w, Exact(hp, w), NEW r \in Objects, hp[r].rc = 0,
         NEW c, IsCell(c), c.rc = 1, Len(c.kids) <= MaxLen,
         Externals(hp, c.kids), NEW v \in [Objects -> Nat], Given(w, v, r, c.kids)
  PROVE  Exact([hp EXCEPT ![r] = c], v)
<1> DEFINE hq == [hp EXCEPT ![r] = c]
<1>0. /\ IsHeap(hp) /\ Flat(hp) /\ w \in [Objects -> Nat]
      /\ \A x \in Objects : Size(hp[x]) = w[x] + Inside(hp, x)
  BY DEF Exact
<1>1. /\ IsHeap(hq) /\ hq[r] = c /\ \A x \in Objects \ {r} : hq[x] = hp[x]
      /\ Traded(hp[r].kids, c.kids, hp, hq)
  <2>1. IsHeap(hp) /\ hq = [hp EXCEPT ![r] = c]
    BY <1>0
  <2> HIDE DEF hq
  <2>2. Replaced(r, c, hp, hq)
    BY <2>1, PlacesReplaced
  <2> QED
    BY <2>2 DEF Replaced
<1> HIDE DEF hq
<1>2. IsHeap(hq)
  BY <1>1
<1>3. hp[r].kids = <<>> /\ w[r] = 0 /\ Inside(hp, r) = 0 /\ hp[r].kind \in {"fresh", "freed"}
  <2>1. IsCell(hp[r])
    BY <1>0 DEF IsHeap
  <2> QED
    BY <2>1, ReferredIsLive DEF IsCell
<1>4. Flat(hq)
  <2> SUFFICES ASSUME NEW a \in Objects, NEW i \in DOMAIN hq[a].kids
               PROVE  hq[hq[a].kids[i]].kind = "external"
    BY DEF Flat
  <2> DEFINE y == hq[a].kids[i]
  <2>1. y \in Objects
    BY <1>2, SequenceIsFinite DEF IsHeap, IsCell
  <2>2. hp[y].kind = "external"
    <3>1. CASE a = r
      <4>1. y = c.kids[i] /\ i \in DOMAIN c.kids
        BY <1>1, <3>1
      <4> HIDE DEF y
      <4> QED
        BY <4>1 DEF Externals
    <3>2. CASE a # r
      <4>1. hq[a] = hp[a]
        BY <1>1, <3>2
      <4>2. Flat(hp) /\ i \in DOMAIN hp[a].kids /\ y = hp[a].kids[i]
        BY <1>0, <4>1
      <4> HIDE DEF y
      <4> QED
        BY <4>2 DEF Flat
    <3> QED
      BY <3>1, <3>2
  <2>3. y # r
    BY <1>3, <2>2
  <2> HIDE DEF y
  <2>4. hq[y].kind = "external"
    BY <1>1, <2>1, <2>2, <2>3
  <2> QED
    BY <2>4 DEF y
<1>5. \A x \in Objects : Size(hq[x]) = v[x] + Inside(hq, x)
  <2> SUFFICES ASSUME NEW x \in Objects PROVE Size(hq[x]) = v[x] + Inside(hq, x)
    OBVIOUS
  <2>1. /\ Inside(hp, x) \in Nat /\ Occurrences(c.kids, x) \in Nat
        /\ Inside(hq, x) = Inside(hp, x) - Occurrences(<<>>, x) + Occurrences(c.kids, x)
    BY <1>1, <1>3 DEF Traded
  <2>2. Occurrences(<<>>, x) = 0
    <3>1. <<>> \in Seq(Objects)
      OBVIOUS
    <3> QED
      BY <3>1, OccurrencesInArrays
  <2>3. v[x] \in Nat /\ w[x] \in Nat /\ v[x] + Occurrences(c.kids, x) = w[x] + One(r, x)
    BY <1>0 DEF Given
  <2> DEFINE i == Inside(hp, x)
             j == Inside(hq, x)
             k == Occurrences(c.kids, x)
             m == v[x]
             n == w[x]
  <2>4. i \in Nat /\ k \in Nat /\ m \in Nat /\ n \in Nat /\ j = i + k
    BY <2>1, <2>2, <2>3
  <2>5. CASE x = r
    <3>1. Size(hq[x]) = 1 /\ One(r, x) = 1 /\ n = 0 /\ i = 0
      BY <1>1, <1>3, <2>5 DEF Size, One
    <3>2. m + k = n + 1
      BY <2>3, <3>1
    <3> HIDE DEF i, j, k, m, n
    <3>3. m + j = 1
      BY <2>4, <3>1, <3>2
    <3> QED
      BY <3>1, <3>3 DEF m, j
  <2>6. CASE x # r
    <3>1. hq[x] = hp[x] /\ One(r, x) = 0
      BY <1>1, <2>6 DEF One
    <3>2. m + k = n + 0 /\ Size(hq[x]) = n + i
      BY <1>0, <2>3, <3>1
    <3> HIDE DEF i, j, k, m, n
    <3>3. m + j = n + i
      BY <2>4, <3>2
    <3> QED
      BY <3>2, <3>3 DEF m, j
  <2> QED
    BY <2>5, <2>6
<1> QED
  BY <1>2, <1>4, <1>5 DEF Exact, hq

\* The references to t from outside are traded for references to s.
Exchanged(w, v, t, s) ==
  \A x \in Objects : v[x] + Occurrences(s, x) = w[x] + Occurrences(t, x)

\* An array that gets other elements gives references to the old ones and takes references to
\* the new ones.
LEMMA ElementsExact ==
  ASSUME NEW hp, NEW w, Exact(hp, w), NEW r \in Objects, hp[r].kind = "array",
         NEW s \in Seq(Objects), Len(s) <= MaxLen,
         Externals(hp, s),
         NEW v \in [Objects -> Nat], Exchanged(w, v, hp[r].kids, s)
  PROVE  Exact([hp EXCEPT ![r].kids = s], v)
<1> DEFINE hq == [hp EXCEPT ![r].kids = s]
<1>0. /\ IsHeap(hp) /\ Flat(hp) /\ w \in [Objects -> Nat]
      /\ \A x \in Objects : Size(hp[x]) = w[x] + Inside(hp, x)
  BY DEF Exact
<1>1. /\ hq = [x \in Objects |-> hq[x]]
      /\ hq[r] = [hp[r] EXCEPT !.kids = s]
      /\ \A x \in Objects \ {r} : hq[x] = hp[x]
  BY <1>0 DEF IsHeap
<1> HIDE DEF hq
<1>2. hq[r] = [kind |-> hp[r].kind, rc |-> hp[r].rc, val |-> hp[r].val, kids |-> s]
  BY <1>0, <1>1 DEF IsHeap, IsCell
<1>3. hq[r].kind = hp[r].kind /\ hq[r].rc = hp[r].rc /\ hq[r].val = hp[r].val /\ hq[r].kids = s
  BY <1>2
<1>4. IsHeap(hq) /\ Traded(hp[r].kids, s, hp, hq)
  <2>1. IsCell(hq[r])
    BY <1>0, <1>2, <1>3 DEF IsHeap, IsCell
  <2>2. Len(hq[r].kids) <= MaxLen
    BY <1>3
  <2>3. hq = [hp EXCEPT ![r] = hq[r]]
    BY <1>0, <1>1 DEF IsHeap
  <2>4. IsHeap(hp)
    BY <1>0
  <2> HIDE DEF hq
  <2> QED
    BY <1>3, <2>1, <2>2, <2>3, <2>4, PlacesReplaced DEF Replaced
<1> HIDE DEF hq
<1>5. Flat(hq)
  <2> SUFFICES ASSUME NEW a \in Objects, NEW i \in DOMAIN hq[a].kids
               PROVE  hq[hq[a].kids[i]].kind = "external"
    BY DEF Flat
  <2> DEFINE y == hq[a].kids[i]
  <2>1. y \in Objects
    BY <1>4, SequenceIsFinite DEF IsHeap, IsCell
  <2>2. hp[y].kind = "external"
    <3>1. CASE a = r
      <4>1. y = s[i] /\ i \in DOMAIN s
        BY <1>3, <3>1
      <4> HIDE DEF y
      <4> QED
        BY <4>1, Zenon DEF Externals
    <3>2. CASE a # r
      <4>1. hq[a] = hp[a]
        BY <1>1, <3>2
      <4>2. Flat(hp) /\ i \in DOMAIN hp[a].kids /\ y = hp[a].kids[i]
        BY <1>0, <4>1
      <4> HIDE DEF y
      <4> QED
        BY <4>2 DEF Flat
    <3> QED
      BY <3>1, <3>2
  <2> HIDE DEF y
  <2>3. hq[y].kind = "external"
    BY <1>1, <1>3, <2>1, <2>2
  <2> QED
    BY <2>3 DEF y
<1>6. \A x \in Objects : Size(hq[x]) = v[x] + Inside(hq, x)
  <2> SUFFICES ASSUME NEW x \in Objects PROVE Size(hq[x]) = v[x] + Inside(hq, x)
    OBVIOUS
  <2>1. /\ Inside(hp, x) \in Nat /\ Occurrences(s, x) \in Nat
        /\ Occurrences(hp[r].kids, x) \in Nat
        /\ Inside(hq, x) = Inside(hp, x) - Occurrences(hp[r].kids, x) + Occurrences(s, x)
    BY <1>4 DEF Traded
  <2>2. /\ v[x] \in Nat /\ w[x] \in Nat
        /\ v[x] + Occurrences(s, x) = w[x] + Occurrences(hp[r].kids, x)
    BY <1>0 DEF Exchanged
  <2>3. Size(hq[x]) = Size(hp[x])
    BY <1>1, <1>3 DEF Size
  <2>4. Size(hp[x]) = w[x] + Inside(hp, x)
    BY <1>0
  <2> DEFINE i == Inside(hp, x)
             j == Inside(hq, x)
             m == Occurrences(s, x)
             n == Occurrences(hp[r].kids, x)
             p == v[x]
             q == w[x]
  <2>5. i \in Nat /\ m \in Nat /\ n \in Nat /\ p \in Nat /\ q \in Nat
    BY <2>1, <2>2
  <2>6. j = i - n + m /\ p + m = q + n
    BY <2>1, <2>2
  <2>7. Size(hq[x]) = q + i
    BY <2>3, <2>4
  <2> HIDE DEF i, j, m, n, p, q
  <2>8. q + i = p + j
    BY <2>5, <2>6
  <2> QED
    BY <2>7, <2>8 DEF j, p
<1> QED
  BY <1>4, <1>5, <1>6 DEF Exact, hq

\* A heap whose cells have the same sizes and elements is as exact.
LEMMA SameCountsExact ==
  ASSUME NEW hp, NEW w, Exact(hp, w), NEW hq, hq = [x \in Objects |-> hq[x]],
         \A x \in Objects : /\ IsCell(hq[x]) /\ Size(hq[x]) = Size(hp[x])
                            /\ hq[x].kids = hp[x].kids /\ hq[x].kind = hp[x].kind
  PROVE  Exact(hq, w)
<1>1. IsHeap(hq)
  BY DEF Exact, IsHeap
<1>2. \A x \in Objects : Inside(hq, x) = Inside(hp, x)
  BY PlacesSame DEF Exact
<1>3. Flat(hq)
  <2> SUFFICES ASSUME NEW a \in Objects, NEW i \in DOMAIN hq[a].kids
               PROVE  hq[hq[a].kids[i]].kind = "external"
    BY DEF Flat
  <2>1. hq[a].kids[i] \in Objects
    BY <1>1, SequenceIsFinite DEF IsHeap, IsCell
  <2> QED
    BY <2>1 DEF Exact, Flat
<1> QED
  BY <1>1, <1>2, <1>3 DEF Exact

\* lean_mark_mt turns counts over and leaves them what they were.
LEMMA MarkExact ==
  ASSUME NEW hp, NEW w, Exact(hp, w), NEW o \in Objects
  PROVE  Exact(MarkMT(hp, o), w)
<1> DEFINE hq == MarkMT(hp, o)
           Marked(x) == (x = o \/ Occurrences(hp[o].kids, x) > 0) /\ hp[x].rc > 0
<1>1. \A x \in Objects : hq[x] = IF Marked(x) THEN [hp[x] EXCEPT !.rc = -@] ELSE hp[x]
  BY DEF MarkMT
<1>2. hq = [x \in Objects |-> hq[x]]
  BY DEF MarkMT
<1> HIDE DEF hq, Marked
<1>3. ASSUME NEW x \in Objects
      PROVE  /\ IsCell(hq[x]) /\ Size(hq[x]) = Size(hp[x])
             /\ hq[x].kids = hp[x].kids /\ hq[x].kind = hp[x].kind
  <2>1. IsCell(hp[x])
    BY DEF Exact, IsHeap
  <2>2. CASE Marked(x)
    <3>1. hp[x].rc > 0
      BY <2>2 DEF Marked
    <3>2. hq[x] = [kind |-> hp[x].kind, rc |-> -hp[x].rc, val |-> hp[x].val, kids |-> hp[x].kids]
      BY <1>1, <2>1, <2>2 DEF IsCell
    <3>3. /\ hq[x].kind = hp[x].kind /\ hq[x].rc = -hp[x].rc
          /\ hq[x].val = hp[x].val /\ hq[x].kids = hp[x].kids
      BY <3>2
    <3>4. hp[x].rc \in Int /\ hp[x].rc # 0 /\ -hp[x].rc < 0 /\ -hp[x].rc \in Int /\ -hp[x].rc # 0
      BY <2>1, <3>1 DEF IsCell
    <3>5. IsCell(hq[x])
      BY <2>1, <3>2, <3>3, <3>4 DEF IsCell
    <3>6. Size(hq[x]) = Size(hp[x])
      BY <3>1, <3>3, <3>4 DEF Size
    <3> QED
      BY <3>3, <3>5, <3>6
  <2>3. CASE ~Marked(x)
    BY <1>1, <2>1, <2>3
  <2> QED
    BY <2>2, <2>3
<1>4. Exact(hq, w)
  BY <1>2, <1>3, SameCountsExact
<1> QED
  BY <1>4 DEF hq

\* Nor does a payload count.
LEMMA PayloadExact ==
  ASSUME NEW hp, NEW w, Exact(hp, w), NEW o \in Objects, hp[o].kind = "external",
         NEW p \in Payloads \cup {Null}
  PROVE  Exact([hp EXCEPT ![o].val = p], w)
<1> DEFINE hq == [hp EXCEPT ![o].val = p]
<1>0. IsHeap(hp)
  BY DEF Exact
<1>1. /\ hq = [x \in Objects |-> hq[x]]
      /\ hq[o] = [hp[o] EXCEPT !.val = p]
      /\ \A x \in Objects \ {o} : hq[x] = hp[x]
  BY <1>0 DEF IsHeap
<1> HIDE DEF hq
<1>2. hq[o] = [kind |-> hp[o].kind, rc |-> hp[o].rc, val |-> p, kids |-> hp[o].kids]
  BY <1>0, <1>1 DEF IsHeap, IsCell
<1>3. hq[o].kind = hp[o].kind /\ hq[o].rc = hp[o].rc /\ hq[o].val = p /\ hq[o].kids = hp[o].kids
  BY <1>2
<1>4. IsCell(hq[o]) /\ Size(hq[o]) = Size(hp[o])
  BY <1>0, <1>2, <1>3 DEF IsHeap, IsCell, Size
<1>5. Exact(hq, w)
  BY <1>0, <1>1, <1>3, <1>4, SameCountsExact DEF IsHeap
<1> QED
  BY <1>5 DEF hq


\* Fading goes on.
LEMMA FadesOn ==
  ASSUME NEW c, NEW d, NEW e, Fades(c, d), Fades(d, e)
  PROVE  Fades(c, e)
BY FreedIsCell DEF Fades, SameCell

\* What is still referred to has not been freed.
LEMMA FadesLive ==
  ASSUME NEW c, NEW d, Fades(c, d), Size(d) >= 1
  PROVE  d.kind = c.kind /\ d.val = c.val /\ d.kids = c.kids
<1>1. d # Freed
  BY FreedIsCell
<1> QED
  BY <1>1 DEF Fades, SameCell

\* What w says is all that matters.
LEMMA ExactPointwise ==
  ASSUME NEW hp, NEW w, Exact(hp, w), NEW v \in [Objects -> Nat], \A o \in Objects : v[o] = w[o]
  PROVE  Exact(hp, v)
<1>1. v = w
  BY DEF Exact
<1> QED
  BY <1>1

Kept(hp, s) ==
  [x \in Objects |->
     LET n == Occurrences(s, x) IN IF n = 0 THEN hp[x] ELSE Inc(hp[x], n)]

\* The copy of an array takes a reference to each of its elements, as often as it has it.
LEMMA KeepExact ==
  ASSUME NEW hp, NEW w, Exact(hp, w), NEW a \in Objects,
         NEW v \in [Objects -> Nat],
         \A x \in Objects : v[x] = w[x] + Occurrences(hp[a].kids, x)
  PROVE  Exact(Kept(hp, hp[a].kids), v) /\ Wanes(hp, Kept(hp, hp[a].kids))
           /\ \A x \in Objects : hp[x].rc = 0 => Kept(hp, hp[a].kids)[x] = hp[x]
<1> DEFINE s == hp[a].kids
           hq == Kept(hp, s)
<1>0. /\ IsHeap(hp) /\ Flat(hp) /\ w \in [Objects -> Nat]
      /\ \A x \in Objects : Size(hp[x]) = w[x] + Inside(hp, x)
  BY DEF Exact
<1>1. \A x \in Objects : Occurrences(s, x) \in Nat /\ Occurrences(s, x) <= Inside(hp, x)
                           /\ Inside(hp, x) \in Nat
  BY ReferredIsLive
<1>2. /\ hq = [x \in Objects |-> hq[x]]
      /\ \A x \in Objects :
           hq[x] = IF Occurrences(s, x) = 0 THEN hp[x] ELSE Inc(hp[x], Occurrences(s, x))
  BY DEF Kept
<1> HIDE DEF s, hq
<1>3. ASSUME NEW x \in Objects
      PROVE  /\ IsCell(hq[x]) /\ Size(hq[x]) = Size(hp[x]) + Occurrences(s, x)
             /\ hq[x] = hp[x] \/ (hp[x].rc # 0 /\ SameCell(hp[x], hq[x]))
             /\ hp[x].rc = 0 => hq[x] = hp[x]
  <2>1. IsCell(hp[x])
    BY <1>0 DEF IsHeap
  <2>2. CASE Occurrences(s, x) = 0
    <3>1. Size(hp[x]) + 0 = Size(hp[x])
      BY <2>1 DEF IsCell, Size
    <3> QED
      BY <1>2, <2>1, <2>2, <3>1
  <2>3. CASE Occurrences(s, x) # 0
    <3>1. hp[x].rc # 0
      <4>1. Inside(hp, x) # 0
        BY <1>1, <2>3
      <4> QED
        BY <4>1, ReferredIsLive
    <3>2. Occurrences(s, x) \in Nat
      BY <1>1
    <3> QED
      BY <1>2, <2>1, <2>3, <3>1, <3>2, IncEffect
  <2> QED
    BY <2>2, <2>3
<1>4. \A x \in Objects : hq[x].kids = hp[x].kids
  BY <1>3 DEF SameCell
<1>5. Wanes(hp, hq)
  BY <1>3 DEF Wanes, Fades
<1>6. IsHeap(hq)
  BY <1>0, <1>2, <1>3, <1>4 DEF IsHeap
<1>7. \A x \in Objects : Inside(hq, x) = Inside(hp, x)
  BY <1>0, <1>4, PlacesSame
<1>8. \A x \in Objects : Size(hq[x]) = v[x] + Inside(hq, x)
  <2> SUFFICES ASSUME NEW x \in Objects PROVE Size(hq[x]) = v[x] + Inside(hq, x)
    OBVIOUS
  <2>1. w[x] \in Nat /\ Inside(hp, x) \in Nat /\ Occurrences(s, x) \in Nat
    BY <1>0, <1>1
  <2>2. Size(hq[x]) = w[x] + Inside(hp, x) + Occurrences(s, x)
    BY <1>0, <1>3
  <2>3. v[x] = w[x] + Occurrences(s, x)
    BY DEF s
  <2> QED
    BY <1>7, <2>1, <2>2, <2>3
<1>9. Flat(hq)
  <2> SUFFICES ASSUME NEW b \in Objects, NEW i \in DOMAIN hq[b].kids
               PROVE  hq[hq[b].kids[i]].kind = "external"
    BY DEF Flat
  <2>1. hq[b].kids[i] \in Objects
    BY <1>6, SequenceIsFinite DEF IsHeap, IsCell
  <2> QED
    BY <1>0, <1>3, <1>4, <2>1 DEF Flat, SameCell
<1> QED
  BY <1>3, <1>5, <1>6, <1>8, <1>9 DEF Exact, hq, s

\* lean_copy_array moves the reference that is held from the original to the copy.
LEMMA CopyExact ==
  ASSUME NEW hp, NEW w, Exact(hp, w), NEW a \in Objects, hp[a].kind = "array", w[a] >= 1,
         NEW r \in Objects, hp[r].rc = 0,
         NEW v \in [Objects -> Nat],
         \A x \in Objects : v[x] + One(a, x) = w[x] + One(r, x)
  PROVE  /\ Exact(CopyArray(hp, a, r), v)
         /\ CopyArray(hp, a, r)[r] = Array(hp[a].kids)
         /\ \A x \in Objects \ {r} : Fades(hp[x], CopyArray(hp, a, r)[x])
<1> DEFINE s == hp[a].kids
           kept == Kept(hp, s)
           hq == Release(kept, a)
           w1 == [x \in Objects |-> w[x] + Occurrences(s, x)]
           w2 == Less(w1, a)
<1>0. /\ IsHeap(hp) /\ Flat(hp) /\ w \in [Objects -> Nat]
      /\ \A x \in Objects : IsCell(hp[x]) /\ Len(hp[x].kids) <= MaxLen
  BY DEF Exact, IsHeap
<1>1. \A x \in Objects : Occurrences(s, x) \in Nat /\ Occurrences(s, x) <= Inside(hp, x)
                           /\ Inside(hp, x) \in Nat
  BY ReferredIsLive
<1>2. w1 \in [Objects -> Nat] /\ \A x \in Objects : w1[x] = w[x] + Occurrences(s, x)
  BY <1>0, <1>1
<1>3. CopyArray(hp, a, r) = [hq EXCEPT ![r] = Array(s)]
  BY DEF CopyArray, Kept
<1>4. Exact(kept, w1) /\ Wanes(hp, kept) /\ \A x \in Objects : hp[x].rc = 0 => kept[x] = hp[x]
  <2> HIDE DEF w1
  <2> QED
    BY <1>2, KeepExact
<1>5. w1[a] >= 1
  BY <1>0, <1>1, <1>2
<1> HIDE DEF kept, w1
<1>6. Exact(hq, w2) /\ Wanes(kept, hq)
  BY <1>4, <1>5, ReleaseExact
<1>7. /\ w2 \in [Objects -> Nat] /\ w2[a] = w1[a] - 1
      /\ \A x \in Objects \ {a} : w2[x] = w1[x]
  <2>1. w1[a] - 1 \in Nat
    BY <1>2, <1>5
  <2> QED
    BY <1>2, <2>1 DEF Less
<1> HIDE DEF hq, w2
<1>8. \A x \in Objects : Fades(hp[x], hq[x])
  BY <1>4, <1>6, FadesOn DEF Wanes
<1>9. hq[r].rc = 0
  BY <1>4, <1>6 DEF Wanes, Fades
<1>10. a # r
  BY <1>0 DEF IsCell
<1>11. /\ IsCell(Array(s)) /\ Array(s).rc = 1 /\ Array(s).kids = s /\ Len(s) <= MaxLen
  <2>1. s \in Seq(Objects) /\ Len(s) <= MaxLen
    BY <1>0 DEF IsCell
  <2> HIDE DEF s
  <2>2. Array(s) = [kind |-> "array", rc |-> 1, val |-> Null, kids |-> s]
    BY DEF Array
  <2> QED
    BY <2>1, <2>2 DEF IsCell
<1>12. ASSUME NEW i \in DOMAIN s PROVE hq[s[i]].kind = "external"
  <2> DEFINE x == s[i]
  <2>1. x \in Objects /\ Occurrences(s, x) > 0
    BY <1>0, SequenceIsFinite, OccurrencesType DEF IsCell
  <2>2. hp[x].kind = "external"
    BY <1>0 DEF Flat
  <2> HIDE DEF x
  <2>3. w2[x] >= 1
    <3>1. w1[x] >= 1
      BY <1>0, <1>1, <1>2, <2>1
    <3> QED
      BY <1>7, <2>1, <2>2, <3>1
  <2>4. Size(hq[x]) >= 1
    <3>1. Size(hq[x]) = w2[x] + Inside(hq, x) /\ Inside(hq, x) \in Nat
      BY <1>6, <2>1, ReferredIsLive DEF Exact
    <3> QED
      BY <1>7, <2>1, <2>3, <3>1
  <2>5. hq[x].kind = hp[x].kind
    BY <1>8, <2>1, <2>4, FadesLive
  <2> QED
    BY <2>2, <2>5 DEF x
<1>13. \A x \in Objects : v[x] + Occurrences(s, x) = w2[x] + One(r, x)
  <2> SUFFICES ASSUME NEW x \in Objects
               PROVE  v[x] + Occurrences(s, x) = w2[x] + One(r, x)
    OBVIOUS
  <2>1. /\ v[x] \in Nat /\ w[x] \in Nat /\ Occurrences(s, x) \in Nat
        /\ One(a, x) \in Nat /\ One(r, x) \in Nat
        /\ v[x] + One(a, x) = w[x] + One(r, x)
    BY <1>0, <1>1 DEF One
  <2>2. w2[x] = w[x] + Occurrences(s, x) - One(a, x)
    <3>1. CASE x = a
      <4>1. One(a, x) = 1
        BY <3>1 DEF One
      <4>2. w1[x] = w[x] + Occurrences(s, x) /\ w2[x] = w1[x] - 1
        BY <1>2, <1>7, <3>1
      <4> HIDE DEF s
      <4> QED
        BY <2>1, <4>1, <4>2
    <3>2. CASE x # a
      <4>1. One(a, x) = 0 /\ w2[x] = w[x] + Occurrences(s, x)
        BY <1>2, <1>7, <3>2 DEF One
      <4> QED
        BY <2>1, <4>1
    <3> QED
      BY <3>1, <3>2
  <2> HIDE DEF s
  <2> QED
    BY <2>1, <2>2
<1> DEFINE hr == [hq EXCEPT ![r] = Array(s)]
<1> HIDE DEF s
<1>14. Exact(hr, v)
  <2>1. Externals(hq, Array(s).kids) /\ Given(w2, v, r, Array(s).kids)
    BY <1>11, <1>12, <1>13 DEF Externals, Given
  <2>2. Exact([hq EXCEPT ![r] = Array(s)], v)
    <3> HIDE DEF hr
    <3> QED
      BY <1>6, <1>9, <1>11, <2>1, FillExact
  <2> QED
    BY <2>2
<1>15. hr[r] = Array(s) /\ \A x \in Objects \ {r} : hr[x] = hq[x]
  BY <1>6 DEF Exact, IsHeap
<1> QED
  BY <1>3, <1>8, <1>14, <1>15 DEF s


\* With one reference to r for one to a, the elements s take the place of t.
Balanced(w, v, a, r, t, s) ==
  \A x \in Objects : v[x] + Occurrences(s, x) + One(a, x) = w[x] + One(r, x) + Occurrences(t, x)

\* One reference to a is given up for one to r.
Moved(w, u, a, r) == \A x \in Objects : u[x] + One(a, x) = w[x] + One(r, x)

\* In place, nothing changes hands but the elements.
LEMMA BalancedInPlace ==
  ASSUME NEW w \in [Objects -> Nat], NEW v \in [Objects -> Nat], NEW a,
         NEW t \in Seq(Objects), NEW s \in Seq(Objects), Balanced(w, v, a, a, t, s)
  PROVE  Exchanged(w, v, t, s)
<1> SUFFICES ASSUME NEW x \in Objects
             PROVE  v[x] + Occurrences(s, x) = w[x] + Occurrences(t, x)
  BY DEF Exchanged
<1>1. /\ v[x] \in Nat /\ w[x] \in Nat /\ Occurrences(s, x) \in Nat
      /\ Occurrences(t, x) \in Nat /\ One(a, x) \in Nat
  BY SequenceIsFinite, OccurrencesType DEF One
<1>2. v[x] + Occurrences(s, x) + One(a, x) = w[x] + One(a, x) + Occurrences(t, x)
  BY DEF Balanced
<1> DEFINE i == v[x]
           j == w[x]
           k == Occurrences(s, x)
           m == Occurrences(t, x)
           n == One(a, x)
<1>3. i \in Nat /\ j \in Nat /\ k \in Nat /\ m \in Nat /\ n \in Nat
  BY <1>1
<1>4. i + k + n = j + n + m
  BY <1>2
<1> HIDE DEF i, j, k, m, n
<1>5. i + k = j + m
  BY <1>3, <1>4
<1> QED
  BY <1>5 DEF i, j, k, m

\* Once the reference to a is given up for one to r, neither does.
LEMMA BalancedInCopy ==
  ASSUME NEW w \in [Objects -> Nat], NEW v \in [Objects -> Nat], NEW u \in [Objects -> Nat],
         NEW a, NEW r, NEW t \in Seq(Objects), NEW s \in Seq(Objects),
         Balanced(w, v, a, r, t, s), Moved(w, u, a, r)
  PROVE  Exchanged(u, v, t, s)
<1> SUFFICES ASSUME NEW x \in Objects
             PROVE  v[x] + Occurrences(s, x) = u[x] + Occurrences(t, x)
  BY DEF Exchanged
<1>1. /\ v[x] \in Nat /\ w[x] \in Nat /\ u[x] \in Nat /\ Occurrences(s, x) \in Nat
      /\ Occurrences(t, x) \in Nat /\ One(a, x) \in Nat /\ One(r, x) \in Nat
  BY SequenceIsFinite, OccurrencesType DEF One
<1>2. /\ v[x] + Occurrences(s, x) + One(a, x) = w[x] + One(r, x) + Occurrences(t, x)
      /\ u[x] + One(a, x) = w[x] + One(r, x)
  BY DEF Balanced, Moved
<1> DEFINE i == v[x]
           j == w[x]
           k == Occurrences(s, x)
           l == u[x]
           m == Occurrences(t, x)
           n == One(a, x)
           o == One(r, x)
<1>3. /\ i \in Nat /\ j \in Nat /\ k \in Nat /\ l \in Nat /\ m \in Nat /\ n \in Nat
      /\ o \in Nat
  BY <1>1
<1>4. i + k + n = j + o + m /\ l + n = j + o
  BY <1>2
<1> HIDE DEF i, j, k, l, m, n, o
<1>5. i + k = l + m
  BY <1>3, <1>4
<1> QED
  BY <1>5 DEF i, k, l, m

\* What array a may hold: its elements, and externals that are held from outside.
Storable(w, a, s) ==
  \A i \in DOMAIN s :
    /\ heap[s[i]].kind = "external"
    /\ w[s[i]] >= 1 \/ \E j \in DOMAIN heap[a].kids : heap[a].kids[j] = s[i]

\* The array of h gets the elements s, in place or in the copy r.
LEMMA UpdatedExact ==
  ASSUME NEW w, Exact(heap, w), NEW h, NEW a \in Objects, Obj(h) = a,
         heap[a].kind = "array", w[a] >= 1,
         NEW r \in Targets(h),
         NEW s \in Seq(Objects), Len(s) <= MaxLen,
         Storable(w, a, s),
         NEW v \in [Objects -> Nat], Balanced(w, v, a, r, heap[a].kids, s)
  PROVE  /\ Exact(Updated(h, r, s), v)
         /\ r \in Objects /\ heap[r].kind \in {"array", "fresh"} /\ (heap[r].rc = 0 <=> r # a)
         /\ Updated(h, r, s)[r].kind = "array" /\ Updated(h, r, s)[r].kids = s
         /\ Updated(h, r, s)[r].rc = 1
         /\ \A x \in Objects \ {r} : Fades(heap[x], Updated(h, r, s)[x])
<1> DEFINE t == heap[a].kids
           hq == Updated(h, r, s)
<1>0. /\ IsHeap(heap) /\ Flat(heap) /\ w \in [Objects -> Nat]
      /\ \A x \in Objects : Occurrences(t, x) \in Nat
      /\ \A x \in Objects : Occurrences(s, x) \in Nat
      /\ \A x, y : One(x, y) \in Nat
  <2>1. \A x \in Objects : Occurrences(t, x) \in Nat
    BY ReferredIsLive
  <2>2. \A x \in Objects : Occurrences(s, x) \in Nat
    BY SequenceIsFinite, OccurrencesType
  <2> QED
    BY <2>1, <2>2 DEF Exact, One
<1>1. r \in Objects /\ heap[r].kind \in {"array", "fresh"} /\ (heap[r].rc = 0 <=> r # a)
  <2>1. heap[a].rc # 0 /\ IsCell(heap[a])
    BY <1>0 DEF IsHeap, IsCell
  <2>2. CASE IsExclusive(CellOf(h))
    BY <2>1, <2>2 DEF Targets
  <2>3. CASE ~IsExclusive(CellOf(h))
    <3>1. r \in Objects /\ heap[r].kind = "fresh"
      BY <2>3 DEF Targets, FreshObjects
    <3>2. heap[r].rc = 0
      BY <1>0, <3>1 DEF IsHeap, IsCell
    <3> QED
      BY <2>1, <3>1, <3>2
  <2> QED
    BY <2>2, <2>3
<1>2. CASE r = a
  <2>1. hq = [heap EXCEPT ![r].kids = s]
    BY <1>2 DEF Updated
  <2>2. Exchanged(w, v, heap[r].kids, s)
    <3>1. t \in Seq(Objects)
      BY <1>0 DEF IsHeap, IsCell
    <3> HIDE DEF t
    <3>2. w \in [Objects -> Nat] /\ Balanced(w, v, a, a, t, s)
      BY <1>0, <1>2 DEF t
    <3>3. Exchanged(w, v, t, s)
      BY <3>1, <3>2, BalancedInPlace
    <3> QED
      BY <1>2, <3>3 DEF t
  <2>3. Exact(hq, v)
    <3>1. Externals(heap, s)
      BY DEF Storable, Externals
    <3>2. Exact([heap EXCEPT ![r].kids = s], v)
      <4> HIDE DEF hq
      <4> QED
        BY <1>1, <1>2, <2>2, <3>1, ElementsExact
    <3> QED
      BY <2>1, <3>2
  <2>4. /\ hq[r] = [heap[r] EXCEPT !.kids = s]
        /\ \A x \in Objects \ {r} : hq[x] = heap[x]
    BY <1>0, <1>1, <2>1 DEF IsHeap
  <2>5. hq[r].kind = "array" /\ hq[r].kids = s /\ hq[r].rc = 1
    <3>1. heap[r].rc = 1
      BY <1>2 DEF Targets, FreshObjects, IsExclusive, CellOf
    <3> QED
      BY <1>0, <1>2, <2>4, <3>1 DEF IsHeap, IsCell
  <2>6. \A x \in Objects \ {r} : Fades(heap[x], hq[x])
    BY <2>4 DEF Fades
  <2> HIDE DEF hq
  <2> QED
    BY <1>1, <2>3, <2>5, <2>6 DEF hq
<1>3. CASE r # a
  <2> DEFINE hc == CopyArray(heap, a, r)
             u == [x \in Objects |-> w[x] + One(r, x) - One(a, x)]
  <2>1. hq = [hc EXCEPT ![r].kids = s]
    BY <1>3 DEF Updated
  <2>2. /\ u \in [Objects -> Nat]
        /\ \A x \in Objects : u[x] + One(a, x) = w[x] + One(r, x)
        /\ \A x \in Objects : w[x] >= 1 /\ x # a => u[x] >= 1
    <3> SUFFICES ASSUME NEW x \in Objects
                 PROVE  /\ w[x] + One(r, x) - One(a, x) \in Nat
                        /\ w[x] + One(r, x) - One(a, x) + One(a, x) = w[x] + One(r, x)
                        /\ w[x] >= 1 /\ x # a => w[x] + One(r, x) - One(a, x) >= 1
      OBVIOUS
    <3>1. w[x] \in Nat /\ One(r, x) \in Nat /\ One(a, x) \in Nat
      BY <1>0
    <3>2. One(a, x) = IF x = a THEN 1 ELSE 0
      BY DEF One
    <3> QED
      BY <3>1, <3>2
  <2> HIDE DEF u
  <2>3. /\ Exact(hc, u)
        /\ hc[r] = Array(t)
        /\ \A x \in Objects \ {r} : Fades(heap[x], hc[x])
    <3>1. heap[r].rc = 0
      BY <1>1, <1>3
    <3> QED
      BY <1>1, <2>2, <3>1, CopyExact
  <2>4. hc[r].kind = "array" /\ hc[r].kids = t /\ hc[r].rc = 1
    BY <2>3 DEF Array
  <2> HIDE DEF hc
  <2>5. Externals(hc, s)
    <3> SUFFICES ASSUME NEW i \in DOMAIN s
                 PROVE  hc[s[i]].kind = "external"
      BY DEF Externals
    <3>0. /\ heap[s[i]].kind = "external"
          /\ w[s[i]] >= 1 \/ \E j \in DOMAIN heap[a].kids : heap[a].kids[j] = s[i]
      BY DEF Storable
    <3>1. s[i] \in Objects
      BY SequenceIsFinite
    <3>2. CASE w[s[i]] >= 1
      <4>1. s[i] # a /\ s[i] # r
        BY <1>1, <3>0, <3>1
      <4>2. u[s[i]] >= 1
        BY <2>2, <3>1, <3>2, <4>1
      <4>3. Size(hc[s[i]]) >= 1
        <5>1. Size(hc[s[i]]) = u[s[i]] + Inside(hc, s[i]) /\ Inside(hc, s[i]) \in Nat
          BY <2>3, <3>1, ReferredIsLive DEF Exact
        <5> QED
          BY <2>2, <3>1, <4>2, <5>1
      <4> QED
        BY <2>3, <3>0, <3>1, <4>1, <4>3, FadesLive
    <3>3. CASE \E j \in DOMAIN heap[a].kids : heap[a].kids[j] = s[i]
      BY <1>1, <2>3, <2>4, <3>3 DEF Exact, Flat
    <3> QED
      BY <3>0, <3>2, <3>3
  <2>6. Exchanged(u, v, hc[r].kids, s)
    <3>1. t \in Seq(Objects)
      BY <1>0 DEF IsHeap, IsCell
    <3> HIDE DEF t
    <3>2. w \in [Objects -> Nat] /\ Balanced(w, v, a, r, t, s)
      BY <1>0 DEF t
    <3>3. u \in [Objects -> Nat] /\ Moved(w, u, a, r)
      BY <2>2 DEF Moved
    <3>4. Exchanged(u, v, t, s)
      BY <3>1, <3>2, <3>3, BalancedInCopy
    <3> QED
      BY <2>4, <3>4
  <2>7. Exact(hq, v)
    <3>1. Exact([hc EXCEPT ![r].kids = s], v)
      <4> HIDE DEF hq
      <4> QED
        BY <1>1, <2>3, <2>4, <2>5, <2>6, ElementsExact
    <3> QED
      BY <2>1, <3>1
  <2>8. /\ hq[r] = [hc[r] EXCEPT !.kids = s]
        /\ \A x \in Objects \ {r} : hq[x] = hc[x]
    BY <1>1, <2>1, <2>3 DEF Exact, IsHeap
  <2>9. hq[r].kind = "array" /\ hq[r].kids = s /\ hq[r].rc = 1
    <3>1. IsCell(hc[r])
      BY <1>1, <2>3 DEF Exact, IsHeap
    <3> QED
      BY <2>4, <2>8, <3>1 DEF IsCell
  <2> HIDE DEF hq
  <2> QED
    BY <1>1, <2>3, <2>7, <2>8, <2>9 DEF hq
<1> QED
  BY <1>2, <1>3

-----------------------------------------------------------------------------
(* Handles hold the references from outside.                               *)

IsHandle(x) ==
  x = Empty \/ \E o \in Objects, t \in Threads : x \in {Bound(t, o), Ref(t, o), Unbound(o)}

Handed(hs) == hs = [h \in Handles |-> hs[h]] /\ \A h \in Handles : IsHandle(hs[h])

Held(hs) == [o \in Objects |-> Occurrences([h \in Handles |-> hs[h].obj], o)]

\* Every count is the number of references.
Settled(hp, hs) == Handed(hs) /\ Exact(hp, Held(hs))

\* A handle refers to an object, or is empty.
LEMMA HandlesRefer ==
  ASSUME NEW x, IsHandle(x)
  PROVE  /\ x.obj \in Objects \cup {Null}
         /\ x.obj = Null <=> x = Empty
         /\ x # Empty => x.obj \in Objects
<1>1. Null \notin Objects
  BY LeanObjectsAssumption
<1> QED
  BY <1>1 DEF IsHandle, Empty, Bound, Ref, Unbound

\* What a handle refers to is held.
LEMMA HeldType ==
  ASSUME NEW hs, Handed(hs)
  PROVE  /\ Held(hs) \in [Objects -> Nat]
         /\ \A h \in Handles : hs[h].obj \in Objects => Held(hs)[hs[h].obj] >= 1
<1> DEFINE f == [h \in Handles |-> hs[h].obj]
<1>1. IsFiniteSet(DOMAIN f) /\ DOMAIN f = Handles
  BY LeanObjectsAssumption
<1>2. \A h \in Handles : f[h] = hs[h].obj
  OBVIOUS
<1>3. Held(hs) = [o \in Objects |-> Occurrences(f, o)]
  BY DEF Held
<1> HIDE DEF f
<1>4. \A o \in Objects : Occurrences(f, o) \in Nat
  BY <1>1, OccurrencesType
<1>5. ASSUME NEW h \in Handles, hs[h].obj \in Objects PROVE Held(hs)[hs[h].obj] >= 1
  <2>1. Occurrences(f, f[h]) > 0 /\ Occurrences(f, f[h]) \in Nat
    BY <1>1, OccurrencesType
  <2>2. Occurrences(f, f[h]) >= 1
    BY <2>1
  <2> QED
    BY <1>2, <1>3, <1>5, <2>2
<1> QED
  BY <1>3, <1>4, <1>5

\* A slot that is given another handle gives up one reference and takes one.
LEMMA HeldMoves ==
  ASSUME NEW hs, Handed(hs), NEW h \in Handles, NEW y, IsHandle(y)
  PROVE  /\ Handed([hs EXCEPT ![h] = y])
         /\ Moved(Held(hs), Held([hs EXCEPT ![h] = y]), hs[h].obj, y.obj)
<1> DEFINE f == [g \in Handles |-> hs[g].obj]
           ht == [hs EXCEPT ![h] = y]
           e == [g \in Handles |-> ht[g].obj]
<1>1. /\ ht = [g \in Handles |-> ht[g]]
      /\ ht[h] = y /\ \A g \in Handles \ {h} : ht[g] = hs[g]
  BY DEF Handed
<1> HIDE DEF ht
<1>2. Handed(ht)
  BY <1>1 DEF Handed
<1>3. /\ IsFiniteSet(DOMAIN f) /\ DOMAIN f = Handles /\ DOMAIN e = DOMAIN f
      /\ e[h] = y.obj /\ f[h] = hs[h].obj /\ \A g \in DOMAIN f \ {h} : e[g] = f[g]
  BY <1>1, LeanObjectsAssumption
<1>4. /\ Held(hs) = [o \in Objects |-> Occurrences(f, o)]
      /\ Held(ht) = [o \in Objects |-> Occurrences(e, o)]
  BY DEF Held
<1> HIDE DEF e, f
<1>5. ASSUME NEW o \in Objects
      PROVE  Occurrences(e, o) + One(hs[h].obj, o) = Occurrences(f, o) + One(y.obj, o)
  <2>1. Occurrences(e, o) = Occurrences(f, o) - One(f[h], o) + One(y.obj, o)
    BY <1>3, OccurrencesUpdate
  <2> DEFINE i == Occurrences(e, o)
             j == Occurrences(f, o)
             m == One(f[h], o)
             n == One(y.obj, o)
  <2>2. i \in Nat /\ j \in Nat /\ m \in Nat /\ n \in Nat
    BY <1>3, OccurrencesType DEF One
  <2>3. i = j - m + n
    BY <2>1
  <2> HIDE DEF i, j, m, n
  <2>4. i + m = j + n
    BY <2>2, <2>3
  <2> QED
    BY <1>3, <2>4 DEF i, j, m, n
<1>6. Moved(Held(hs), Held(ht), hs[h].obj, y.obj)
  BY <1>4, <1>5 DEF Moved
<1> QED
  BY <1>2, <1>6 DEF ht

\* Two slots change hands.
MovedTwo(w, u, a, b, r, q) ==
  \A x \in Objects : u[x] + One(a, x) + One(b, x) = w[x] + One(r, x) + One(q, x)

\* As for one slot, for two
LEMMA HeldMovesTwo ==
  ASSUME NEW hs, Handed(hs), NEW h \in Handles, NEW g \in Handles, h # g,
         NEW y, IsHandle(y), NEW z, IsHandle(z)
  PROVE  /\ Handed([hs EXCEPT ![h] = y, ![g] = z])
         /\ MovedTwo(Held(hs), Held([hs EXCEPT ![h] = y, ![g] = z]),
                     hs[h].obj, hs[g].obj, y.obj, z.obj)
<1> DEFINE ht == [hs EXCEPT ![h] = y]
           hu == [ht EXCEPT ![g] = z]
<1>1. [hs EXCEPT ![h] = y, ![g] = z] = hu
  OBVIOUS
<1>2. Handed(ht) /\ Moved(Held(hs), Held(ht), hs[h].obj, y.obj)
  BY HeldMoves
<1>3. ht[g] = hs[g]
  BY DEF Handed
<1> HIDE DEF ht
<1>4. Handed(hu) /\ Moved(Held(ht), Held(hu), hs[g].obj, z.obj)
  BY <1>2, <1>3, HeldMoves
<1> HIDE DEF hu
<1>5. ASSUME NEW x \in Objects
      PROVE  Held(hu)[x] + One(hs[h].obj, x) + One(hs[g].obj, x)
               = Held(hs)[x] + One(y.obj, x) + One(z.obj, x)
  <2> DEFINE i == Held(hs)[x]
             j == Held(ht)[x]
             k == Held(hu)[x]
             l == One(hs[h].obj, x)
             m == One(hs[g].obj, x)
             n == One(y.obj, x)
             o == One(z.obj, x)
  <2>1. i \in Nat /\ j \in Nat /\ k \in Nat
    BY <1>2, <1>4, HeldType
  <2>2. l \in Nat /\ m \in Nat /\ n \in Nat /\ o \in Nat
    BY DEF One
  <2>3. j + l = i + n /\ k + m = j + o
    BY <1>2, <1>4 DEF Moved
  <2> HIDE DEF i, j, k, l, m, n, o
  <2>4. k + l + m = i + n + o
    BY <2>1, <2>2, <2>3
  <2> QED
    BY <2>4 DEF i, k, l, m, n, o
<1> QED
  BY <1>1, <1>4, <1>5 DEF MovedTwo

-----------------------------------------------------------------------------
(* The operations.                                                         *)

\* What may happen to an object an operation is not given: references to it come and go, and
\* it is freed.
Loses(c, d) ==
  \/ d = c
  \/ /\ c.rc # 0
     /\ \/ d = Freed
        \/ /\ d.kind = c.kind /\ d.val = c.val /\ d.kids = c.kids
           /\ d.rc # 0 /\ (d.rc > 0 <=> c.rc > 0)

IdleBut(T, hp, hq) == \A x \in Objects \ T : Loses(hp[x], hq[x])

\* A count that goes up and down is one of these.
LEMMA FadesLoses ==
  ASSUME NEW c, IsCell(c), NEW d, IsCell(d), Fades(c, d)
  PROVE  Loses(c, d)
<1>1. c.rc \in Int /\ d.rc \in Int
  BY DEF IsCell
<1>2. CASE SameCell(c, d) /\ c.rc # 0
  <2>1. d.rc # 0 /\ (d.rc < 0 <=> c.rc < 0) /\ d.kind = c.kind /\ d.val = c.val /\ d.kids = c.kids
    BY <1>2 DEF SameCell
  <2>2. c.rc # 0 /\ (d.rc > 0 <=> c.rc > 0)
    BY <1>1, <1>2, <2>1
  <2> QED
    BY <2>1, <2>2 DEF Loses
<1> QED
  BY <1>2 DEF Fades, Loses

\* A reference more, which a slot holds
LEMMA RetainSettles ==
  ASSUME NEW hp, NEW w, Exact(hp, w), NEW o \in Objects, hp[o].rc # 0,
         NEW u \in [Objects -> Nat], Moved(w, u, Null, o)
  PROVE  Exact(Retain(hp, o), u) /\ IdleBut({}, hp, Retain(hp, o))
<1>1. Exact(Retain(hp, o), More(w, o)) /\ Wanes(hp, Retain(hp, o))
  BY RetainExact
<1>2. \A x \in Objects : u[x] = More(w, o)[x]
  <2> SUFFICES ASSUME NEW x \in Objects PROVE u[x] = More(w, o)[x]
    OBVIOUS
  <2>1. u[x] + One(Null, x) = w[x] + One(o, x) /\ u[x] \in Nat /\ w[x] \in Nat
    BY DEF Moved, Exact
  <2>2. One(Null, x) = 0
    BY LeanObjectsAssumption DEF One
  <2>3. u[x] = w[x] + One(o, x)
    BY <2>1, <2>2 DEF One
  <2>4. More(w, o)[x] = IF x = o THEN w[x] + 1 ELSE w[x]
    BY DEF More, Exact
  <2> QED
    BY <2>1, <2>3, <2>4 DEF One
<1>3. \A x \in Objects : Loses(hp[x], Retain(hp, o)[x])
  BY <1>1, FadesLoses DEF Wanes, Exact, IsHeap
<1> HIDE DEF Moved
<1> QED
  BY <1>1, <1>2, <1>3, ExactPointwise DEF IdleBut

\* A reference less, which a slot held
LEMMA ReleaseSettles ==
  ASSUME NEW hp, NEW w, Exact(hp, w), NEW o \in Objects, w[o] >= 1,
         NEW u \in [Objects -> Nat], Moved(w, u, o, Null)
  PROVE  /\ Exact(Release(hp, o), u) /\ Wanes(hp, Release(hp, o))
         /\ IdleBut({}, hp, Release(hp, o))
<1>1. Exact(Release(hp, o), Less(w, o)) /\ Wanes(hp, Release(hp, o))
  BY ReleaseExact
<1>2. \A x \in Objects : u[x] = Less(w, o)[x]
  <2> SUFFICES ASSUME NEW x \in Objects PROVE u[x] = Less(w, o)[x]
    OBVIOUS
  <2>1. u[x] + One(o, x) = w[x] + One(Null, x) /\ u[x] \in Nat /\ w[x] \in Nat
    BY DEF Moved, Exact
  <2>2. One(Null, x) = 0
    BY LeanObjectsAssumption DEF One
  <2>3. u[x] + One(o, x) = w[x]
    BY <2>1, <2>2
  <2>4. Less(w, o)[x] = IF x = o THEN w[x] - 1 ELSE w[x]
    BY DEF Less, Exact
  <2> QED
    BY <2>1, <2>3, <2>4 DEF One
<1>3. \A x \in Objects : Loses(hp[x], Release(hp, o)[x])
  BY <1>1, FadesLoses DEF Wanes, Exact, IsHeap
<1> QED
  BY <1>1, <1>2, <1>3, ExactPointwise DEF IdleBut

\* A slot whose handle takes another form holds the same reference.
LEMMA HeldSame ==
  ASSUME NEW hp, NEW hs, Settled(hp, hs), NEW h \in Handles, NEW y, IsHandle(y), y.obj = hs[h].obj
  PROVE  Settled(hp, [hs EXCEPT ![h] = y])
<1> DEFINE ht == [hs EXCEPT ![h] = y]
<1>1. Handed(ht) /\ Moved(Held(hs), Held(ht), hs[h].obj, y.obj) /\ Exact(hp, Held(hs))
  BY HeldMoves DEF Settled
<1> HIDE DEF ht
<1>2. Held(ht) \in [Objects -> Nat] /\ Held(hs) \in [Objects -> Nat]
  BY <1>1, HeldType DEF Settled
<1>3. \A x \in Objects : Held(ht)[x] = Held(hs)[x]
  <2> SUFFICES ASSUME NEW x \in Objects PROVE Held(ht)[x] = Held(hs)[x]
    OBVIOUS
  <2>1. /\ Held(ht)[x] + One(y.obj, x) = Held(hs)[x] + One(y.obj, x)
        /\ Held(ht)[x] \in Nat /\ Held(hs)[x] \in Nat /\ One(y.obj, x) \in Nat
    BY <1>1, <1>2 DEF Moved, One
  <2> QED
    BY <2>1
<1>4. Exact(hp, Held(ht))
  BY <1>1, <1>2, <1>3, ExactPointwise
<1> QED
  BY <1>1, <1>4 DEF Settled, ht

\* What a usable handle is
LEMMA UsableHandles ==
  ASSUME NEW hs, NEW hp, Settled(hp, hs), NEW h \in Handles, hs[h] # Empty
  PROVE  /\ hs[h].obj \in Objects /\ Held(hs)[hs[h].obj] >= 1
         /\ hp[hs[h].obj].rc # 0 /\ hp[hs[h].obj].kind \in {"external", "array"}
<1>1. hs[h].obj \in Objects
  BY HandlesRefer DEF Settled, Handed
<1>2. Held(hs)[hs[h].obj] >= 1
  BY <1>1, HeldType DEF Settled
<1> DEFINE o == hs[h].obj
<1>3. o \in Objects /\ Held(hs)[o] >= 1 /\ Exact(hp, Held(hs))
  BY <1>1, <1>2 DEF Settled
<1> HIDE DEF o
<1>4. hp[o].rc # 0
  <2>1. hp[o].rc = 0 => Held(hs)[o] = 0
    BY <1>3, ReferredIsLive
  <2> QED
    BY <1>3, <2>1
<1>5. hp[o].kind \in {"external", "array"}
  BY <1>3, <1>4 DEF Exact, IsHeap, IsCell
<1> QED
  BY <1>1, <1>2, <1>4, <1>5 DEF o

\* What a handle in each form is
LEMMA HandleForms ==
  ASSUME NEW x, IsHandle(x), x # Empty
  PROVE  /\ x.form \in {"bound", "ref", "unbound"} /\ x.obj \in Objects
         /\ x.form = "bound" => x.thread \in Threads /\ x = Bound(x.thread, x.obj)
         /\ x.form = "ref" => x.thread \in Threads /\ x = Ref(x.thread, x.obj)
         /\ x.form = "unbound" => x = Unbound(x.obj)
<1>1. PICK o \in Objects, t \in Threads : x \in {Bound(t, o), Ref(t, o), Unbound(o)}
  BY DEF IsHandle
<1>2. CASE x = Bound(t, o)
  BY <1>2 DEF Bound
<1>3. CASE x = Ref(t, o)
  BY <1>3 DEF Ref
<1>4. CASE x = Unbound(o)
  BY <1>4 DEF Unbound
<1> QED
  BY <1>1, <1>2, <1>3, <1>4

\* Operations that change the form of a handle, and the counts at most
Passed == Settled(heap', handles') /\ IdleBut({}, heap, heap')

\* clone and clone_ref
LEMMA ClonePasses ==
  ASSUME Settled(heap, handles), NEW h \in Handles, NEW g \in Handles \ {h}, Clone(h, g)
  PROVE  Passed
<1>1. /\ handles[h] # Empty /\ handles[g] = Empty
      /\ heap' = Retain(heap, Obj(h)) /\ handles' = [handles EXCEPT ![g] = handles[h]]
  BY DEF Clone, IsEmpty, Become
<1>2. Obj(h) \in Objects /\ heap[Obj(h)].rc # 0 /\ Handed(handles) /\ Exact(heap, Held(handles))
  BY <1>1, UsableHandles DEF Settled, Obj
<1>3. /\ Handed(handles') /\ Moved(Held(handles), Held(handles'), Null, Obj(h))
  <2>1. IsHandle(handles[h]) /\ handles[g].obj = Null /\ g \in Handles
    BY <1>1, <1>2 DEF Handed, Empty
  <2> QED
    BY <1>1, <1>2, <2>1, HeldMoves DEF Obj
<1>4. Held(handles') \in [Objects -> Nat]
  BY <1>3, HeldType
<1> QED
  BY <1>1, <1>2, <1>3, <1>4, RetainSettles DEF Passed, Settled

\* bind
LEMMA BindPasses ==
  ASSUME Settled(heap, handles), NEW h \in Handles, NEW g \in Handles \ {h},
         NEW t \in Threads, Bind(t, h, g)
  PROVE  Passed
<1>1. /\ handles[h] # Empty /\ handles[g] = Empty
      /\ heap' = Retain(heap, Obj(h)) /\ handles' = [handles EXCEPT ![g] = Bound(t, Obj(h))]
  BY DEF Bind, IsEmpty, Become
<1>2. Obj(h) \in Objects /\ heap[Obj(h)].rc # 0 /\ Handed(handles) /\ Exact(heap, Held(handles))
  BY <1>1, UsableHandles DEF Settled, Obj
<1>3. /\ Handed(handles') /\ Moved(Held(handles), Held(handles'), Null, Obj(h))
  <2>1. /\ IsHandle(Bound(t, Obj(h))) /\ Bound(t, Obj(h)).obj = Obj(h)
        /\ handles[g].obj = Null /\ g \in Handles
    BY <1>1, <1>2 DEF IsHandle, Empty, Bound
  <2> QED
    BY <1>1, <1>2, <2>1, HeldMoves
<1>4. Held(handles') \in [Objects -> Nat]
  BY <1>3, HeldType
<1> QED
  BY <1>1, <1>2, <1>3, <1>4, RetainSettles DEF Passed, Settled

\* lean_array_get: the element is retained.
LEMMA ArrayGetPasses ==
  ASSUME Settled(heap, handles), NEW h \in Handles, NEW g \in Handles \ {h},
         NEW i, ArrayGet(h, i, g)
  PROVE  Passed
<1> DEFINE e == CellOf(h).kids[i]
           t == handles[h].thread
<1>1. /\ handles[h] # Empty /\ handles[g] = Empty /\ handles[h].form = "bound"
      /\ i \in DOMAIN CellOf(h).kids
      /\ heap' = Retain(heap, e) /\ handles' = [handles EXCEPT ![g] = Bound(t, e)]
  BY DEF ArrayGet, IsArray, IsEmpty, Become
<1>2. Obj(h) \in Objects /\ Handed(handles) /\ Exact(heap, Held(handles)) /\ t \in Threads
  BY <1>1, UsableHandles, HandleForms DEF Settled, Obj, Handed
<1>3. e \in Objects /\ heap[e].kind = "external"
  BY <1>1, <1>2, SequenceIsFinite DEF CellOf, Exact, Flat, IsHeap, IsCell
<1> HIDE DEF e, t
<1>4. heap[e].rc # 0
  BY <1>2, <1>3 DEF Exact, IsHeap, IsCell
<1>5. /\ Handed(handles') /\ Moved(Held(handles), Held(handles'), Null, e)
  <2>1. /\ IsHandle(Bound(t, e)) /\ Bound(t, e).obj = e
        /\ handles[g].obj = Null /\ g \in Handles
    BY <1>1, <1>2, <1>3 DEF IsHandle, Empty, Bound
  <2> QED
    BY <1>1, <1>2, <2>1, HeldMoves
<1>6. Held(handles') \in [Objects -> Nat]
  BY <1>5, HeldType
<1> QED
  BY <1>1, <1>2, <1>3, <1>4, <1>5, <1>6, RetainSettles DEF Passed, Settled

\* A handle that is emptied gives its reference up.
LEMMA EmptiedMoves ==
  ASSUME NEW hs, Handed(hs), NEW h \in Handles
  PROVE  /\ Handed([hs EXCEPT ![h] = Empty])
         /\ Held([hs EXCEPT ![h] = Empty]) \in [Objects -> Nat]
         /\ Moved(Held(hs), Held([hs EXCEPT ![h] = Empty]), hs[h].obj, Null)
<1>1. IsHandle(Empty) /\ Empty.obj = Null
  BY DEF IsHandle, Empty
<1> QED
  BY <1>1, HeldMoves, HeldType

\* drop
LEMMA DropPasses ==
  ASSUME Settled(heap, handles), NEW h \in Handles, handles[h] # Empty,
         heap' = Release(heap, Obj(h)), handles' = [handles EXCEPT ![h] = Empty]
  PROVE  Passed /\ Wanes(heap, heap')
<1>1. Obj(h) \in Objects /\ Held(handles)[Obj(h)] >= 1 /\ Handed(handles) /\ Exact(heap, Held(handles))
  BY UsableHandles DEF Settled, Obj
<1>2. /\ Handed(handles') /\ Moved(Held(handles), Held(handles'), Obj(h), Null)
      /\ Held(handles') \in [Objects -> Nat]
  BY <1>1, EmptiedMoves DEF Obj
<1> QED
  BY <1>1, <1>2, ReleaseSettles DEF Passed, Settled

\* lean_array_set of an index out of bounds: both references are given up.
LEMMA ArraySetFailsPasses ==
  ASSUME Settled(heap, handles), NEW h \in Handles, NEW g \in Handles \ {h},
         ArraySetFails(h, g)
  PROVE  Passed
<1> DEFINE a == Obj(h)
           e == Obj(g)
           hp == Release(heap, a)
           hs == [handles EXCEPT ![h] = Empty]
<1>1. /\ handles[h] # Empty /\ handles[g] # Empty
      /\ heap' = Release(hp, e) /\ handles' = [handles EXCEPT ![h] = Empty, ![g] = Empty]
  BY DEF ArraySetFails, IsArray, IsExternal, IsEmpty, Become
<1>2. handles' = [hs EXCEPT ![g] = Empty] /\ hs[g] = handles[g]
  BY <1>1 DEF Settled, Handed
<1>3. a \in Objects /\ Held(handles)[a] >= 1 /\ Handed(handles) /\ Exact(heap, Held(handles))
  BY <1>1, UsableHandles DEF Settled, Obj
<1>4. /\ Handed(hs) /\ Moved(Held(handles), Held(hs), a, Null)
      /\ Held(hs) \in [Objects -> Nat]
  BY <1>3, EmptiedMoves DEF Obj
<1> HIDE DEF hs, a
<1>5. Exact(hp, Held(hs)) /\ Wanes(heap, hp)
  BY <1>3, <1>4, ReleaseSettles
<1> HIDE DEF hp
<1>6. Settled(hp, hs)
  BY <1>4, <1>5 DEF Settled
<1>7. e \in Objects /\ Held(hs)[e] >= 1
  BY <1>1, <1>2, <1>6, UsableHandles DEF Obj
<1>8. /\ Handed(handles') /\ Moved(Held(hs), Held(handles'), e, Null)
      /\ Held(handles') \in [Objects -> Nat]
  BY <1>2, <1>4, EmptiedMoves DEF Obj
<1> HIDE DEF e
<1>9. Exact(Release(hp, e), Held(handles')) /\ Wanes(hp, Release(hp, e))
  BY <1>5, <1>7, <1>8, ReleaseSettles
<1>10. \A x \in Objects : Fades(heap[x], heap'[x])
  BY <1>1, <1>5, <1>9, FadesOn DEF Wanes
<1>11. \A x \in Objects : IsCell(heap[x]) /\ IsCell(heap'[x])
  BY <1>1, <1>3, <1>9 DEF Exact, IsHeap
<1>12. IdleBut({}, heap, heap')
  BY <1>10, <1>11, FadesLoses DEF IdleBut
<1> QED
  BY <1>1, <1>8, <1>9, <1>12 DEF Passed, Settled

\* The forms of a handle
LEMMA FormPasses ==
  ASSUME Settled(heap, handles), NEW h \in Handles, NEW y, IsHandle(y), y.obj = Obj(h),
         heap' = heap, handles' = [handles EXCEPT ![h] = y]
  PROVE  Passed
<1>1. Settled(heap', handles')
  BY HeldSame DEF Obj
<1>2. \A x \in Objects : Loses(heap[x], heap'[x])
  BY DEF Loses
<1> QED
  BY <1>1, <1>2 DEF Passed, IdleBut

\* unbind
LEMMA UnbindPasses ==
  ASSUME Settled(heap, handles), NEW h \in Handles, Unbind(h)
  PROVE  Passed
<1>1. /\ handles[h] # Empty /\ handles[h].form = "bound" /\ IsHandle(handles[h])
      /\ heap' = heap /\ handles' = [handles EXCEPT ![h].form = "ref"]
  BY DEF Unbind, IsEmpty, Settled, Handed
<1> DEFINE o == handles[h].obj
           t == handles[h].thread
<1>2. handles[h] = Bound(t, o) /\ t \in Threads /\ o \in Objects
  BY <1>1, HandleForms
<1>3. [handles[h] EXCEPT !.form = "ref"] = Ref(t, o)
  <2> HIDE DEF o, t
  <2> QED
    BY <1>2 DEF Bound, Ref
<1>4. handles' = [handles EXCEPT ![h] = Ref(t, o)] /\ Ref(t, o).obj = o
  BY <1>1, <1>3 DEF Ref
<1>5. IsHandle(Ref(t, o))
  BY <1>2 DEF IsHandle
<1> QED
  BY <1>1, <1>4, <1>5, FormPasses DEF Obj

\* Sending a reference
LEMMA SendRefPasses ==
  ASSUME Settled(heap, handles), NEW h \in Handles, NEW t \in Threads, SendRef(t, h)
  PROVE  Passed
<1>1. /\ handles[h] # Empty /\ handles[h].form = "ref" /\ IsHandle(handles[h])
      /\ heap' = heap /\ handles' = [handles EXCEPT ![h].thread = t]
  BY DEF SendRef, IsEmpty, Settled, Handed
<1> DEFINE o == handles[h].obj
           u == handles[h].thread
<1>2. handles[h] = Ref(u, o) /\ o \in Objects
  BY <1>1, HandleForms
<1>3. [handles[h] EXCEPT !.thread = t] = Ref(t, o)
  <2> HIDE DEF o, u
  <2> QED
    BY <1>2 DEF Ref
<1>4. handles' = [handles EXCEPT ![h] = Ref(t, o)] /\ Ref(t, o).obj = o
  BY <1>1, <1>3 DEF Ref
<1>5. IsHandle(Ref(t, o))
  BY <1>2 DEF IsHandle
<1> QED
  BY <1>1, <1>4, <1>5, FormPasses DEF Obj

\* into_bound and into_ref
LEMMA FromUnboundPasses ==
  ASSUME Settled(heap, handles), NEW h \in Handles, NEW t \in Threads, FromUnbound(t, h)
  PROVE  Passed
<1>1. handles[h] # Empty /\ heap' = heap
  BY DEF FromUnbound, IsEmpty
<1>2. PICK y \in {Bound(t, Obj(h)), Ref(t, Obj(h))} : handles' = [handles EXCEPT ![h] = y]
  BY DEF FromUnbound
<1>3. Obj(h) \in Objects
  BY <1>1, UsableHandles DEF Obj
<1>4. IsHandle(y) /\ y.obj = Obj(h)
  BY <1>3 DEF IsHandle, Bound, Ref
<1> QED
  BY <1>1, <1>2, <1>4, FormPasses

\* A count that becomes atomic
Marks(c, d) ==
  /\ d.kind = c.kind /\ d.val = c.val /\ d.kids = c.kids
  /\ d.rc = c.rc \/ (c.rc > 0 /\ d.rc < 0)

\* Handle x refers to o, or to an array that o is in.
Within(hp, x, o) ==
  /\ x.obj \in Objects
  /\ x.obj = o \/ \E i \in DOMAIN hp[x.obj].kids : hp[x.obj].kids[i] = o

\* unbind_mt and into_unbound: all that the handle reaches is counted atomically.
LEMMA UnbindMTMarks ==
  ASSUME Settled(heap, handles), NEW h \in Handles, UnbindMT(h)
  PROVE  /\ Settled(heap', handles') /\ \A x \in Objects : Marks(heap[x], heap'[x])
         /\ Obj(h) \in Objects /\ heap'[Obj(h)].rc < 0
         /\ \A i \in DOMAIN heap[Obj(h)].kids : heap'[heap[Obj(h)].kids[i]].rc < 0
         /\ \A x \in Objects : heap'[x].rc = heap[x].rc \/ Within(heap, handles[h], x)
         /\ handles' = [handles EXCEPT ![h] = Unbound(Obj(h))]
<1>1. /\ handles[h] # Empty /\ heap' = MarkMT(heap, Obj(h))
      /\ handles' = [handles EXCEPT ![h] = Unbound(Obj(h))]
  BY DEF UnbindMT, IsEmpty, Become
<1>2. Obj(h) \in Objects /\ Exact(heap, Held(handles)) /\ Threads # {}
  <2>1. IsHandle(handles[h])
    BY DEF Settled, Handed
  <2> QED
    BY <1>1, <2>1, UsableHandles DEF Settled, Obj, IsHandle
<1>3. IsHandle(Unbound(Obj(h))) /\ Unbound(Obj(h)).obj = Obj(h)
  BY <1>2 DEF IsHandle, Unbound
<1>4. Settled(heap, handles')
  BY <1>1, <1>3, HeldSame DEF Obj
<1>5. Exact(heap', Held(handles')) /\ Handed(handles')
  BY <1>1, <1>2, <1>4, MarkExact DEF Settled
<1>6. ASSUME NEW x \in Objects
      PROVE  /\ Marks(heap[x], heap'[x])
             /\ (x = Obj(h) \/ Occurrences(heap[Obj(h)].kids, x) > 0) => heap'[x].rc <= 0
  <2>1. IsCell(heap[x])
    BY <1>2 DEF Exact, IsHeap
  <2>2. CASE heap[x].rc > 0 /\ heap'[x] = [heap[x] EXCEPT !.rc = -@]
    <3>1. heap'[x] = [kind |-> heap[x].kind, rc |-> -heap[x].rc,
                      val |-> heap[x].val, kids |-> heap[x].kids]
      BY <2>1, <2>2 DEF IsCell
    <3>2. /\ heap'[x].kind = heap[x].kind /\ heap'[x].val = heap[x].val
          /\ heap'[x].kids = heap[x].kids /\ heap'[x].rc = -heap[x].rc
      BY <3>1
    <3> QED
      BY <2>1, <2>2, <3>2 DEF IsCell, Marks
  <2>3. CASE /\ heap'[x] = heap[x]
             /\ ~((x = Obj(h) \/ Occurrences(heap[Obj(h)].kids, x) > 0) /\ heap[x].rc > 0)
    BY <2>1, <2>3 DEF Marks, IsCell
  <2> QED
    BY <1>1, <2>2, <2>3 DEF MarkMT
<1>7. \A x \in Objects : Held(handles')[x] >= 1 \/ Inside(heap', x) >= 1 => heap'[x].rc # 0
  <2> SUFFICES ASSUME NEW x \in Objects, Held(handles')[x] >= 1 \/ Inside(heap', x) >= 1
               PROVE  heap'[x].rc # 0
    OBVIOUS
  <2>1. heap'[x].rc = 0 => Held(handles')[x] = 0 /\ Inside(heap', x) = 0
    BY <1>5, ReferredIsLive
  <2> QED
    BY <2>1
<1>8. Obj(h) \in Objects /\ heap'[Obj(h)].rc < 0
  <2>1. handles'[h].obj = Obj(h)
    BY <1>1, <1>3 DEF Settled, Handed
  <2>2. Held(handles')[Obj(h)] >= 1
    BY <1>2, <1>5, <2>1, HeldType
  <2>3. heap'[Obj(h)].rc \in Int
    BY <1>2, <1>5 DEF Exact, IsHeap, IsCell
  <2> QED
    BY <1>2, <1>6, <1>7, <2>2, <2>3
<1>9. ASSUME NEW i \in DOMAIN heap[Obj(h)].kids PROVE heap'[heap[Obj(h)].kids[i]].rc < 0
  <2> DEFINE x == heap[Obj(h)].kids[i]
  <2>1. heap[Obj(h)].kids \in Seq(Objects) /\ heap'[Obj(h)].kids = heap[Obj(h)].kids
    BY <1>2, <1>6 DEF Exact, IsHeap, IsCell, Marks
  <2>2. x \in Objects /\ Occurrences(heap[Obj(h)].kids, x) > 0
    BY <2>1, SequenceIsFinite, OccurrencesType
  <2>3. Inside(heap', x) >= 1
    BY <1>2, <1>5, <2>1, PlacesPositive DEF Exact
  <2> HIDE DEF x
  <2>4. heap'[x].rc \in Int
    BY <1>5, <2>2 DEF Exact, IsHeap, IsCell
  <2>5. heap'[x].rc < 0
    BY <1>6, <1>7, <2>2, <2>3, <2>4
  <2> QED
    BY <2>5 DEF x
<1>10. ASSUME NEW x \in Objects PROVE heap'[x].rc = heap[x].rc \/ Within(heap, handles[h], x)
  <2>1. CASE x = Obj(h)
    BY <1>2, <2>1 DEF Within, Obj
  <2>2. CASE x # Obj(h) /\ Occurrences(heap[Obj(h)].kids, x) > 0
    <3>1. IsFiniteSet(DOMAIN heap[Obj(h)].kids)
      BY <1>2, SequenceIsFinite DEF Exact, IsHeap, IsCell
    <3>2. (\A i \in DOMAIN heap[Obj(h)].kids : heap[Obj(h)].kids[i] # x)
            => Occurrences(heap[Obj(h)].kids, x) = 0
      BY <3>1, OccurrencesType
    <3>3. PICK i \in DOMAIN heap[Obj(h)].kids : heap[Obj(h)].kids[i] = x
      BY <2>2, <3>2
    <3> QED
      BY <1>2, <3>3 DEF Within, Obj
  <2>3. CASE x # Obj(h) /\ ~(Occurrences(heap[Obj(h)].kids, x) > 0)
    BY <1>1, <2>3 DEF MarkMT
  <2> QED
    BY <2>1, <2>2, <2>3
<1> QED
  BY <1>1, <1>5, <1>6, <1>8, <1>9, <1>10 DEF Settled

\* A new object
LEMMA AllocateSettles ==
  ASSUME Settled(heap, handles), NEW h \in Handles, handles[h] = Empty, NEW t \in Threads,
         NEW r \in Objects, heap[r].kind = "fresh",
         NEW c, IsCell(c), c.rc = 1, c.kids = <<>>,
         heap' = [heap EXCEPT ![r] = c], handles' = [handles EXCEPT ![h] = Bound(t, r)]
  PROVE  Settled(heap', handles') /\ IdleBut({r}, heap, heap') /\ heap'[r] = c
<1>1. Handed(handles) /\ Exact(heap, Held(handles)) /\ handles[h].obj = Null
  BY DEF Settled, Empty
<1>2. IsHandle(Bound(t, r)) /\ Bound(t, r).obj = r
  BY DEF IsHandle, Bound
<1>3. /\ Handed(handles') /\ Moved(Held(handles), Held(handles'), Null, r)
  BY <1>1, <1>2, HeldMoves
<1>4. Held(handles') \in [Objects -> Nat]
  BY <1>3, HeldType
<1>5. heap[r].rc = 0
  BY <1>1 DEF Exact, IsHeap, IsCell
<1>6. Given(Held(handles), Held(handles'), r, c.kids)
  <2> SUFFICES ASSUME NEW x \in Objects
               PROVE  Held(handles')[x] + Occurrences(c.kids, x) = Held(handles)[x] + One(r, x)
    BY DEF Given
  <2>1. Occurrences(c.kids, x) = 0
    <3>1. <<>> \in Seq(Objects)
      OBVIOUS
    <3> QED
      BY <3>1, OccurrencesInArrays
  <2>2. One(Null, x) = 0
    BY LeanObjectsAssumption DEF One
  <2>3. Held(handles')[x] + One(Null, x) = Held(handles)[x] + One(r, x)
    BY <1>3 DEF Moved
  <2>4. Held(handles')[x] \in Nat
    BY <1>4
  <2> QED
    BY <2>1, <2>2, <2>3, <2>4
<1>7. Len(c.kids) <= MaxLen /\ Externals(heap, c.kids)
  BY LeanObjectsAssumption DEF Externals
<1>8. Exact([heap EXCEPT ![r] = c], Held(handles'))
  BY <1>1, <1>4, <1>5, <1>6, <1>7, FillExact
<1>9. heap'[r] = c /\ \A x \in Objects \ {r} : heap'[x] = heap[x]
  BY <1>1 DEF Exact, IsHeap
<1> QED
  BY <1>3, <1>8, <1>9 DEF Settled, IdleBut, Loses

FadesBut(r, hp, hq) == \A x \in Objects \ {r} : Fades(hp[x], hq[x])

\* The array of h, or its copy r, has the elements s; the others are left alone.
Renews(h, r, s, hq) ==
  /\ r \in Objects /\ heap[r].kind \in {"array", "fresh"} /\ (heap[r].rc = 0 <=> r # Obj(h))
  /\ hq[r].kind = "array" /\ hq[r].kids = s /\ hq[r].rc > 0
  /\ IdleBut({r}, heap, hq)

\* An array that has been updated belongs to the handle that it was updated by.
LEMMA UpdateSettles ==
  ASSUME Settled(heap, handles), NEW h \in Handles, IsArray(h), NEW r \in Targets(h),
         NEW s \in Seq(Objects), Len(s) <= MaxLen, Storable(Held(handles), Obj(h), s),
         NEW v \in [Objects -> Nat],
         Balanced(Held(handles), v, Obj(h), r, CellOf(h).kids, s)
  PROVE  /\ Exact(Updated(h, r, s), v)
         /\ Renews(h, r, s, Updated(h, r, s)) /\ FadesBut(r, heap, Updated(h, r, s))
<1> DEFINE w == Held(handles)
           a == Obj(h)
<1>1. /\ Exact(heap, w) /\ a \in Objects /\ w[a] >= 1
      /\ handles[h] # Empty /\ heap[a].kind = "array"
  BY UsableHandles DEF Settled, Obj, IsArray, IsEmpty, CellOf
<1>2. Storable(w, a, s) /\ Balanced(w, v, a, r, heap[a].kids, s) /\ Obj(h) = a
  BY DEF CellOf
<1> HIDE DEF w, a
<1>3. /\ Exact(Updated(h, r, s), v)
      /\ r \in Objects /\ heap[r].kind \in {"array", "fresh"} /\ (heap[r].rc = 0 <=> r # a)
      /\ Updated(h, r, s)[r].kind = "array" /\ Updated(h, r, s)[r].kids = s
      /\ Updated(h, r, s)[r].rc = 1
      /\ \A x \in Objects \ {r} : Fades(heap[x], Updated(h, r, s)[x])
  BY <1>1, <1>2, UpdatedExact
<1>4. \A x \in Objects : IsCell(heap[x]) /\ IsCell(Updated(h, r, s)[x])
  BY <1>1, <1>3 DEF Exact, IsHeap
<1>5. IdleBut({r}, heap, Updated(h, r, s))
  BY <1>3, <1>4, FadesLoses DEF IdleBut
<1> QED
  BY <1>2, <1>3, <1>5 DEF Renews, FadesBut

\* The element that was taken out of it is released.
LEMMA UpdateReleaseSettles ==
  ASSUME Settled(heap, handles), NEW h \in Handles, IsArray(h), NEW r \in Targets(h),
         NEW s \in Seq(Objects), Len(s) <= MaxLen, Storable(Held(handles), Obj(h), s),
         NEW u \in [Objects -> Nat], NEW e \in Objects, u[r] >= 1,
         Balanced(Held(handles), More(u, e), Obj(h), r, CellOf(h).kids, s)
  PROVE  LET hq == Release(Updated(h, r, s), e)
         IN Exact(hq, u) /\ Renews(h, r, s, hq)
<1> DEFINE v == More(u, e)
           hp == Updated(h, r, s)
           hq == Release(hp, e)
<1>1. /\ v \in [Objects -> Nat] /\ v[e] = u[e] + 1
      /\ \A x \in Objects \ {e} : v[x] = u[x]
  BY DEF More
<1>2. Balanced(Held(handles), v, Obj(h), r, CellOf(h).kids, s) /\ v[e] >= 1
  BY <1>1
<1> HIDE DEF v
<1>3. Exact(hp, v) /\ Renews(h, r, s, hp) /\ FadesBut(r, heap, hp)
  BY <1>1, <1>2, UpdateSettles
<1>4. Moved(v, u, e, Null)
  <2> SUFFICES ASSUME NEW x \in Objects PROVE u[x] + One(e, x) = v[x] + One(Null, x)
    BY DEF Moved
  <2>1. One(Null, x) = 0
    BY LeanObjectsAssumption DEF One
  <2>2. v[x] = u[x] + One(e, x) /\ u[x] \in Nat /\ v[x] \in Nat
    BY <1>1 DEF One
  <2> QED
    BY <2>1, <2>2
<1> HIDE DEF hp
<1>5. Exact(hq, u) /\ Wanes(hp, hq)
  BY <1>2, <1>3, <1>4, ReleaseSettles
<1> HIDE DEF hq
<1>0. r \in Objects
  BY <1>3 DEF Renews
<1>6. Size(hq[r]) >= 1
  <2>1. Size(hq[r]) = u[r] + Inside(hq, r) /\ Inside(hq, r) \in Nat
    BY <1>0, <1>5, ReferredIsLive DEF Exact
  <2> QED
    BY <1>0, <2>1
<1>7. hq[r].kind = "array" /\ hq[r].kids = s /\ hq[r].rc > 0
  <2>0. hp[r].kind = "array" /\ hp[r].kids = s /\ hp[r].rc > 0
    BY <1>3 DEF Renews
  <2>1. Fades(hp[r], hq[r])
    BY <1>0, <1>5 DEF Wanes
  <2>2. hq[r].kind = "array" /\ hq[r].kids = s
    BY <1>6, <2>0, <2>1, FadesLive
  <2>3. hq[r] # Freed
    BY <1>6, FreedIsCell
  <2>4. hq[r].rc \in Int /\ hp[r].rc \in Int
    BY <1>0, <1>3, <1>5 DEF Exact, IsHeap, IsCell
  <2> QED
    BY <2>0, <2>1, <2>2, <2>3, <2>4 DEF Fades, SameCell
<1>8. \A x \in Objects \ {r} : Fades(heap[x], hq[x])
  BY <1>3, <1>5, FadesOn DEF Wanes, FadesBut
<1>9. \A x \in Objects : IsCell(heap[x]) /\ IsCell(hq[x])
  BY <1>5 DEF Settled, Exact, IsHeap
<1>10. IdleBut({r}, heap, hq)
  BY <1>8, <1>9, FadesLoses DEF IdleBut
<1> QED
  BY <1>3, <1>5, <1>7, <1>10 DEF hp, hq, Renews

\* What an array operation is given, and how its handle is moved to the new array
LEMMA ArrayHandles ==
  ASSUME Settled(heap, handles), NEW h \in Handles, IsArray(h), NEW r \in Targets(h)
  PROVE  /\ Handed(handles) /\ Exact(heap, Held(handles)) /\ handles[h] # Empty
         /\ Obj(h) \in Objects /\ heap[Obj(h)].kind = "array"
         /\ CellOf(h).kids \in Seq(Objects) /\ Len(CellOf(h).kids) <= MaxLen
         /\ r \in Objects /\ handles[h].thread \in Threads
         /\ [handles[h] EXCEPT !.obj = r] = Bound(handles[h].thread, r)
         /\ IsHandle(Bound(handles[h].thread, r)) /\ Bound(handles[h].thread, r).obj = r
         /\ \A i \in DOMAIN CellOf(h).kids :
              CellOf(h).kids[i] \in Objects /\ heap[CellOf(h).kids[i]].kind = "external"
<1>1. /\ Handed(handles) /\ Exact(heap, Held(handles)) /\ handles[h] # Empty
      /\ handles[h].form = "bound" /\ heap[Obj(h)].kind = "array" /\ CellOf(h) = heap[Obj(h)]
  BY DEF Settled, IsArray, IsEmpty, CellOf
<1>2. Obj(h) \in Objects
  BY <1>1, UsableHandles DEF Obj
<1>3. CellOf(h).kids \in Seq(Objects) /\ Len(CellOf(h).kids) <= MaxLen
  BY <1>1, <1>2 DEF Exact, IsHeap, IsCell
<1>4. r \in Objects
  BY <1>2 DEF Targets, FreshObjects
<1> DEFINE t == handles[h].thread
           o == handles[h].obj
<1>5. t \in Threads /\ handles[h] = Bound(t, o)
  BY <1>1, HandleForms DEF Handed
<1>6. [handles[h] EXCEPT !.obj = r] = Bound(t, r)
  <2> HIDE DEF t, o
  <2> QED
    BY <1>5 DEF Bound
<1>7. IsHandle(Bound(t, r)) /\ Bound(t, r).obj = r
  BY <1>4, <1>5 DEF IsHandle, Bound
<1>8. \A i \in DOMAIN CellOf(h).kids :
        CellOf(h).kids[i] \in Objects /\ heap[CellOf(h).kids[i]].kind = "external"
  BY <1>1, <1>2, <1>3, SequenceIsFinite DEF Exact, Flat
<1> QED
  BY <1>1, <1>2, <1>3, <1>4, <1>5, <1>6, <1>7, <1>8

\* What is given to the array besides: an external that a handle of the same thread holds
LEMMA GivenHandles ==
  ASSUME Settled(heap, handles), NEW g \in Handles, IsExternal(g)
  PROVE  /\ Obj(g) \in Objects /\ heap[Obj(g)].kind = "external"
         /\ Held(handles)[Obj(g)] >= 1 /\ handles[g] # Empty /\ heap[Obj(g)].rc # 0
         /\ handles[g].form = "bound" /\ handles[g].thread \in Threads
<1>1. /\ handles[g] # Empty /\ heap[Obj(g)].kind = "external"
      /\ handles[g].form = "bound" /\ IsHandle(handles[g])
  BY DEF IsExternal, IsEmpty, CellOf, Settled, Handed
<1>2. Obj(g) \in Objects /\ Held(handles)[Obj(g)] >= 1 /\ heap[Obj(g)].rc # 0
  BY <1>1, UsableHandles DEF Obj
<1>3. handles[g].thread \in Threads
  BY <1>1, HandleForms
<1> QED
  BY <1>1, <1>2, <1>3

\* One reference more is one more of that object.
LEMMA MoreAdds ==
  ASSUME NEW u \in [Objects -> Nat], NEW e, NEW x \in Objects
  PROVE  More(u, e)[x] = u[x] + One(e, x)
<1>1. u[x] \in Nat
  OBVIOUS
<1>2. More(u, e)[x] = IF x = e THEN u[x] + 1 ELSE u[x]
  BY DEF More
<1>3. CASE x = e
  BY <1>2, <1>3 DEF One
<1>4. CASE x # e
  BY <1>1, <1>2, <1>4 DEF One
<1> QED
  BY <1>3, <1>4

\* push
LEMMA PushBalances ==
  ASSUME NEW w \in [Objects -> Nat], NEW u \in [Objects -> Nat], NEW a, NEW r,
         NEW e \in Objects, NEW t \in Seq(Objects), MovedTwo(w, u, a, e, r, Null)
  PROVE  Balanced(w, u, a, r, t, Append(t, e))
<1> SUFFICES ASSUME NEW x \in Objects
             PROVE  u[x] + Occurrences(Append(t, e), x) + One(a, x)
                      = w[x] + One(r, x) + Occurrences(t, x)
  BY DEF Balanced
<1> DEFINE i == u[x]
           j == w[x]
           k == Occurrences(t, x)
           l == Occurrences(Append(t, e), x)
           m == One(a, x)
           n == One(r, x)
           o == One(e, x)
<1>1. i \in Nat /\ j \in Nat /\ k \in Nat /\ m \in Nat /\ n \in Nat /\ o \in Nat
  BY SequenceIsFinite, OccurrencesType DEF One
<1>2. l = k + o
  BY OccurrencesInArrays
<1>3. One(Null, x) = 0
  BY LeanObjectsAssumption DEF One
<1>4. i + m + o = j + n + 0
  BY <1>3 DEF MovedTwo
<1> HIDE DEF i, j, k, l, m, n, o
<1>5. i + l + m = j + n + k
  BY <1>1, <1>2, <1>4
<1> QED
  BY <1>5 DEF i, j, k, l, m, n

\* pop
LEMMA PopBalances ==
  ASSUME NEW w \in [Objects -> Nat], NEW u \in [Objects -> Nat], NEW a, NEW r,
         NEW t \in Seq(Objects), t # <<>>, Moved(w, u, a, r)
  PROVE  Balanced(w, More(u, t[Len(t)]), a, r, t, SubSeq(t, 1, Len(t) - 1))
<1> SUFFICES ASSUME NEW x \in Objects
             PROVE  More(u, t[Len(t)])[x] + Occurrences(SubSeq(t, 1, Len(t) - 1), x) + One(a, x)
                      = w[x] + One(r, x) + Occurrences(t, x)
  BY DEF Balanced
<1> DEFINE i == u[x]
           j == w[x]
           k == Occurrences(t, x)
           l == Occurrences(SubSeq(t, 1, Len(t) - 1), x)
           m == One(a, x)
           n == One(r, x)
           o == One(t[Len(t)], x)
           q == More(u, t[Len(t)])[x]
<1>1. i \in Nat /\ j \in Nat /\ k \in Nat /\ m \in Nat /\ n \in Nat /\ o \in Nat
  BY SequenceIsFinite, OccurrencesType DEF One
<1>2. l = k - o
  BY OccurrencesInArrays
<1>3. q = i + o
  BY MoreAdds
<1>4. i + m = j + n
  BY DEF Moved
<1> HIDE DEF i, j, k, l, m, n, o, q
<1>5. q + l + m = j + n + k
  BY <1>1, <1>2, <1>3, <1>4
<1> QED
  BY <1>5 DEF q, j, k, l, m, n

\* One element d fewer, one element e more
Swapped(t, s, d, e) ==
  \A x \in Objects : Occurrences(s, x) = Occurrences(t, x) - One(d, x) + One(e, x)

\* An element is replaced.
LEMMA ElementReplaced ==
  ASSUME NEW t \in Seq(Objects), NEW i \in DOMAIN t, NEW e \in Objects
  PROVE  LET s == [t EXCEPT ![i] = e]
         IN /\ s \in Seq(Objects) /\ Len(s) = Len(t) /\ DOMAIN s = DOMAIN t
            /\ s[i] = e /\ \A k \in DOMAIN t \ {i} : s[k] = t[k]
            /\ Swapped(t, s, t[i], e)
<1> DEFINE s == [t EXCEPT ![i] = e]
<1>1. /\ s \in Seq(Objects) /\ Len(s) = Len(t) /\ DOMAIN s = DOMAIN t
      /\ s[i] = e /\ \A k \in DOMAIN t \ {i} : s[k] = t[k]
  OBVIOUS
<1> HIDE DEF s
<1>2. IsFiniteSet(DOMAIN t)
  BY SequenceIsFinite
<1>3. ASSUME NEW x \in Objects
      PROVE  Occurrences(s, x) = Occurrences(t, x) - One(t[i], x) + One(e, x)
  BY <1>1, <1>2, OccurrencesUpdate
<1> QED
  BY <1>1, <1>3 DEF s, Swapped

\* set
LEMMA SetBalances ==
  ASSUME NEW w \in [Objects -> Nat], NEW u \in [Objects -> Nat], NEW a, NEW r,
         NEW e \in Objects, NEW t \in Seq(Objects), NEW i \in DOMAIN t,
         MovedTwo(w, u, a, e, r, Null)
  PROVE  Balanced(w, More(u, t[i]), a, r, t, [t EXCEPT ![i] = e])
<1> DEFINE s == [t EXCEPT ![i] = e]
<1>0. \A x \in Objects : Occurrences(s, x) = Occurrences(t, x) - One(t[i], x) + One(e, x)
  BY ElementReplaced DEF Swapped
<1> HIDE DEF s
<1> SUFFICES ASSUME NEW x \in Objects
             PROVE  More(u, t[i])[x] + Occurrences(s, x) + One(a, x)
                      = w[x] + One(r, x) + Occurrences(t, x)
  BY DEF Balanced, s
<1> DEFINE d == u[x]
           j == w[x]
           k == Occurrences(t, x)
           l == Occurrences(s, x)
           m == One(a, x)
           n == One(r, x)
           o == One(t[i], x)
           f == One(e, x)
           q == More(u, t[i])[x]
<1>1. /\ d \in Nat /\ j \in Nat /\ k \in Nat /\ m \in Nat /\ n \in Nat /\ o \in Nat
      /\ f \in Nat
  BY SequenceIsFinite, OccurrencesType DEF One
<1>2. l = k - o + f
  BY <1>0
<1>3. q = d + o
  BY MoreAdds
<1>4. One(Null, x) = 0
  BY LeanObjectsAssumption DEF One
<1>5. d + m + f = j + n + 0
  BY <1>4 DEF MovedTwo
<1> HIDE DEF d, j, k, l, m, n, o, f, q
<1>6. q + l + m = j + n + k
  BY <1>1, <1>2, <1>3, <1>5
<1> QED
  BY <1>6 DEF q, j, k, l, m, n

\* swap
LEMMA SwapBalances ==
  ASSUME NEW w \in [Objects -> Nat], NEW u \in [Objects -> Nat], NEW a, NEW r,
         NEW t \in Seq(Objects), NEW i \in DOMAIN t, NEW j \in DOMAIN t, i # j,
         Moved(w, u, a, r)
  PROVE  Balanced(w, u, a, r, t, [t EXCEPT ![i] = t[j], ![j] = t[i]])
<1> DEFINE c == [t EXCEPT ![i] = t[j]]
           s == [c EXCEPT ![j] = t[i]]
<1>1. [t EXCEPT ![i] = t[j], ![j] = t[i]] = s
  OBVIOUS
<1>2. t[i] \in Objects /\ t[j] \in Objects
  BY SequenceIsFinite
<1>3. /\ c \in Seq(Objects) /\ j \in DOMAIN c /\ c[j] = t[j]
      /\ \A x \in Objects : Occurrences(c, x) = Occurrences(t, x) - One(t[i], x) + One(t[j], x)
  BY <1>2, ElementReplaced DEF Swapped
<1> HIDE DEF c
<1>4. \A x \in Objects : Occurrences(s, x) = Occurrences(c, x) - One(t[j], x) + One(t[i], x)
  <2> DEFINE e == t[i]
  <2>1. c \in Seq(Objects) /\ j \in DOMAIN c /\ e \in Objects /\ s = [c EXCEPT ![j] = e]
    BY <1>2, <1>3
  <2> HIDE DEF e
  <2>2. Swapped(c, s, c[j], e)
    BY <2>1, ElementReplaced
  <2> HIDE DEF s
  <2> QED
    BY <1>3, <2>2 DEF e, Swapped
<1> HIDE DEF s
<1> SUFFICES ASSUME NEW x \in Objects
             PROVE  u[x] + Occurrences(s, x) + One(a, x) = w[x] + One(r, x) + Occurrences(t, x)
  BY <1>1 DEF Balanced
<1> DEFINE d == u[x]
           e == w[x]
           k == Occurrences(t, x)
           l == Occurrences(s, x)
           f == Occurrences(c, x)
           m == One(a, x)
           n == One(r, x)
           o == One(t[i], x)
           q == One(t[j], x)
<1>5. /\ d \in Nat /\ e \in Nat /\ k \in Nat /\ m \in Nat /\ n \in Nat /\ o \in Nat
      /\ q \in Nat
  BY SequenceIsFinite, OccurrencesType DEF One
<1>6. f = k - o + q /\ l = f - q + o
  BY <1>3, <1>4
<1>7. d + m = e + n
  BY DEF Moved
<1> HIDE DEF d, e, k, l, f, m, n, o, q
<1>8. d + l + m = e + n + k
  BY <1>5, <1>6, <1>7
<1> QED
  BY <1>8 DEF d, e, k, l, m, n

\* What an array may hold does not change when elements are dropped.
LEMMA StorableElements ==
  ASSUME NEW w, NEW a, NEW s,
         \A i \in DOMAIN s : \/ \E j \in DOMAIN heap[a].kids : heap[a].kids[j] = s[i]
                             \/ w[s[i]] >= 1 /\ heap[s[i]].kind = "external",
         \A j \in DOMAIN heap[a].kids : heap[heap[a].kids[j]].kind = "external"
  PROVE  Storable(w, a, s)
BY DEF Storable

\* The references that the handles give up and take when an array was updated
LEMMA ArrayMoves ==
  ASSUME NEW h \in Handles, NEW y, IsHandle(y), Handed(handles),
         NEW hs, hs = [handles EXCEPT ![h] = y]
  PROVE  Handed(hs) /\ Held(hs) \in [Objects -> Nat] /\ Moved(Held(handles), Held(hs), Obj(h), y.obj)
BY HeldMoves, HeldType DEF Obj

\* The same when the handle of an element was given to the array as well
LEMMA ElementMoves ==
  ASSUME NEW h \in Handles, NEW g \in Handles \ {h}, NEW y, IsHandle(y), Handed(handles),
         NEW hs, hs = [handles EXCEPT ![h] = y, ![g] = Empty]
  PROVE  /\ Handed(hs) /\ Held(hs) \in [Objects -> Nat]
         /\ MovedTwo(Held(handles), Held(hs), Obj(h), Obj(g), y.obj, Null)
<1>1. IsHandle(Empty) /\ Empty.obj = Null
  BY DEF IsHandle, Empty
<1>2. g \in Handles /\ h # g
  OBVIOUS
<1>3. Handed(hs) /\ MovedTwo(Held(handles), Held(hs), handles[h].obj, handles[g].obj, y.obj, Null)
  BY <1>1, <1>2, HeldMovesTwo
<1> QED
  BY <1>3, HeldType DEF Obj

\* lean_array_push
LEMMA PushWorks ==
  ASSUME Settled(heap, handles), NEW h \in Handles, NEW g \in Handles \ {h},
         IsArray(h), IsExternal(g), Len(CellOf(h).kids) < MaxLen, NEW r \in Targets(h),
         heap' = Updated(h, r, Append(CellOf(h).kids, Obj(g))),
         handles' = [handles EXCEPT ![h].obj = r, ![g] = Empty]
  PROVE  /\ Settled(heap', handles') /\ Renews(h, r, Append(CellOf(h).kids, Obj(g)), heap')
         /\ handles' = [handles EXCEPT ![h] = Bound(handles[h].thread, r), ![g] = Empty]
<1> DEFINE t == CellOf(h).kids
           e == Obj(g)
           a == Obj(h)
           w == Held(handles)
           u == Held(handles')
           y == Bound(handles[h].thread, r)
           s == Append(t, e)
<1>1. /\ Handed(handles) /\ a \in Objects /\ t \in Seq(Objects) /\ Len(t) <= MaxLen
      /\ r \in Objects /\ [handles[h] EXCEPT !.obj = r] = y /\ IsHandle(y) /\ y.obj = r
      /\ \A i \in DOMAIN t : t[i] \in Objects /\ heap[t[i]].kind = "external"
      /\ t = heap[a].kids
  BY ArrayHandles DEF CellOf
<1>2. e \in Objects /\ heap[e].kind = "external" /\ w[e] >= 1
  BY GivenHandles
<1>3. handles' = [handles EXCEPT ![h] = y, ![g] = Empty]
  <2> HIDE DEF y
  <2> QED
    BY <1>1
<1>4. Handed(handles') /\ MovedTwo(w, u, a, e, r, Null)
  <2>1. Handed(handles) /\ IsHandle(y) /\ y.obj = r
    BY <1>1
  <2> HIDE DEF y
  <2>2. Handed(handles') /\ MovedTwo(w, u, a, e, y.obj, Null)
    BY <1>3, <2>1, ElementMoves
  <2> QED
    BY <2>1, <2>2
<1>5. w \in [Objects -> Nat] /\ u \in [Objects -> Nat]
  BY <1>1, <1>4, HeldType
<1>6. /\ s \in Seq(Objects) /\ Len(s) <= MaxLen
      /\ \A i \in DOMAIN s : (i \in DOMAIN t /\ s[i] = t[i]) \/ s[i] = e
  <2>1. t \in Seq(Objects) /\ e \in Objects /\ Len(t) < MaxLen /\ Len(t) \in Nat
    BY <1>1, <1>2
  <2> HIDE DEF t, e
  <2> QED
    BY <2>1, LeanObjectsAssumption
<1> HIDE DEF t, e, a, w, u, y
<1>7. Balanced(w, u, a, r, t, s)
  BY <1>1, <1>2, <1>4, <1>5, PushBalances
<1> HIDE DEF s
<1>8. Storable(w, a, s)
  BY <1>1, <1>2, <1>6, StorableElements
<1>9. Exact(Updated(h, r, s), u) /\ Renews(h, r, s, Updated(h, r, s))
  <2>1. Storable(Held(handles), Obj(h), s) /\ Balanced(Held(handles), u, Obj(h), r, CellOf(h).kids, s)
    BY <1>7, <1>8 DEF w, a, t
  <2> QED
    BY <1>5, <1>6, <2>1, UpdateSettles
<1>10. heap' = Updated(h, r, s)
  BY DEF s, t, e
<1> QED
  BY <1>3, <1>4, <1>9, <1>10 DEF Settled, s, t, e, u, y

\* lean_array_swap
LEMMA SwapWorks ==
  ASSUME Settled(heap, handles), NEW h \in Handles, IsArray(h),
         NEW i \in DOMAIN CellOf(h).kids, NEW j \in DOMAIN CellOf(h).kids, i # j,
         NEW r \in Targets(h),
         heap' = Updated(h, r, [CellOf(h).kids EXCEPT ![i] = CellOf(h).kids[j],
                                                      ![j] = CellOf(h).kids[i]]),
         handles' = [handles EXCEPT ![h].obj = r]
  PROVE  /\ Settled(heap', handles')
         /\ Renews(h, r, [CellOf(h).kids EXCEPT ![i] = CellOf(h).kids[j],
                                                ![j] = CellOf(h).kids[i]], heap')
         /\ handles' = [handles EXCEPT ![h] = Bound(handles[h].thread, r)]
<1> DEFINE t == CellOf(h).kids
           a == Obj(h)
           w == Held(handles)
           u == Held(handles')
           y == Bound(handles[h].thread, r)
           s == [t EXCEPT ![i] = t[j], ![j] = t[i]]
<1>1. /\ Handed(handles) /\ a \in Objects /\ t \in Seq(Objects) /\ Len(t) <= MaxLen
      /\ r \in Objects /\ [handles[h] EXCEPT !.obj = r] = y /\ IsHandle(y) /\ y.obj = r
      /\ \A k \in DOMAIN t : t[k] \in Objects /\ heap[t[k]].kind = "external"
      /\ t = heap[a].kids
  BY ArrayHandles DEF CellOf
<1>2. handles' = [handles EXCEPT ![h] = y]
  <2> HIDE DEF y
  <2> QED
    BY <1>1
<1>3. Handed(handles') /\ Moved(w, u, a, r)
  <2>1. Handed(handles) /\ IsHandle(y) /\ y.obj = r
    BY <1>1
  <2> HIDE DEF y
  <2>2. Handed(handles') /\ Moved(w, u, a, y.obj)
    BY <1>2, <2>1, ArrayMoves
  <2> QED
    BY <2>1, <2>2
<1>4. w \in [Objects -> Nat] /\ u \in [Objects -> Nat]
  BY <1>1, <1>3, HeldType
<1>5. /\ s \in Seq(Objects) /\ Len(s) <= MaxLen
      /\ \A k \in DOMAIN s : \E l \in DOMAIN t : t[l] = s[k]
  <2>1. /\ t \in Seq(Objects) /\ Len(t) <= MaxLen /\ i \in DOMAIN t /\ j \in DOMAIN t
        /\ \A k \in DOMAIN t : t[k] \in Objects
    BY <1>1
  <2> HIDE DEF t
  <2>2. /\ DOMAIN s = DOMAIN t /\ s \in Seq(Objects) /\ Len(s) = Len(t)
        /\ s[j] = t[i] /\ (i # j => s[i] = t[j])
        /\ \A k \in DOMAIN t \ {i, j} : s[k] = t[k]
    BY <2>1
  <2> QED
    BY <2>1, <2>2
<1>6. i \in DOMAIN t /\ j \in DOMAIN t
  OBVIOUS
<1> HIDE DEF t, a, w, u, y
<1>7. Balanced(w, u, a, r, t, s)
  BY <1>1, <1>3, <1>4, <1>6, SwapBalances
<1> HIDE DEF s
<1>8. Storable(w, a, s)
  BY <1>1, <1>5, StorableElements
<1>9. Exact(Updated(h, r, s), u) /\ Renews(h, r, s, Updated(h, r, s))
  <2>1. Storable(Held(handles), Obj(h), s) /\ Balanced(Held(handles), u, Obj(h), r, CellOf(h).kids, s)
    BY <1>7, <1>8 DEF w, a, t
  <2> QED
    BY <1>4, <1>5, <2>1, UpdateSettles
<1>10. heap' = Updated(h, r, s)
  BY DEF s, t
<1> QED
  BY <1>2, <1>3, <1>9, <1>10 DEF Settled, s, t, u, y

\* lean_array_pop: the last element is released.
LEMMA PopWorks ==
  ASSUME Settled(heap, handles), NEW h \in Handles, IsArray(h), CellOf(h).kids # <<>>,
         NEW r \in Targets(h), NEW n, n = Len(CellOf(h).kids),
         heap' = Release(Updated(h, r, SubSeq(CellOf(h).kids, 1, n - 1)), CellOf(h).kids[n]),
         handles' = [handles EXCEPT ![h].obj = r]
  PROVE  /\ Settled(heap', handles')
         /\ Renews(h, r, SubSeq(CellOf(h).kids, 1, n - 1), heap')
         /\ handles' = [handles EXCEPT ![h] = Bound(handles[h].thread, r)]
<1> DEFINE t == CellOf(h).kids
           a == Obj(h)
           w == Held(handles)
           u == Held(handles')
           y == Bound(handles[h].thread, r)
           s == SubSeq(t, 1, n - 1)
           e == t[n]
<1>1. /\ Handed(handles) /\ a \in Objects /\ t \in Seq(Objects) /\ Len(t) <= MaxLen
      /\ r \in Objects /\ [handles[h] EXCEPT !.obj = r] = y /\ IsHandle(y) /\ y.obj = r
      /\ \A k \in DOMAIN t : t[k] \in Objects /\ heap[t[k]].kind = "external"
      /\ t = heap[a].kids
  BY ArrayHandles DEF CellOf
<1>2. handles' = [handles EXCEPT ![h] = y]
  <2> HIDE DEF y
  <2> QED
    BY <1>1
<1>3. Handed(handles') /\ Moved(w, u, a, r)
  <2>1. Handed(handles) /\ IsHandle(y) /\ y.obj = r
    BY <1>1
  <2> HIDE DEF y
  <2>2. Handed(handles') /\ Moved(w, u, a, y.obj)
    BY <1>2, <2>1, ArrayMoves
  <2> QED
    BY <2>1, <2>2
<1>4. w \in [Objects -> Nat] /\ u \in [Objects -> Nat] /\ u[r] >= 1
  <2>1. handles'[h].obj = r
    <3> HIDE DEF y
    <3> QED
      BY <1>1, <1>2 DEF Handed
  <2> QED
    BY <1>1, <1>3, <2>1, HeldType
<1>5. /\ s \in Seq(Objects) /\ Len(s) <= MaxLen
      /\ \A k \in DOMAIN s : \E l \in DOMAIN t : t[l] = s[k]
      /\ e \in Objects /\ n = Len(t) /\ t # <<>>
  <2>1. t \in Seq(Objects) /\ Len(t) <= MaxLen /\ n = Len(t) /\ t # <<>> /\ MaxLen \in Nat
    BY <1>1, LeanObjectsAssumption
  <2> HIDE DEF t
  <2>2. n \in Nat /\ n >= 1 /\ n - 1 \in Nat /\ n - 1 <= Len(t)
    BY <2>1
  <2>3. s \in Seq(Objects) /\ Len(s) = n - 1 /\ \A k \in 1 .. n - 1 : s[k] = t[k]
    <3> DEFINE l == n - 1
    <3>1. l \in Nat /\ l <= Len(t) /\ l < n
      BY <2>2
    <3> HIDE DEF l
    <3>2. /\ SubSeq(t, 1, l) \in Seq(Objects) /\ Len(SubSeq(t, 1, l)) = l
          /\ \A k \in 1 .. l : SubSeq(t, 1, l)[k] = t[k]
      BY <2>1, <3>1
    <3> QED
      BY <3>2 DEF l
  <2>4. DOMAIN t = 1 .. n /\ DOMAIN s = 1 .. n - 1
    <3> HIDE DEF s
    <3> QED
      BY <2>1, <2>2, <2>3
  <2> HIDE DEF s
  <2>5. \A k \in 1 .. n - 1 : k \in 1 .. n
    BY <2>2
  <2>6. \A k \in DOMAIN s : \E l \in DOMAIN t : t[l] = s[k]
    BY <2>3, <2>4, <2>5
  <2>7. e \in Objects
    BY <2>1, <2>2, <2>4
  <2>8. Len(s) <= MaxLen
    BY <2>1, <2>2, <2>3
  <2> QED
    BY <2>1, <2>3, <2>6, <2>7, <2>8
<1> HIDE DEF t, a, w, u, y, s, e
<1>6. Balanced(w, More(u, e), a, r, t, s)
  <2>1. Balanced(w, More(u, t[Len(t)]), a, r, t, SubSeq(t, 1, Len(t) - 1))
    BY <1>1, <1>3, <1>4, <1>5, PopBalances
  <2> QED
    BY <1>5, <2>1 DEF e, s
<1>7. Storable(w, a, s)
  BY <1>1, <1>5, StorableElements
<1> DEFINE hq == Release(Updated(h, r, s), e)
<1>8. Exact(hq, u) /\ Renews(h, r, s, hq)
  <2>1. /\ Storable(Held(handles), Obj(h), s)
        /\ Balanced(Held(handles), More(u, e), Obj(h), r, CellOf(h).kids, s)
    BY <1>6, <1>7 DEF w, a, t
  <2> QED
    BY <1>4, <1>5, <2>1, UpdateReleaseSettles
<1>9. heap' = hq
  BY DEF s, t, e
<1> HIDE DEF hq
<1> QED
  BY <1>2, <1>3, <1>8, <1>9 DEF Settled, s, t, u, y

\* lean_array_set: the element that was there is released.
LEMMA SetWorks ==
  ASSUME Settled(heap, handles), NEW h \in Handles, NEW g \in Handles \ {h},
         IsArray(h), IsExternal(g), NEW i \in DOMAIN CellOf(h).kids, NEW r \in Targets(h),
         heap' = Release(Updated(h, r, [CellOf(h).kids EXCEPT ![i] = Obj(g)]), CellOf(h).kids[i]),
         handles' = [handles EXCEPT ![h].obj = r, ![g] = Empty]
  PROVE  /\ Settled(heap', handles')
         /\ Renews(h, r, [CellOf(h).kids EXCEPT ![i] = Obj(g)], heap')
         /\ handles' = [handles EXCEPT ![h] = Bound(handles[h].thread, r), ![g] = Empty]
<1> DEFINE t == CellOf(h).kids
           a == Obj(h)
           o == Obj(g)
           w == Held(handles)
           u == Held(handles')
           y == Bound(handles[h].thread, r)
           s == [t EXCEPT ![i] = o]
           e == t[i]
<1>1. /\ Handed(handles) /\ a \in Objects /\ t \in Seq(Objects) /\ Len(t) <= MaxLen
      /\ r \in Objects /\ [handles[h] EXCEPT !.obj = r] = y /\ IsHandle(y) /\ y.obj = r
      /\ \A k \in DOMAIN t : t[k] \in Objects /\ heap[t[k]].kind = "external"
      /\ t = heap[a].kids /\ i \in DOMAIN t
  BY ArrayHandles DEF CellOf
<1>2. o \in Objects /\ heap[o].kind = "external" /\ w[o] >= 1
  BY GivenHandles
<1>3. handles' = [handles EXCEPT ![h] = y, ![g] = Empty]
  <2> HIDE DEF y
  <2> QED
    BY <1>1
<1>4. Handed(handles') /\ MovedTwo(w, u, a, o, r, Null)
  <2>1. Handed(handles) /\ IsHandle(y) /\ y.obj = r
    BY <1>1
  <2> HIDE DEF y
  <2>2. Handed(handles') /\ MovedTwo(w, u, a, o, y.obj, Null)
    BY <1>3, <2>1, ElementMoves
  <2> QED
    BY <2>1, <2>2
<1>5. w \in [Objects -> Nat] /\ u \in [Objects -> Nat] /\ u[r] >= 1
  <2>1. handles'[h].obj = r
    <3> HIDE DEF y
    <3> QED
      BY <1>1, <1>3 DEF Handed
  <2>2. Handed(handles) /\ Handed(handles') /\ r \in Objects
    BY <1>1, <1>4
  <2>3. w \in [Objects -> Nat]
    BY <2>2, HeldType
  <2>4. u \in [Objects -> Nat] /\ u[handles'[h].obj] >= 1
    BY <2>1, <2>2, HeldType
  <2> QED
    BY <2>1, <2>3, <2>4
<1>6. /\ s \in Seq(Objects) /\ Len(s) <= MaxLen /\ e \in Objects
      /\ \A k \in DOMAIN s : (k \in DOMAIN t /\ s[k] = t[k]) \/ s[k] = o
  <2>1. t \in Seq(Objects) /\ Len(t) <= MaxLen /\ i \in DOMAIN t /\ o \in Objects /\ t[i] \in Objects
    BY <1>1, <1>2
  <2> HIDE DEF t, o
  <2>2. /\ s \in Seq(Objects) /\ Len(s) = Len(t) /\ DOMAIN s = DOMAIN t
        /\ s[i] = o /\ \A k \in DOMAIN t \ {i} : s[k] = t[k]
    BY <2>1
  <2> HIDE DEF s
  <2> QED
    BY <2>1, <2>2
<1> HIDE DEF t, a, o, w, u, y
<1>7. Balanced(w, More(u, e), a, r, t, s)
  BY <1>1, <1>2, <1>4, <1>5, SetBalances
<1> HIDE DEF s, e
<1>8. Storable(w, a, s)
  BY <1>1, <1>2, <1>6, StorableElements
<1> DEFINE hq == Release(Updated(h, r, s), e)
<1>9. Exact(hq, u) /\ Renews(h, r, s, hq)
  <2>1. /\ Storable(Held(handles), Obj(h), s)
        /\ Balanced(Held(handles), More(u, e), Obj(h), r, CellOf(h).kids, s)
    BY <1>7, <1>8 DEF w, a, t
  <2> QED
    BY <1>5, <1>6, <2>1, UpdateReleaseSettles
<1>10. heap' = hq
  BY DEF s, t, e, o
<1> HIDE DEF hq
<1> QED
  BY <1>3, <1>4, <1>9, <1>10 DEF Settled, s, t, o, u, y

\* The external of h, or r in its place, has payload p; the others are left alone.
Writes(h, r, p, hq) ==
  /\ r \in Objects /\ heap[r].kind \in {"external", "fresh"} /\ (heap[r].rc = 0 <=> r # Obj(h))
  /\ hq[r].kind = "external" /\ hq[r].val = p /\ hq[r].kids = <<>>
  /\ hq[r].rc = 1
  /\ IdleBut({r}, heap, hq)

\* An exclusive external is changed in place.
LEMMA WriteInPlace ==
  ASSUME Settled(heap, handles), NEW h \in Handles, IsExternal(h), IsExclusive(CellOf(h)),
         NEW p \in Payloads \cup {Null},
         NEW hq, hq = [heap EXCEPT ![Obj(h)].val = p]
  PROVE  Settled(hq, handles) /\ Writes(h, Obj(h), p, hq)
<1> DEFINE a == Obj(h)
<1>1. a \in Objects /\ heap[a].kind = "external" /\ heap[a].rc = 1
  BY GivenHandles DEF IsExclusive, CellOf
<1>2. Exact(heap, Held(handles)) /\ Handed(handles) /\ IsCell(heap[a]) /\ IsHeap(heap)
  BY <1>1 DEF Settled, Exact, IsHeap
<1>3. hq = [heap EXCEPT ![a].val = p]
  OBVIOUS
<1>4. /\ hq[a] = [heap[a] EXCEPT !.val = p]
      /\ \A x \in Objects \ {a} : hq[x] = heap[x]
  BY <1>1, <1>2, <1>3 DEF IsHeap
<1> HIDE DEF a
<1>5. hq[a] = [kind |-> heap[a].kind, rc |-> heap[a].rc, val |-> p, kids |-> heap[a].kids]
  BY <1>2, <1>4 DEF IsCell
<1>6. hq[a].kind = "external" /\ hq[a].val = p /\ hq[a].kids = <<>> /\ hq[a].rc = 1
  <2>1. heap[a].kids = <<>>
    BY <1>1, <1>2 DEF IsCell
  <2> QED
    BY <1>1, <1>5, <2>1
<1>7. Exact(hq, Held(handles))
  <2>1. Exact(heap, Held(handles)) /\ a \in Objects /\ heap[a].kind = "external"
    BY <1>1, <1>2
  <2>2. Exact([heap EXCEPT ![a].val = p], Held(handles))
    BY <2>1, PayloadExact
  <2> QED
    BY <1>3, <2>2
<1>8. IdleBut({a}, heap, hq)
  BY <1>4 DEF IdleBut, Loses
<1>9. a = Obj(h)
  BY DEF a
<1> QED
  BY <1>1, <1>2, <1>6, <1>7, <1>8, <1>9 DEF Settled, Writes

\* A shared external is left to the other handles, and h gets one of its own.
LEMMA WriteCopy ==
  ASSUME Settled(heap, handles), NEW h \in Handles, IsExternal(h),
         NEW r \in Objects, heap[r].kind = "fresh", NEW p \in Payloads,
         NEW hq, hq = [Release(heap, Obj(h)) EXCEPT ![r] = External(p)],
         NEW hs, hs = [handles EXCEPT ![h] = Bound(handles[h].thread, r)]
  PROVE  Settled(hq, hs) /\ Writes(h, r, p, hq)
<1> DEFINE a == Obj(h)
           w == Held(handles)
           u == Held(hs)
           y == Bound(handles[h].thread, r)
           c == External(p)
           hp == Release(heap, a)
           v == Less(w, a)
<1>1. a \in Objects /\ heap[a].kind = "external" /\ w[a] >= 1 /\ handles[h].thread \in Threads
  BY GivenHandles
<1>2. Exact(heap, w) /\ Handed(handles) /\ w \in [Objects -> Nat]
  BY DEF Settled, Exact
<1>3. IsHandle(y) /\ y.obj = r
  BY <1>1 DEF IsHandle, Bound
<1>4. Handed(hs) /\ u \in [Objects -> Nat] /\ Moved(w, u, a, r)
  <2>1. IsHandle(y) /\ y.obj = r /\ hs = [handles EXCEPT ![h] = y] /\ Handed(handles)
    BY <1>2, <1>3
  <2> HIDE DEF y
  <2>2. Handed(hs) /\ u \in [Objects -> Nat] /\ Moved(w, u, a, y.obj)
    BY <2>1, ArrayMoves
  <2> QED
    BY <2>1, <2>2
<1>5. r # a /\ heap[r].rc = 0
  BY <1>1, <1>2 DEF Exact, IsHeap, IsCell
<1>6. hq = [hp EXCEPT ![r] = c] /\ a = Obj(h)
  OBVIOUS
<1> HIDE DEF a, w, u, y
<1>7. Exact(hp, v) /\ Wanes(heap, hp)
  BY <1>1, <1>2, ReleaseExact
<1>8. \A x \in Objects : v[x] + One(a, x) = w[x] /\ v[x] \in Nat /\ w[x] \in Nat
  <2> SUFFICES ASSUME NEW x \in Objects
               PROVE  v[x] + One(a, x) = w[x] /\ v[x] \in Nat /\ w[x] \in Nat
    OBVIOUS
  <2>1. w[x] \in Nat /\ v[x] \in Nat
    BY <1>2, <1>7 DEF Exact
  <2>2. v[x] = IF x = a THEN w[x] - 1 ELSE w[x]
    BY <1>2 DEF Less
  <2> QED
    BY <2>1, <2>2 DEF One
<1> HIDE DEF hp, v
<1>9. hp[r].rc = 0
  BY <1>5, <1>7 DEF Wanes, Fades
<1>10. IsCell(c) /\ c.rc = 1 /\ c.kids = <<>> /\ c.kind = "external" /\ c.val = p
  <2>1. c = [kind |-> "external", rc |-> 1, val |-> p, kids |-> <<>>]
    BY DEF External
  <2>2. <<>> \in Seq(Objects)
    OBVIOUS
  <2> QED
    BY <2>1, <2>2 DEF IsCell
<1> HIDE DEF c
<1>11. Given(v, u, r, c.kids)
  <2> SUFFICES ASSUME NEW x \in Objects PROVE u[x] + Occurrences(c.kids, x) = v[x] + One(r, x)
    BY DEF Given
  <2>1. Occurrences(c.kids, x) = 0
    <3>1. <<>> \in Seq(Objects)
      OBVIOUS
    <3> QED
      BY <1>10, <3>1, OccurrencesInArrays
  <2> DEFINE i == u[x]
             j == v[x]
             k == w[x]
             l == One(a, x)
             m == One(r, x)
  <2>2. i \in Nat /\ j \in Nat /\ k \in Nat /\ l \in Nat /\ m \in Nat
    BY <1>4, <1>8 DEF One
  <2>3. i + l = k + m /\ j + l = k
    BY <1>4, <1>8 DEF Moved
  <2> HIDE DEF i, j, k, l, m
  <2>4. i + 0 = j + m
    BY <2>2, <2>3
  <2> QED
    BY <2>1, <2>4 DEF i, j, m
<1>12. Len(c.kids) <= MaxLen /\ Externals(hp, c.kids)
  BY <1>10, LeanObjectsAssumption DEF Externals
<1>13. Exact(hq, u)
  <2>1. Exact([hp EXCEPT ![r] = c], u)
    BY <1>4, <1>7, <1>9, <1>10, <1>11, <1>12, FillExact
  <2> QED
    BY <1>6, <2>1
<1>14. hq[r] = c /\ \A x \in Objects \ {r} : hq[x] = hp[x]
  BY <1>6, <1>7 DEF Exact, IsHeap
<1>15. \A x \in Objects : IsCell(heap[x]) /\ IsCell(hp[x])
  BY <1>2, <1>7 DEF Exact, IsHeap
<1>16. IdleBut({r}, heap, hq)
  BY <1>7, <1>14, <1>15, FadesLoses DEF IdleBut, Wanes
<1> QED
  BY <1>4, <1>5, <1>6, <1>10, <1>13, <1>14, <1>16 DEF Settled, Writes, u

\* A method with receiver &mut self
LEMMA MutWorks ==
  ASSUME Settled(heap, handles), NEW h \in Handles, IsExternal(h),
         NEW r \in Targets(h), NEW p \in Payloads,
         heap' = (IF r = Obj(h) THEN [heap EXCEPT ![r].val = p]
                  ELSE [Release(heap, Obj(h)) EXCEPT ![r] = External(p)]),
         handles' = [handles EXCEPT ![h].obj = r]
  PROVE  /\ Settled(heap', handles') /\ Writes(h, r, p, heap')
         /\ handles' = [handles EXCEPT ![h] = Bound(handles[h].thread, r)]
<1> DEFINE y == Bound(handles[h].thread, r)
<1>1. /\ handles[h] # Empty /\ handles[h].form = "bound" /\ Handed(handles)
      /\ Obj(h) \in Objects /\ heap[Obj(h)].kind = "external"
  BY GivenHandles DEF Settled
<1>2. handles[h] = Bound(handles[h].thread, handles[h].obj)
  BY <1>1, HandleForms DEF Handed
<1>3. [handles[h] EXCEPT !.obj = r] = y
  <2> DEFINE t == handles[h].thread
             o == handles[h].obj
  <2>1. handles[h] = Bound(t, o)
    BY <1>2
  <2> HIDE DEF t, o
  <2>2. [handles[h] EXCEPT !.obj = r] = Bound(t, r)
    BY <2>1 DEF Bound
  <2> QED
    BY <2>2 DEF t
<1>4. handles' = [handles EXCEPT ![h] = y]
  <2> HIDE DEF y
  <2> QED
    BY <1>3
<1>5. CASE r = Obj(h)
  <2>1. IsExclusive(CellOf(h))
    BY <1>1, <1>5 DEF Targets, FreshObjects
  <2>2. heap' = [heap EXCEPT ![Obj(h)].val = p]
    BY <1>5
  <2>3. Settled(heap', handles) /\ Writes(h, r, p, heap')
    BY <1>5, <2>1, <2>2, WriteInPlace
  <2>4. handles' = handles
    <3>1. y = handles[h]
      BY <1>2, <1>5 DEF Obj
    <3> HIDE DEF y
    <3> QED
      BY <1>1, <1>4, <3>1 DEF Handed
  <2> QED
    BY <1>4, <2>3, <2>4
<1>6. CASE r # Obj(h)
  <2>1. r \in Objects /\ heap[r].kind = "fresh"
    BY <1>6 DEF Targets, FreshObjects
  <2>2. heap' = [Release(heap, Obj(h)) EXCEPT ![r] = External(p)]
    BY <1>6
  <2>3. Settled(heap', handles') /\ Writes(h, r, p, heap')
    BY <1>4, <2>1, <2>2, WriteCopy
  <2> QED
    BY <1>4, <2>3
<1> QED
  BY <1>5, <1>6

-----------------------------------------------------------------------------
(* The counts are exact, and every payload ends once.                      *)

\* How a cell may change, and whether its payload was moved out of it
Turns(c, d, moved) ==
  \/ ~moved /\ d.kind = c.kind /\ (d.val = c.val \/ (c.val # Null /\ d.val # Null) \/ c.kind = "array")
  \/ ~moved /\ d.kind = "freed"
  \/ ~moved /\ c.kind = "fresh" /\ (d.kind = "array" \/ (d.kind = "external" /\ d.val # Null))
  \/ /\ moved /\ c.kind = "external" /\ c.val # Null
     /\ d.kind = "freed" \/ (d.kind = "external" /\ d.val = Null)

\* A payload that has not ended is in its object.
PayloadOK(c, e) ==
  /\ e \in {0, 1}
  /\ c.kind \in {"fresh", "array"} => e = 0
  /\ c.kind = "external" => (e = 1 <=> c.val = Null)

PayloadsOK == ended = [o \in Objects |-> ended[o]] /\ \A o \in Objects : PayloadOK(heap[o], ended[o])

CountInv == Settled(heap, handles) /\ PayloadsOK

\* Payloads end once as long as cells change in no other way.
LEMMA PayloadsOn ==
  ASSUME CountInv, NEW moved, Become(heap', moved),
         \A o \in Objects : Turns(heap[o], heap'[o], o \in moved)
  PROVE  PayloadsOK'
<1>1. ended' = [o \in Objects |->
       ended[o] + (IF o \in moved THEN 1 ELSE 0)
                + (IF heap[o].kind = "external" /\ heap'[o].kind = "freed"
                      /\ heap[o].val # Null /\ o \notin moved THEN 1 ELSE 0)]
  BY DEF Become
<1>2. ASSUME NEW o \in Objects PROVE PayloadOK(heap'[o], ended'[o])
  <2> DEFINE c == heap[o]
             d == heap'[o]
             e == ended[o]
  <2>1. Turns(c, d, o \in moved) /\ PayloadOK(c, e)
    BY DEF CountInv, PayloadsOK
  <2>2. c.kind \in {"fresh", "freed", "external", "array"}
    BY DEF CountInv, Settled, Exact, IsHeap, IsCell
  <2>3. ended'[o] = e + (IF o \in moved THEN 1 ELSE 0)
                      + (IF c.kind = "external" /\ d.kind = "freed"
                            /\ c.val # Null /\ o \notin moved THEN 1 ELSE 0)
    BY <1>1
  <2> HIDE DEF c, d, e
  <2>4. e \in {0, 1}
    BY <2>1 DEF PayloadOK
  <2>5. CASE o \in moved
    <3>1. /\ c.kind = "external" /\ c.val # Null
          /\ d.kind = "freed" \/ (d.kind = "external" /\ d.val = Null)
      BY <2>1, <2>5 DEF Turns
    <3>2. ended'[o] = 1
      BY <2>1, <2>3, <2>4, <2>5, <3>1 DEF PayloadOK
    <3> QED
      BY <3>1, <3>2 DEF d, PayloadOK
  <2>6. CASE o \notin moved /\ d.kind = "freed"
    <3>1. ended'[o] \in {0, 1}
      BY <2>1, <2>3, <2>4, <2>6 DEF PayloadOK
    <3> QED
      BY <2>6, <3>1 DEF d, PayloadOK
  <2>7. CASE o \notin moved /\ d.kind # "freed"
    <3>1. ended'[o] = e
      BY <2>3, <2>4, <2>7
    <3>2. CASE d.kind = c.kind
      BY <2>1, <2>2, <2>7, <3>1, <3>2 DEF Turns, PayloadOK, d
    <3>3. CASE c.kind = "fresh"
      BY <2>1, <2>7, <3>1, <3>3 DEF Turns, PayloadOK, d
    <3> QED
      BY <2>1, <2>7, <3>2, <3>3 DEF Turns
  <2> QED
    BY <2>5, <2>6, <2>7
<1> QED
  BY <1>1, <1>2 DEF PayloadsOK

\* What is left alone keeps its payload.
LEMMA LosesTurns ==
  ASSUME NEW c, IsCell(c), NEW d, Loses(c, d)
  PROVE  Turns(c, d, FALSE)
<1>1. d = Freed => d.kind = "freed"
  BY DEF Freed
<1> QED
  BY <1>1 DEF Loses, Turns

\* So an operation has to answer for the object r only, if for any.
LEMMA PayloadsBut ==
  ASSUME CountInv, NEW r, Become(heap', {}), IdleBut({r}, heap, heap'),
         r \in Objects => Turns(heap[r], heap'[r], FALSE)
  PROVE  PayloadsOK'
<1>1. \A o \in Objects : IsCell(heap[o])
  BY DEF CountInv, Settled, Exact, IsHeap
<1>2. \A o \in Objects : Turns(heap[o], heap'[o], FALSE)
  BY <1>1, LosesTurns DEF IdleBut
<1>3. \A o \in Objects : Turns(heap[o], heap'[o], o \in {})
  BY <1>2 DEF Turns
<1> QED
  BY <1>3, PayloadsOn

\* The operations that change handles and counts only
LEMMA PassedKeeps ==
  ASSUME CountInv, Passed, Become(heap', {}) \/ (heap' = heap /\ ended' = ended)
  PROVE  CountInv'
<1>1. Settled(heap', handles') /\ IdleBut({}, heap, heap')
  BY DEF Passed
<1>2. CASE heap' = heap /\ ended' = ended
  BY <1>1, <1>2 DEF CountInv, PayloadsOK
<1>3. CASE Become(heap', {})
  <2>1. \A x \in Objects : Loses(heap[x], heap'[x])
    BY <1>1 DEF IdleBut
  <2>2. \A x \in Objects : IsCell(heap[x])
    BY DEF CountInv, Settled, Exact, IsHeap
  <2>3. \A o \in Objects : Turns(heap[o], heap'[o], o \in {})
    <3>1. \A o \in Objects : Turns(heap[o], heap'[o], FALSE)
      BY <2>1, <2>2, LosesTurns
    <3> QED
      BY <3>1 DEF Turns
  <2>4. PayloadsOK'
    BY <1>3, <2>3, PayloadsOn
  <2> QED
    BY <1>1, <2>4 DEF CountInv
<1> QED
  BY <1>2, <1>3

\* A new object has an empty array or a payload that has not ended.
LEMMA NewCells ==
  ASSUME NEW c \in {External(v) : v \in Payloads} \cup {Array(<<>>)}
  PROVE  /\ IsCell(c) /\ c.rc = 1 /\ c.kids = <<>>
         /\ c.kind = "array" \/ (c.kind = "external" /\ c.val # Null)
<1>0. <<>> \in Seq(Objects)
  OBVIOUS
<1>1. CASE c = Array(<<>>)
  <2>1. c = [kind |-> "array", rc |-> 1, val |-> Null, kids |-> <<>>]
    BY <1>1 DEF Array
  <2> QED
    BY <1>0, <2>1 DEF IsCell
<1>2. ASSUME NEW v \in Payloads, c = External(v)
      PROVE  IsCell(c) /\ c.rc = 1 /\ c.kids = <<>> /\ c.kind = "external" /\ c.val # Null
  <2>1. c = [kind |-> "external", rc |-> 1, val |-> v, kids |-> <<>>]
    BY <1>2 DEF External
  <2> QED
    BY <1>0, <2>1, LeanObjectsAssumption DEF IsCell
<1> QED
  BY <1>1, <1>2

\* It is held by the slot it was made for.
LEMMA NewKeeps ==
  ASSUME CountInv, NEW h \in Handles, NEW t \in Threads, NewExternal(t, h) \/ NewArray(t, h)
  PROVE  CountInv'
<1>1. PICK r \in FreshObjects, c \in {External(v) : v \in Payloads} \cup {Array(<<>>)} :
        handles[h] = Empty /\ Allocate(h, t, heap, r, c)
  BY DEF NewExternal, NewArray, IsEmpty
<1>2. IsCell(c) /\ c.rc = 1 /\ c.kids = <<>> /\ (c.kind = "array" \/ (c.kind = "external" /\ c.val # Null))
  BY NewCells
<1>3. r \in Objects /\ heap[r].kind = "fresh"
  BY <1>1 DEF FreshObjects
<1>4. /\ Become([heap EXCEPT ![r] = c], {}) /\ heap' = [heap EXCEPT ![r] = c]
      /\ handles' = [handles EXCEPT ![h] = Bound(t, r)]
  BY <1>1 DEF Allocate, Become
<1>5. Settled(heap', handles') /\ IdleBut({r}, heap, heap') /\ heap'[r] = c
  <2>1. Settled(heap, handles)
    BY DEF CountInv
  <2> QED
    BY <1>1, <1>2, <1>3, <1>4, <2>1, AllocateSettles
<1>6. Turns(heap[r], heap'[r], FALSE)
  BY <1>2, <1>3, <1>5 DEF Turns
<1>7. PayloadsOK'
  BY <1>3, <1>4, <1>5, <1>6, PayloadsBut
<1> QED
  BY <1>5, <1>7 DEF CountInv

\* An array that was renewed has no payload, nor had it one before.
LEMMA RenewsTurns ==
  ASSUME NEW h, NEW r, NEW s, NEW hq, Renews(h, r, s, hq)
  PROVE  r \in Objects /\ Turns(heap[r], hq[r], FALSE) /\ IdleBut({r}, heap, hq)
BY DEF Renews, Turns

\* The operations on arrays
LEMMA ArraysKeep ==
  ASSUME CountInv, NEW h \in Handles, NEW r, NEW s, NEW hq, Become(hq, {}),
         Settled(heap', handles'), Renews(h, r, s, heap')
  PROVE  CountInv'
<1>1. Become(heap', {})
  BY DEF Become
<1>2. PayloadsOK'
  BY <1>1, RenewsTurns, PayloadsBut
<1> QED
  BY <1>2 DEF CountInv

\* push
LEMMA PushKeeps ==
  ASSUME CountInv, NEW h \in Handles, NEW g \in Handles \ {h}, ArrayPush(h, g)
  PROVE  CountInv'
<1>1. PICK r \in Targets(h) :
        /\ Become(Updated(h, r, Append(CellOf(h).kids, Obj(g))), {})
        /\ handles' = [handles EXCEPT ![h].obj = r, ![g] = Empty]
  BY DEF ArrayPush
<1>2. /\ IsArray(h) /\ IsExternal(g) /\ Len(CellOf(h).kids) < MaxLen /\ Settled(heap, handles)
      /\ heap' = Updated(h, r, Append(CellOf(h).kids, Obj(g)))
  BY <1>1 DEF ArrayPush, Become, CountInv
<1>3. Settled(heap', handles') /\ Renews(h, r, Append(CellOf(h).kids, Obj(g)), heap')
  BY <1>1, <1>2, PushWorks
<1> QED
  BY <1>1, <1>3, ArraysKeep

\* swap
LEMMA SwapKeeps ==
  ASSUME CountInv, NEW h \in Handles, NEW i, NEW j, ArraySwap(h, i, j)
  PROVE  CountInv'
<1> DEFINE s == [CellOf(h).kids EXCEPT ![i] = CellOf(h).kids[j], ![j] = CellOf(h).kids[i]]
<1>1. PICK r \in Targets(h) :
        Become(Updated(h, r, s), {}) /\ handles' = [handles EXCEPT ![h].obj = r]
  BY DEF ArraySwap
<1>2. /\ IsArray(h) /\ i \in DOMAIN CellOf(h).kids /\ j \in DOMAIN CellOf(h).kids /\ i # j
      /\ Settled(heap, handles) /\ heap' = Updated(h, r, s)
  BY <1>1 DEF ArraySwap, Become, CountInv
<1>3. Settled(heap', handles') /\ Renews(h, r, s, heap')
  BY <1>1, <1>2, SwapWorks
<1> QED
  BY <1>1, <1>3, ArraysKeep

\* pop
LEMMA PopKeeps ==
  ASSUME CountInv, NEW h \in Handles, ArrayPop(h)
  PROVE  CountInv'
<1> DEFINE n == Len(CellOf(h).kids)
           s == SubSeq(CellOf(h).kids, 1, n - 1)
<1>1. PICK r \in Targets(h) :
        /\ Become(Release(Updated(h, r, s), CellOf(h).kids[n]), {})
        /\ handles' = [handles EXCEPT ![h].obj = r]
  BY DEF ArrayPop
<1>2. /\ IsArray(h) /\ CellOf(h).kids # <<>> /\ Settled(heap, handles)
      /\ heap' = Release(Updated(h, r, s), CellOf(h).kids[n])
  BY <1>1 DEF ArrayPop, Become, CountInv
<1>3. Settled(heap', handles') /\ Renews(h, r, s, heap')
  BY <1>1, <1>2, PopWorks
<1> QED
  BY <1>1, <1>3, ArraysKeep

\* set
LEMMA SetKeeps ==
  ASSUME CountInv, NEW h \in Handles, NEW g \in Handles \ {h}, NEW i, ArraySet(h, i, g)
  PROVE  CountInv'
<1> DEFINE s == [CellOf(h).kids EXCEPT ![i] = Obj(g)]
<1>1. PICK r \in Targets(h) :
        /\ Become(Release(Updated(h, r, s), CellOf(h).kids[i]), {})
        /\ handles' = [handles EXCEPT ![h].obj = r, ![g] = Empty]
  BY DEF ArraySet
<1>2. /\ IsArray(h) /\ IsExternal(g) /\ i \in DOMAIN CellOf(h).kids /\ Settled(heap, handles)
      /\ heap' = Release(Updated(h, r, s), CellOf(h).kids[i])
  BY <1>1 DEF ArraySet, Become, CountInv
<1>3. Settled(heap', handles') /\ Renews(h, r, s, heap')
  BY <1>1, <1>2, SetWorks
<1> QED
  BY <1>1, <1>3, ArraysKeep

\* A method with receiver &mut self
LEMMA MutKeeps ==
  ASSUME CountInv, NEW h \in Handles, MutMethod(h)
  PROVE  CountInv'
<1>1. IsExternal(h) /\ heap[Obj(h)].val # Null /\ Settled(heap, handles)
  BY DEF MutMethod, HasValue, CellOf, CountInv
<1>2. PICK v \in Payloads, r \in Targets(h) :
        /\ Become(IF r = Obj(h) THEN [heap EXCEPT ![r].val = v]
                  ELSE [Release(heap, Obj(h)) EXCEPT ![r] = External(v)], {})
        /\ handles' = [handles EXCEPT ![h].obj = r]
  BY DEF MutMethod
<1>3. heap' = (IF r = Obj(h) THEN [heap EXCEPT ![r].val = v]
               ELSE [Release(heap, Obj(h)) EXCEPT ![r] = External(v)])
  BY <1>2 DEF Become
<1>4. Become(heap', {})
  BY <1>2, <1>3
<1>5. Settled(heap', handles') /\ Writes(h, r, v, heap')
  BY <1>1, <1>2, <1>3, MutWorks
<1>6. heap[Obj(h)].val # Null /\ v # Null
  BY <1>1, LeanObjectsAssumption
<1>7. r \in Objects /\ Turns(heap[r], heap'[r], FALSE) /\ IdleBut({r}, heap, heap')
  <2>1. CASE heap[r].kind = "fresh"
    BY <1>5, <1>6, <2>1 DEF Writes, Turns
  <2>2. CASE heap[r].kind = "external"
    <3>1. heap[r].rc # 0
      BY <1>1, <1>5, <2>2 DEF Settled, Exact, IsHeap, IsCell, Writes
    <3>2. r = Obj(h)
      BY <1>5, <3>1 DEF Writes
    <3> QED
      BY <1>5, <1>6, <2>2, <3>2 DEF Writes, Turns
  <2> QED
    BY <1>5, <2>1, <2>2 DEF Writes
<1>8. PayloadsOK'
  BY <1>4, <1>7, PayloadsBut
<1> QED
  BY <1>5, <1>8 DEF CountInv

\* try_get_mut
LEMMA TryGetMutKeeps ==
  ASSUME CountInv, NEW h \in Handles, TryGetMut(h)
  PROVE  CountInv'
<1>1. /\ IsExternal(h) /\ heap[Obj(h)].val # Null /\ IsExclusive(CellOf(h))
      /\ Settled(heap, handles) /\ handles' = handles
  BY DEF TryGetMut, HasValue, CellOf, CountInv
<1>2. PICK v \in Payloads : Become([heap EXCEPT ![Obj(h)].val = v], {})
  BY DEF TryGetMut
<1>3. heap' = [heap EXCEPT ![Obj(h)].val = v] /\ Become(heap', {})
  BY <1>2 DEF Become
<1>4. Settled(heap', handles') /\ Writes(h, Obj(h), v, heap')
  BY <1>1, <1>3, WriteInPlace
<1>5. /\ heap[Obj(h)].val # Null /\ v # Null /\ Obj(h) \in Objects
      /\ heap[Obj(h)].kind = "external"
  BY <1>1, GivenHandles, LeanObjectsAssumption
<1>6. Turns(heap[Obj(h)], heap'[Obj(h)], FALSE) /\ IdleBut({Obj(h)}, heap, heap')
  BY <1>4, <1>5 DEF Writes, Turns
<1>7. PayloadsOK'
  BY <1>3, <1>5, <1>6, PayloadsBut
<1> QED
  BY <1>4, <1>7 DEF CountInv

\* What is moved out of the one object an operation is given has not ended there.
LEMMA MovedOutKeeps ==
  ASSUME CountInv, NEW a \in Objects, Become(heap', {a}), IdleBut({a}, heap, heap'),
         Turns(heap[a], heap'[a], TRUE)
  PROVE  PayloadsOK'
<1>1. \A o \in Objects : IsCell(heap[o])
  BY DEF CountInv, Settled, Exact, IsHeap
<1>2. \A o \in Objects \ {a} : Turns(heap[o], heap'[o], FALSE)
  BY <1>1, LosesTurns DEF IdleBut
<1>3. \A o \in Objects : Turns(heap[o], heap'[o], o \in {a})
  BY <1>2 DEF Turns
<1> QED
  BY <1>3, PayloadsOn

\* try_take_inner
LEMMA TryTakeInnerKeeps ==
  ASSUME CountInv, NEW h \in Handles, TryTakeInner(h)
  PROVE  CountInv'
<1>1. /\ IsExternal(h) /\ heap[Obj(h)].val # Null /\ IsExclusive(CellOf(h))
      /\ Settled(heap, handles) /\ handles' = handles
  BY DEF TryTakeInner, HasValue, CellOf, CountInv
<1>2. heap' = [heap EXCEPT ![Obj(h)].val = Null] /\ Become(heap', {Obj(h)})
  BY DEF TryTakeInner, Become
<1>3. Settled(heap', handles') /\ Writes(h, Obj(h), Null, heap')
  BY <1>1, <1>2, WriteInPlace
<1>4. /\ heap[Obj(h)].val # Null /\ Obj(h) \in Objects
      /\ heap[Obj(h)].kind = "external"
  BY <1>1, GivenHandles
<1>5. Turns(heap[Obj(h)], heap'[Obj(h)], TRUE) /\ IdleBut({Obj(h)}, heap, heap')
  BY <1>3, <1>4 DEF Writes, Turns
<1>6. PayloadsOK'
  BY <1>2, <1>4, <1>5, MovedOutKeeps
<1> QED
  BY <1>3, <1>6 DEF CountInv

\* A method with receiver self
LEMMA OwnedKeeps ==
  ASSUME CountInv, NEW h \in Handles, OwnedMethod(h)
  PROVE  CountInv'
<1>1. IsExternal(h) /\ heap[Obj(h)].val # Null /\ Settled(heap, handles)
  BY DEF OwnedMethod, HasValue, CellOf, CountInv
<1>2. /\ heap' = Release(heap, Obj(h)) /\ handles' = [handles EXCEPT ![h] = Empty]
      /\ Become(heap', IF IsExclusive(CellOf(h)) THEN {Obj(h)} ELSE {})
  BY DEF OwnedMethod, Become
<1>3. /\ heap[Obj(h)].val # Null /\ Obj(h) \in Objects /\ handles[h] # Empty
      /\ heap[Obj(h)].kind = "external"
  BY <1>1, GivenHandles
<1>4. Passed
  BY <1>1, <1>2, <1>3, DropPasses
<1>5. CASE ~IsExclusive(CellOf(h))
  <2>1. Become(heap', {})
    BY <1>2, <1>5
  <2> QED
    BY <1>4, <2>1, PassedKeeps
<1>6. CASE IsExclusive(CellOf(h))
  <2>1. Become(heap', {Obj(h)})
    BY <1>2, <1>6
  <2>2. heap'[Obj(h)] = Freed
    <3>1. heap'[Obj(h)] = Dec(heap[Obj(h)], 1)
      BY <1>2, <1>3 DEF Release
    <3> QED
      BY <1>6, <3>1 DEF Dec, IsExclusive, CellOf
  <2>3. Turns(heap[Obj(h)], heap'[Obj(h)], TRUE)
    BY <1>3, <2>2 DEF Turns, Freed
  <2>4. IdleBut({Obj(h)}, heap, heap')
    BY <1>4 DEF Passed, IdleBut
  <2>5. PayloadsOK'
    BY <1>3, <2>1, <2>3, <2>4, MovedOutKeeps
  <2> QED
    BY <1>4, <2>5 DEF Passed, CountInv
<1> QED
  BY <1>5, <1>6

\* Every operation keeps the counts exact and the payloads accounted for.
LEMMA CountInvIsInductive ==
  ASSUME CountInv, [Next]_vars
  PROVE  CountInv'
<1>1. CASE UNCHANGED vars
  BY <1>1 DEF CountInv, PayloadsOK, vars
<1>2. ASSUME NEW h \in Handles, Unbind(h) \/ UnbindMT(h) \/ Drop(h) PROVE CountInv'
  <2>0. Settled(heap, handles)
    BY DEF CountInv
  <2>1. CASE Unbind(h)
    <3>1. heap' = heap /\ ended' = ended
      BY <2>1 DEF Unbind
    <3> QED
      BY <2>0, <2>1, <3>1, UnbindPasses, PassedKeeps
  <2>2. CASE UnbindMT(h)
    <3>1. Become(heap', {})
      BY <2>2 DEF UnbindMT, Become
    <3>2. Settled(heap', handles') /\ \A x \in Objects : Marks(heap[x], heap'[x])
      BY <2>0, <2>2, UnbindMTMarks
    <3>3. \A x \in Objects : Turns(heap[x], heap'[x], x \in {})
      BY <3>2 DEF Marks, Turns
    <3>4. PayloadsOK'
      BY <3>1, <3>3, PayloadsOn
    <3> QED
      BY <3>2, <3>4 DEF CountInv
  <2>3. CASE Drop(h)
    <3>1. /\ Become(heap', {}) /\ handles[h] # Empty /\ heap' = Release(heap, Obj(h))
          /\ handles' = [handles EXCEPT ![h] = Empty]
      BY <2>3 DEF Drop, Become, IsEmpty
    <3>2. Passed
      BY <2>0, <3>1, DropPasses
    <3> QED
      BY <3>1, <3>2, PassedKeeps
  <2> QED
    BY <1>2, <2>1, <2>2, <2>3
<1>3. ASSUME NEW h \in Handles, NEW t \in Threads, FromUnbound(t, h) \/ SendRef(t, h)
      PROVE  CountInv'
  <2>0. Settled(heap, handles)
    BY DEF CountInv
  <2>1. heap' = heap /\ ended' = ended
    BY <1>3 DEF FromUnbound, SendRef
  <2>2. Passed
    BY <1>3, <2>0, FromUnboundPasses, SendRefPasses
  <2> QED
    BY <2>1, <2>2, PassedKeeps
<1>4. ASSUME NEW h \in Handles, NEW g \in Handles \ {h}, Clone(h, g) \/ ArraySetFails(h, g)
      PROVE  CountInv'
  <2>0. Settled(heap, handles)
    BY DEF CountInv
  <2>1. Become(heap', {})
    BY <1>4 DEF Clone, ArraySetFails, Become
  <2>2. Passed
    BY <1>4, <2>0, ClonePasses, ArraySetFailsPasses
  <2> QED
    BY <2>1, <2>2, PassedKeeps
<1>5. ASSUME NEW h \in Handles, NEW g \in Handles \ {h}, NEW t \in Threads, Bind(t, h, g)
      PROVE  CountInv'
  <2>0. Settled(heap, handles)
    BY DEF CountInv
  <2>1. Become(heap', {})
    BY <1>5 DEF Bind, Become
  <2>2. Passed
    BY <1>5, <2>0, BindPasses
  <2> QED
    BY <2>1, <2>2, PassedKeeps
<1>6. ASSUME NEW h \in Handles, NEW g \in Handles \ {h}, NEW i, ArrayGet(h, i, g)
      PROVE  CountInv'
  <2>0. Settled(heap, handles)
    BY DEF CountInv
  <2>1. Become(heap', {})
    BY <1>6 DEF ArrayGet, Become
  <2>2. Passed
    BY <1>6, <2>0, ArrayGetPasses
  <2> QED
    BY <2>1, <2>2, PassedKeeps
<1> QED
  BY <1>1, <1>2, <1>3, <1>4, <1>5, <1>6, NewKeeps, PushKeeps, SetKeeps, PopKeeps, SwapKeeps,
     MutKeeps, TryGetMutKeeps, TryTakeInnerKeeps, OwnedKeeps DEF Next

\* Nothing is held when nothing has been allocated.
LEMMA CountInvInitially == Init => CountInv
<1> SUFFICES ASSUME Init PROVE CountInv
  OBVIOUS
<1>1. /\ heap = [o \in Objects |-> Fresh] /\ handles = [h \in Handles |-> Empty]
      /\ ended = [o \in Objects |-> 0]
  BY DEF Init
<1>2. <<>> \in Seq(Objects) /\ \A o : Occurrences(<<>>, o) = 0
  <2>1. <<>> \in Seq(Objects)
    OBVIOUS
  <2> QED
    BY <2>1, OccurrencesInArrays
<1>3. /\ IsCell(Fresh) /\ Fresh.kids = <<>> /\ Fresh.rc = 0 /\ Fresh.kind = "fresh"
      /\ Size(Fresh) = 0
  BY <1>2 DEF Fresh, IsCell, Size
<1>4. Handed(handles)
  BY <1>1 DEF Handed, IsHandle
<1>5. IsHeap(heap) /\ Flat(heap)
  BY <1>1, <1>3, LeanObjectsAssumption DEF IsHeap, Flat
<1>6. \A o \in Objects : Held(handles)[o] = 0
  <2> SUFFICES ASSUME NEW o \in Objects PROVE Held(handles)[o] = 0
    OBVIOUS
  <2> DEFINE f == [h \in Handles |-> handles[h].obj]
  <2>1. IsFiniteSet(DOMAIN f) /\ \A h \in DOMAIN f : f[h] # o
    BY <1>1, LeanObjectsAssumption DEF Empty
  <2>2. Held(handles)[o] = Occurrences(f, o)
    BY DEF Held
  <2> HIDE DEF f
  <2>3. Occurrences(f, o) = 0
    BY <2>1, OccurrencesType
  <2> QED
    BY <2>2, <2>3
<1>7. \A o \in Objects : Inside(heap, o) = 0
  <2> SUFFICES ASSUME NEW o \in Objects PROVE Inside(heap, o) = 0
    OBVIOUS
  <2>1. Places(heap, o) = {}
    BY <1>1, <1>3 DEF Places
  <2> QED
    BY <2>1, FS_EmptySet DEF Inside
<1>8. Exact(heap, Held(handles))
  <2>1. Held(handles) \in [Objects -> Nat]
    BY <1>4, HeldType
  <2>2. \A o \in Objects : Size(heap[o]) = Held(handles)[o] + Inside(heap, o)
    BY <1>1, <1>3, <1>6, <1>7
  <2> QED
    BY <1>5, <2>1, <2>2 DEF Exact
<1>9. PayloadsOK
  BY <1>1, <1>3 DEF PayloadsOK, PayloadOK
<1> QED
  BY <1>4, <1>8, <1>9 DEF CountInv, Settled

\* Objects, handles and the history have their types.
LEMMA CountInvTypes == CountInv => TypeOK
<1> SUFFICES ASSUME CountInv PROVE TypeOK
  OBVIOUS
<1>1. heap \in [Objects -> Cells]
  BY CellsAreCells DEF CountInv, Settled, Exact, IsHeap
<1>2. handles \in [Handles -> Handle]
  <2>1. \A x : IsHandle(x) => x \in Handle
    BY DEF IsHandle, Handle, Empty, Bound, Ref, Unbound
  <2> QED
    BY <2>1 DEF CountInv, Settled, Handed
<1>3. ended \in [Objects -> Nat]
  BY DEF CountInv, PayloadsOK, PayloadOK
<1> QED
  BY <1>1, <1>2, <1>3 DEF TypeOK

\* References are held by handles and by live arrays, and no other array has elements.
LEMMA CountInvCounts == CountInv => CountsAreExact
<1> SUFFICES ASSUME CountInv, NEW o \in Objects PROVE References(o) = Size(heap[o])
  BY DEF CountsAreExact, Size
<1>1. Exact(heap, Held(handles)) /\ Handed(handles)
  BY DEF CountInv, Settled
<1>2. Cardinality({h \in Handles : Obj(h) = o}) = Held(handles)[o]
  <2> DEFINE f == [h \in Handles |-> handles[h].obj]
  <2>1. {h \in Handles : Obj(h) = o} = {h \in DOMAIN f : f[h] = o}
    BY DEF Obj
  <2>2. Held(handles)[o] = Occurrences(f, o)
    BY DEF Held
  <2> QED
    BY <2>1, <2>2 DEF Occurrences
<1>3. {p \in Live \X (1..MaxLen) :
         p[2] \in DOMAIN heap[p[1]].kids /\ heap[p[1]].kids[p[2]] = o} = Places(heap, o)
  <2>1. \A x \in Objects : x \notin Live => heap[x].kids = <<>>
    BY <1>1 DEF Exact, IsHeap, IsCell, Live
  <2>2. Live \subseteq Objects
    BY DEF Live
  <2>3. \A x \in Objects : x \notin Live => DOMAIN heap[x].kids = {}
    BY <2>1
  <2>4. ASSUME NEW p \in Places(heap, o) PROVE p[1] \in Live
    BY <2>3, <2>4 DEF Places
  <2>5. Places(heap, o) \subseteq Live \X (1..MaxLen)
    BY <2>4 DEF Places
  <2>6. Live \X (1..MaxLen) \subseteq Objects \X (1..MaxLen)
    BY <2>2
  <2> QED
    BY <2>5, <2>6 DEF Places
<1>4. Size(heap[o]) = Held(handles)[o] + Inside(heap, o)
  BY <1>1 DEF Exact
<1> QED
  BY <1>2, <1>3, <1>4 DEF References, Inside

\* An external whose payload has not ended has it.
LEMMA CountInvPayloads == CountInv => PayloadEndsOnce
BY DEF CountInv, PayloadsOK, PayloadOK, PayloadEndsOnce

\* All of that holds in every behaviour.
LEMMA AlwaysCountInv == Spec => []CountInv
<1>1. CountInv /\ [Next]_vars => CountInv'
  BY CountInvIsInductive
<1> QED
  BY <1>1, CountInvInitially, PTL DEF Spec

\* Memory holds objects, slots hold handles.
THEOREM ObjectTypes == Spec => []TypeOK
BY AlwaysCountInv, CountInvTypes, PTL

\* The count of every object, plain or atomic, is the number of handles and array elements that
\* refer to it, whatever the handles of any number of threads do: nothing is freed while it is
\* referred to, and nothing is left over (src/leo3-ffi/src/inline, lean_inc and lean_dec).
THEOREM CountsMatchReferences == Spec => []CountsAreExact
BY AlwaysCountInv, CountInvCounts, PTL

\* The Rust value in an external object is moved out of it or finalized with it, once
\* (src/leo3/src/external.rs).
THEOREM PayloadsEndOnce == Spec => []PayloadEndsOnce
BY AlwaysCountInv, CountInvPayloads, PTL

-----------------------------------------------------------------------------
(* What is counted without atomics is within reach of one thread.          *)

\* What is in an array with an atomic count has an atomic count.
Deep(hp) == \A a \in Objects : hp[a].rc < 0 => \A i \in DOMAIN hp[a].kids : hp[hp[a].kids[i]].rc < 0

\* The handles that a plain count is within reach of are of one thread, and not shared.
Owned(hp, hs) ==
  \A h, g \in Handles, o \in Objects :
    hp[o].rc > 0 /\ Within(hp, hs[h], o) =>
      /\ hs[h].form # "unbound"
      /\ Within(hp, hs[g], o) => hs[g].thread = hs[h].thread

\* A handle of thread t that is not shared reaches o, whose count is plain.
Touches(hp, hs, t, o) ==
  hp[o].rc > 0 /\ \E f \in Handles : /\ Within(hp, hs[f], o)
                                     /\ hs[f].thread = t /\ hs[f].form # "unbound"

\* A handle reaches r as one of thread t, and anything else as some handle did before.
Grounded(hp, hs, r, t, hq, ht) ==
  \A g \in Handles, o \in Objects : hq[o].rc > 0 /\ Within(hq, ht[g], o) =>
    /\ ht[g].form # "unbound"
    /\ IF o = r THEN ht[g].thread = t ELSE Touches(hp, hs, ht[g].thread, o)

\* So handles of one thread reach it.
LEMMA OwnedOn ==
  ASSUME NEW hp, NEW hs, Owned(hp, hs), NEW hq, NEW ht, NEW r, NEW t,
         Grounded(hp, hs, r, t, hq, ht)
  PROVE  Owned(hq, ht)
<1> SUFFICES ASSUME NEW h \in Handles, NEW g \in Handles, NEW o \in Objects,
                    hq[o].rc > 0, Within(hq, ht[h], o)
             PROVE  /\ ht[h].form # "unbound"
                    /\ Within(hq, ht[g], o) => ht[g].thread = ht[h].thread
  BY DEF Owned
<1>1. ht[h].form # "unbound"
  BY DEF Grounded
<1>2. ASSUME Within(hq, ht[g], o) PROVE ht[g].thread = ht[h].thread
  <2>1. CASE o = r
    BY <1>2, <2>1 DEF Grounded
  <2>2. CASE o # r
    <3>1. Touches(hp, hs, ht[g].thread, o) /\ Touches(hp, hs, ht[h].thread, o)
      BY <1>2, <2>2 DEF Grounded
    <3> QED
      BY <3>1 DEF Touches, Owned
  <2> QED
    BY <2>1, <2>2
<1> QED
  BY <1>1, <1>2

\* What a handle reaches after objects were left alone it reached before.
LEMMA WithinBefore ==
  ASSUME NEW hp, NEW hq, NEW r, IdleBut({r}, hp, hq), NEW x, x.obj # r,
         NEW o \in Objects, o # r, hq[o].rc > 0, Within(hq, x, o)
  PROVE  Within(hp, x, o) /\ hp[o].rc > 0
<1>1. Loses(hp[o], hq[o]) /\ x.obj \in Objects /\ Loses(hp[x.obj], hq[x.obj])
  BY DEF IdleBut, Within
<1>2. hp[o].rc > 0
  BY <1>1 DEF Loses, Freed
<1>3. hq[x.obj].kids = <<>> \/ hq[x.obj].kids = hp[x.obj].kids
  BY <1>1 DEF Loses, Freed
<1>4. x.obj = o \/ \E i \in DOMAIN hq[x.obj].kids : hq[x.obj].kids[i] = o
  BY DEF Within
<1>5. CASE hq[x.obj].kids = <<>>
  <2>1. DOMAIN hq[x.obj].kids = {}
    BY <1>5
  <2> QED
    BY <1>1, <1>2, <1>4, <2>1 DEF Within
<1>6. CASE hq[x.obj].kids = hp[x.obj].kids
  BY <1>1, <1>2, <1>4, <1>6 DEF Within
<1> QED
  BY <1>3, <1>5, <1>6

\* Atomic counts stay deep when objects are left alone, but for one that is not atomic.
LEMMA DeepOn ==
  ASSUME NEW hp, NEW hs, Settled(hp, hs), Deep(hp), NEW hq, NEW ht, Settled(hq, ht),
         NEW r, IdleBut({r}, hp, hq), r \in Objects => hp[r].rc >= 0 /\ hq[r].rc > 0
  PROVE  Deep(hq)
<1> SUFFICES ASSUME NEW a \in Objects, hq[a].rc < 0, NEW i \in DOMAIN hq[a].kids
             PROVE  hq[hq[a].kids[i]].rc < 0
  BY DEF Deep
<1>1. IsCell(hp[a]) /\ IsCell(hq[a]) /\ hp[a].rc \in Int /\ hq[a].rc \in Int
  BY DEF Settled, Exact, IsHeap, IsCell
<1>2. a # r /\ Loses(hp[a], hq[a])
  BY <1>1 DEF IdleBut
<1>3. hp[a].rc < 0 /\ hq[a].kids = hp[a].kids
  BY <1>1, <1>2 DEF Loses, Freed
<1> DEFINE x == hq[a].kids[i]
<1>4. x \in Objects /\ hq[x].kind = "external"
  BY <1>1, SequenceIsFinite DEF Settled, Exact, Flat, IsCell
<1>5. hp[x].rc < 0
  BY <1>3 DEF Deep
<1> HIDE DEF x
<1>6. hp[x].rc \in Int /\ hq[x].rc \in Int /\ hq[x].rc # 0
  BY <1>4 DEF Settled, Exact, IsHeap, IsCell
<1>7. x # r /\ Loses(hp[x], hq[x])
  BY <1>4, <1>5, <1>6 DEF IdleBut
<1>8. hq[x].rc < 0
  BY <1>5, <1>6, <1>7 DEF Loses, Freed
<1> QED
  BY <1>8 DEF x

ThreadsInv == Settled(heap, handles) /\ Deep(heap) /\ Owned(heap, handles)

\* What x refers to with plain counts, a handle of its thread did before.
Follows(x) ==
  \A o \in Objects : heap[o].rc > 0 /\ Within(heap, x, o) =>
    x.form # "unbound" /\ Touches(heap, handles, x.thread, o)

\* As the handles themselves do, and empty slots
LEMMA HandlesFollow ==
  ASSUME ThreadsInv
  PROVE  Follows(Empty) /\ \A g \in Handles : Follows(handles[g])
<1>1. Follows(Empty)
  BY LeanObjectsAssumption DEF Follows, Within, Empty
<1>2. ASSUME NEW g \in Handles PROVE Follows(handles[g])
  BY DEF ThreadsInv, Owned, Follows, Touches
<1> QED
  BY <1>1, <1>2

\* Operations that change the form of a handle, and the counts at most
LEMMA PassedConfines ==
  ASSUME ThreadsInv, Passed, \A g \in Handles : Follows(handles'[g])
  PROVE  ThreadsInv'
<1>1. IdleBut({Null}, heap, heap') /\ Null \notin Objects
  BY LeanObjectsAssumption DEF Passed, IdleBut
<1>2. Settled(heap, handles) /\ Deep(heap) /\ Owned(heap, handles) /\ Settled(heap', handles')
  BY DEF ThreadsInv, Passed
<1>3. Deep(heap')
  BY <1>1, <1>2, DeepOn
<1>4. Grounded(heap, handles, Null, Null, heap', handles')
  <2> SUFFICES ASSUME NEW g \in Handles, NEW o \in Objects,
                      heap'[o].rc > 0, Within(heap', handles'[g], o)
               PROVE  /\ handles'[g].form # "unbound"
                      /\ Touches(heap, handles, handles'[g].thread, o)
    BY <1>1 DEF Grounded
  <2>1. handles'[g].obj # Null /\ o # Null
    BY <1>1 DEF Within
  <2>2. Within(heap, handles'[g], o) /\ heap[o].rc > 0
    BY <1>1, <2>1, WithinBefore
  <2> QED
    BY <2>2 DEF Follows
<1>5. Owned(heap', handles')
  BY <1>2, <1>4, OwnedOn
<1> QED
  BY <1>2, <1>3, <1>5 DEF ThreadsInv

\* What is not allocated, or held once, no other handle reaches.
LEMMA Apart ==
  ASSUME Settled(heap, handles), NEW h \in Handles, NEW r \in Objects,
         heap[r].rc = 0 \/ (heap[r].rc = 1 /\ Obj(h) = r)
  PROVE  \A g \in Handles \ {h} : ~Within(heap, handles[g], r)
<1> SUFFICES ASSUME NEW g \in Handles \ {h}, Within(heap, handles[g], r) PROVE FALSE
  OBVIOUS
<1>1. Exact(heap, Held(handles)) /\ Handed(handles) /\ IsHeap(heap)
  BY DEF Settled, Exact
<1>2. Held(handles)[r] \in Nat /\ Inside(heap, r) \in Nat
  BY <1>1, HeldType, ReferredIsLive
<1>3. handles[g].obj = r => Held(handles)[r] >= 1
  BY <1>1, HeldType
<1>4. handles[g].obj # r => Inside(heap, r) >= 1
  BY <1>1, PlacesPositive DEF Within
<1>5. CASE heap[r].rc = 0
  BY <1>1, <1>3, <1>4, <1>5, ReferredIsLive
<1>6. CASE heap[r].rc = 1 /\ Obj(h) = r
  <2>1. Held(handles)[r] + Inside(heap, r) = 1
    BY <1>1, <1>6 DEF Exact, Size
  <2>2. Held(handles)[r] >= 1
    BY <1>1, <1>6, HeldType DEF Obj
  <2>3. handles[g].obj = r
    BY <1>2, <1>4, <2>1, <2>2
  <2> DEFINE S == {k \in Handles : handles[k].obj = r}
  <2>4. Held(handles)[r] = Cardinality(S)
    BY DEF Held, Occurrences
  <2>5. IsFiniteSet(S)
    BY LeanObjectsAssumption, FS_Subset
  <2>6. {h, g} \subseteq S
    BY <1>6, <2>3 DEF Obj
  <2>7. Cardinality({h, g}) <= Cardinality(S) /\ IsFiniteSet({h, g})
    BY <2>5, <2>6, FS_Subset, FS_CardinalityType
  <2>8. Cardinality({h, g}) = 2
    <3>1. IsFiniteSet({h}) /\ Cardinality({h}) = 1
      BY FS_Singleton
    <3>2. Cardinality({h} \cup {g}) = 2
      <4>1. g \notin {h}
        OBVIOUS
      <4>2. Cardinality({h} \cup {g}) = Cardinality({h}) + 1
        BY <3>1, <4>1, FS_AddElement
      <4> QED
        BY <3>1, <4>2
    <3>3. {h} \cup {g} = {h, g}
      OBVIOUS
    <3> QED
      BY <3>2, <3>3
  <2>9. Cardinality(S) \in Nat
    BY <2>5, FS_CardinalityType
  <2> HIDE DEF S
  <2> QED
    BY <1>2, <2>1, <2>4, <2>7, <2>8, <2>9
<1> QED
  BY <1>5, <1>6

\* Handle h of thread t has r to itself; what r is made of, handles of its thread reached.
Takes(h, t, r) ==
  /\ r \in Objects /\ (heap[r].rc = 0 \/ (heap[r].rc = 1 /\ Obj(h) = r))
  /\ heap'[r].rc > 0 /\ IdleBut({r}, heap, heap')
  /\ handles'[h].form # "unbound" /\ handles'[h].obj = r /\ handles'[h].thread = t
  /\ \A g \in Handles \ {h} : handles'[g] \in {handles[g], Empty}
  /\ \A i \in DOMAIN heap'[r].kids : \E f \in Handles :
       /\ Within(heap, handles[f], heap'[r].kids[i])
       /\ handles[f].thread = t /\ handles[f].form # "unbound"

\* Operations that change an object in place, or one in its stead
LEMMA TakesConfines ==
  ASSUME ThreadsInv, NEW h \in Handles, NEW t, NEW r, Takes(h, t, r), Settled(heap', handles')
  PROVE  ThreadsInv'
<1>1. /\ Settled(heap, handles) /\ Deep(heap) /\ Owned(heap, handles)
      /\ IdleBut({r}, heap, heap') /\ r \in Objects /\ heap[r].rc >= 0 /\ heap'[r].rc > 0
  BY DEF ThreadsInv, Takes
<1>2. Deep(heap')
  BY <1>1, DeepOn
<1>3. \A g \in Handles \ {h} : ~Within(heap, handles[g], r)
  BY <1>1, Apart DEF Takes
<1>4. Grounded(heap, handles, r, t, heap', handles')
  <2> SUFFICES ASSUME NEW g \in Handles, NEW o \in Objects,
                      heap'[o].rc > 0, Within(heap', handles'[g], o)
               PROVE  /\ handles'[g].form # "unbound"
                      /\ IF o = r THEN handles'[g].thread = t
                         ELSE Touches(heap, handles, handles'[g].thread, o)
    BY DEF Grounded
  <2>1. CASE g = h
    <3>1. handles'[g].form # "unbound" /\ handles'[g].thread = t /\ handles'[g].obj = r
      BY <2>1 DEF Takes
    <3>2. CASE o # r
      <4>1. PICK i \in DOMAIN heap'[r].kids : heap'[r].kids[i] = o
        BY <3>1, <3>2 DEF Within
      <4>2. heap[o].rc > 0
        BY <1>1, <3>2 DEF IdleBut, Loses, Freed
      <4>3. Touches(heap, handles, t, o)
        BY <4>1, <4>2 DEF Takes, Touches
      <4> QED
        BY <3>1, <3>2, <4>3
    <3> QED
      BY <3>1, <3>2
  <2>2. CASE g # h
    <3>1. handles'[g] = handles[g]
      BY <2>2, LeanObjectsAssumption DEF Takes, Within, Empty
    <3>2. handles[g].obj \in Objects /\ handles[g].obj # r
      BY <1>3, <2>2, <3>1 DEF Within
    <3>3. o # r
      <4> SUFFICES ASSUME o = r PROVE FALSE
        OBVIOUS
      <4>1. Loses(heap[handles[g].obj], heap'[handles[g].obj])
        BY <1>1, <3>2 DEF IdleBut
      <4>2. PICK i \in DOMAIN heap'[handles[g].obj].kids : heap'[handles[g].obj].kids[i] = r
        BY <3>1, <3>2 DEF Within
      <4>3. heap'[handles[g].obj].kids # <<>>
        BY <4>2
      <4>4. heap'[handles[g].obj].kids = heap[handles[g].obj].kids
        BY <4>1, <4>3 DEF Loses, Freed
      <4>5. Within(heap, handles[g], r)
        BY <3>2, <4>2, <4>4 DEF Within
      <4> QED
        BY <1>3, <2>2, <4>5
    <3>4. Within(heap, handles[g], o) /\ heap[o].rc > 0
      BY <1>1, <3>1, <3>2, <3>3, WithinBefore
    <3>5. handles[g].form # "unbound"
      BY <1>1, <3>4 DEF Owned
    <3>6. Touches(heap, handles, handles[g].thread, o)
      BY <3>4, <3>5 DEF Touches
    <3> QED
      BY <3>1, <3>3, <3>5, <3>6
  <2> QED
    BY <2>1, <2>2
<1>5. Owned(heap', handles')
  BY <1>1, <1>4, OwnedOn
<1> QED
  BY <1>2, <1>5 DEF ThreadsInv

\* Handles follow when one of them is emptied or changes its form, and the others stay.
LEMMA SlotsFollow ==
  ASSUME ThreadsInv, NEW h \in Handles, NEW y, Follows(y),
         handles' = [handles EXCEPT ![h] = y]
  PROVE  \A g \in Handles : Follows(handles'[g])
<1>1. handles = [k \in Handles |-> handles[k]]
  BY DEF ThreadsInv, Settled, Handed
<1>2. \A g \in Handles : handles'[g] = y \/ handles'[g] = handles[g]
  BY <1>1
<1> QED
  BY <1>2, HandlesFollow

\* The clone of a handle goes where the handle is; a reference is bound on its own thread, and
\* what is shared reaches atomic counts only.
LEMMA ClonesConfine ==
  ASSUME ThreadsInv, NEW h \in Handles, NEW g \in Handles \ {h},
         Clone(h, g) \/ \E t \in Threads : Bind(t, h, g)
  PROVE  ThreadsInv'
<1>0. Settled(heap, handles)
  BY DEF ThreadsInv
<1>1. CASE Clone(h, g)
  <2>1. Passed
    BY <1>0, <1>1, ClonePasses
  <2>2. handles' = [handles EXCEPT ![g] = handles[h]]
    BY <1>1 DEF Clone
  <2> QED
    BY <2>1, <2>2, HandlesFollow, SlotsFollow, PassedConfines
<1>2. ASSUME NEW t \in Threads, Bind(t, h, g) PROVE ThreadsInv'
  <2>1. Passed
    BY <1>0, <1>2, BindPasses
  <2>2. /\ handles' = [handles EXCEPT ![g] = Bound(t, Obj(h))]
        /\ handles[h].form = "unbound" \/ handles[h].thread = t
    BY <1>2 DEF Bind
  <2>3. Follows(Bound(t, Obj(h)))
    <3> SUFFICES ASSUME NEW o \in Objects, heap[o].rc > 0, Within(heap, Bound(t, Obj(h)), o)
                 PROVE  Touches(heap, handles, t, o)
      BY DEF Follows, Bound
    <3>1. Within(heap, handles[h], o)
      BY DEF Within, Bound, Obj
    <3>2. handles[h].form # "unbound"
      BY <3>1 DEF ThreadsInv, Owned
    <3> QED
      BY <2>2, <3>1, <3>2 DEF Touches
  <2> QED
    BY <2>1, <2>2, <2>3, SlotsFollow, PassedConfines
<1> QED
  BY <1>1, <1>2

\* An element is got by a handle of the thread that reaches it through the array.
LEMMA GetsConfine ==
  ASSUME ThreadsInv, NEW h \in Handles, NEW g \in Handles \ {h}, NEW i, ArrayGet(h, i, g)
  PROVE  ThreadsInv'
<1>0. Settled(heap, handles)
  BY DEF ThreadsInv
<1>1. Passed
  BY <1>0, ArrayGetPasses
<1> DEFINE e == CellOf(h).kids[i]
           y == Bound(handles[h].thread, e)
<1>2. /\ handles' = [handles EXCEPT ![g] = y] /\ handles[h].form = "bound"
      /\ handles[h] # Empty /\ i \in DOMAIN CellOf(h).kids
  BY DEF ArrayGet, IsArray, IsEmpty
<1>3. Obj(h) \in Objects
  BY <1>0, <1>2, UsableHandles DEF Obj
<1>4. e \in Objects /\ heap[e].kind = "external" /\ heap[e].kids = <<>>
  <2>1. IsCell(CellOf(h)) /\ Flat(heap)
    BY <1>0, <1>3 DEF Settled, Exact, IsHeap, CellOf
  <2>2. e \in Objects /\ heap[e].kind = "external"
    BY <1>2, <1>3, <2>1, SequenceIsFinite DEF IsCell, Flat, CellOf
  <2>3. IsCell(heap[e])
    BY <1>0, <2>2 DEF Settled, Exact, IsHeap
  <2> QED
    BY <2>2, <2>3 DEF IsCell
<1>5. Within(heap, handles[h], e)
  BY <1>2, <1>3 DEF Within, Obj, CellOf
<1> HIDE DEF e
<1>6. y.obj = e /\ y.thread = handles[h].thread /\ y.form = "bound"
  BY DEF Bound
<1> HIDE DEF y
<1>7. Follows(y)
  <2> SUFFICES ASSUME NEW o \in Objects, heap[o].rc > 0, Within(heap, y, o)
               PROVE  Touches(heap, handles, handles[h].thread, o)
    BY <1>6 DEF Follows
  <2>1. DOMAIN heap[e].kids = {}
    BY <1>4
  <2>2. o = e
    BY <1>6, <2>1 DEF Within
  <2> QED
    BY <1>2, <1>5, <2>2 DEF Touches
<1> QED
  BY <1>1, <1>2, <1>7, SlotsFollow, PassedConfines

\* Handles that are dropped
LEMMA DropsConfine ==
  ASSUME ThreadsInv, NEW h \in Handles,
         Drop(h) \/ OwnedMethod(h) \/ \E g \in Handles \ {h} : ArraySetFails(h, g)
  PROVE  ThreadsInv'
<1>0. Settled(heap, handles)
  BY DEF ThreadsInv
<1>1. CASE Drop(h) \/ OwnedMethod(h)
  <2>1. /\ heap' = Release(heap, Obj(h)) /\ handles' = [handles EXCEPT ![h] = Empty]
        /\ handles[h] # Empty
    BY <1>1 DEF Drop, OwnedMethod, HasValue, IsExternal, IsEmpty, Become
  <2>2. Passed
    BY <1>0, <2>1, DropPasses
  <2> QED
    BY <2>1, <2>2, HandlesFollow, SlotsFollow, PassedConfines
<1>2. ASSUME NEW g \in Handles \ {h}, ArraySetFails(h, g) PROVE ThreadsInv'
  <2>1. Passed
    BY <1>0, <1>2, ArraySetFailsPasses
  <2>2. handles' = [handles EXCEPT ![h] = Empty, ![g] = Empty]
    BY <1>2 DEF ArraySetFails
  <2>3. handles = [k \in Handles |-> handles[k]]
    BY <1>0 DEF Settled, Handed
  <2>4. \A k \in Handles : handles'[k] = Empty \/ handles'[k] = handles[k]
    BY <2>2, <2>3
  <2>5. \A k \in Handles : Follows(handles'[k])
    BY <2>4, HandlesFollow
  <2> QED
    BY <2>1, <2>5, PassedConfines
<1> QED
  BY <1>1, <1>2

\* unbind leaves a handle on its thread; what comes from a shared handle, or was sent, reaches
\* atomic counts only.
LEMMA FormsConfine ==
  ASSUME ThreadsInv, RefsCross = FALSE, NEW h \in Handles,
         Unbind(h) \/ \E t \in Threads : FromUnbound(t, h) \/ SendRef(t, h)
  PROVE  ThreadsInv'
<1>0. Settled(heap, handles) /\ handles = [k \in Handles |-> handles[k]]
  BY DEF ThreadsInv, Settled, Handed
<1>1. handles[h] # Empty
  BY DEF Unbind, FromUnbound, SendRef, IsEmpty
<1>2. IsHandle(handles[h]) /\ Obj(h) \in Objects
  BY <1>0, <1>1, UsableHandles DEF Settled, Handed, Obj
<1>3. CASE Unbind(h)
  <2>1. Passed
    BY <1>0, <1>3, UnbindPasses
  <2> DEFINE y == Ref(handles[h].thread, Obj(h))
  <2>2. handles[h] = Bound(handles[h].thread, handles[h].obj)
    BY <1>1, <1>2, <1>3, HandleForms DEF Unbind
  <2>3. [handles[h] EXCEPT !.form = "ref"] = y
    BY <2>2 DEF Bound, Ref, Obj
  <2>4. handles' = [handles EXCEPT ![h] = y]
    BY <1>3, <2>3 DEF Unbind
  <2>5. Follows(y)
    <3>1. Follows(handles[h])
      BY HandlesFollow
    <3>2. y.obj = handles[h].obj /\ y.thread = handles[h].thread /\ y.form = "ref"
      BY DEF Ref, Obj
    <3> QED
      BY <3>1, <3>2 DEF Follows, Within
  <2> QED
    BY <2>1, <2>4, <2>5, SlotsFollow, PassedConfines
<1>4. ASSUME NEW t \in Threads, FromUnbound(t, h) PROVE ThreadsInv'
  <2>1. Passed
    BY <1>0, <1>4, FromUnboundPasses
  <2>2. PICK y \in {Bound(t, Obj(h)), Ref(t, Obj(h))} : handles' = [handles EXCEPT ![h] = y]
    BY <1>4 DEF FromUnbound
  <2>3. y.obj = handles[h].obj /\ handles[h].form = "unbound"
    BY <1>4 DEF FromUnbound, Bound, Ref, Obj
  <2>4. Follows(y)
    BY <2>3 DEF ThreadsInv, Owned, Follows, Within
  <2> QED
    BY <2>1, <2>2, <2>4, SlotsFollow, PassedConfines
<1>5. ASSUME NEW t \in Threads, SendRef(t, h) PROVE ThreadsInv'
  <2>1. Passed
    BY <1>0, <1>5, SendRefPasses
  <2>2. heap[Obj(h)].rc < 0 /\ handles' = [handles EXCEPT ![h].thread = t]
    BY <1>5 DEF SendRef, CellOf
  <2>3. PICK y : y = [handles[h] EXCEPT !.thread = t]
    OBVIOUS
  <2>4. handles' = [handles EXCEPT ![h] = y]
    BY <2>2, <2>3
  <2>5. y.obj = Obj(h)
    BY <1>1, <1>2, <1>5, <2>3, HandleForms DEF SendRef, Ref, Obj
  <2>6. Follows(y)
    <3> SUFFICES ASSUME NEW o \in Objects, heap[o].rc > 0, Within(heap, y, o) PROVE FALSE
      BY DEF Follows
    <3>1. heap[o].rc < 0
      BY <1>2, <2>2, <2>5 DEF ThreadsInv, Deep, Within
    <3> QED
      BY <3>1, <1>0 DEF Settled, Exact, IsHeap, IsCell
  <2> QED
    BY <2>1, <2>4, <2>6, SlotsFollow, PassedConfines
<1> QED
  BY <1>3, <1>4, <1>5

\* What becomes shared has been marked with all it reaches.
LEMMA MarksConfine ==
  ASSUME ThreadsInv, NEW h \in Handles, UnbindMT(h)
  PROVE  ThreadsInv'
<1>0. Settled(heap, handles) /\ handles = [k \in Handles |-> handles[k]]
  BY DEF ThreadsInv, Settled, Handed
<1>1. /\ Settled(heap', handles') /\ \A x \in Objects : Marks(heap[x], heap'[x])
      /\ Obj(h) \in Objects /\ heap'[Obj(h)].rc < 0
      /\ \A i \in DOMAIN heap[Obj(h)].kids : heap'[heap[Obj(h)].kids[i]].rc < 0
      /\ \A x \in Objects : heap'[x].rc = heap[x].rc \/ Within(heap, handles[h], x)
      /\ handles' = [handles EXCEPT ![h] = Unbound(Obj(h))]
  BY <1>0, UnbindMTMarks
<1>2. \A x \in Objects : IsCell(heap[x]) /\ heap[x].rc \in Int /\ heap'[x].rc \in Int
  BY <1>0, <1>1 DEF Settled, Exact, IsHeap, IsCell
<1>3. \A x \in Objects : Within(heap, handles[h], x) => heap'[x].rc < 0
  BY <1>1 DEF Within, Obj
<1>4. Deep(heap')
  <2> SUFFICES ASSUME NEW a \in Objects, heap'[a].rc < 0, NEW i \in DOMAIN heap'[a].kids
               PROVE  heap'[heap'[a].kids[i]].rc < 0
    BY DEF Deep
  <2>1. heap'[a].kids = heap[a].kids
    BY <1>1 DEF Marks
  <2>2. heap[a].kids[i] \in Objects /\ heap[heap[a].kids[i]].kind = "external"
    <3>1. heap[a].kids \in Seq(Objects) /\ i \in DOMAIN heap[a].kids /\ Flat(heap)
      BY <1>0, <1>2, <2>1 DEF Settled, Exact, IsCell
    <3> QED
      BY <3>1, SequenceIsFinite DEF Flat
  <2>3. CASE heap[a].rc < 0
    <3>1. heap[heap[a].kids[i]].rc < 0
      BY <2>1, <2>3 DEF ThreadsInv, Deep
    <3>2. Marks(heap[heap[a].kids[i]], heap'[heap[a].kids[i]])
      BY <1>1, <2>2
    <3>3. heap'[heap[a].kids[i]].rc < 0
      BY <1>2, <2>2, <3>1, <3>2 DEF Marks
    <3> QED
      BY <2>1, <3>3
  <2>4. CASE ~(heap[a].rc < 0)
    <3>1. Within(heap, handles[h], a)
      BY <1>1, <2>4
    <3>2. a = Obj(h)
      <4> SUFFICES ASSUME a # Obj(h) PROVE FALSE
        OBVIOUS
      <4>1. PICK j \in DOMAIN heap[Obj(h)].kids : heap[Obj(h)].kids[j] = a
        BY <3>1 DEF Within, Obj
      <4>2. heap[a].kind = "external"
        BY <1>0, <1>1, <4>1 DEF Settled, Exact, Flat
      <4>3. heap[a].kids = <<>>
        BY <1>2, <4>2 DEF IsCell
      <4> QED
        BY <2>1, <4>3
    <3> QED
      BY <1>1, <2>1, <3>2
  <2> QED
    BY <2>3, <2>4
<1>5. Grounded(heap, handles, Null, Null, heap', handles')
  <2> SUFFICES ASSUME NEW g \in Handles, NEW o \in Objects,
                      heap'[o].rc > 0, Within(heap', handles'[g], o)
               PROVE  /\ handles'[g].form # "unbound"
                      /\ Touches(heap, handles, handles'[g].thread, o)
    BY LeanObjectsAssumption DEF Grounded
  <2>1. heap[o].rc > 0
    BY <1>1, <1>2 DEF Marks
  <2>2. handles'[g].obj \in Objects /\ heap'[handles'[g].obj].kids = heap[handles'[g].obj].kids
    BY <1>1 DEF Marks, Within
  <2>3. Within(heap, handles'[g], o)
    BY <2>2 DEF Within
  <2>4. g # h
    <3> SUFFICES ASSUME g = h PROVE FALSE
      OBVIOUS
    <3>1. handles'[g].obj = handles[h].obj
      BY <1>0, <1>1 DEF Unbound, Obj
    <3>2. heap'[o].rc < 0
      BY <1>3, <2>3, <3>1 DEF Within
    <3> QED
      BY <1>2, <3>2
  <2>5. handles'[g] = handles[g]
    BY <1>0, <1>1, <2>4
  <2> QED
    BY <2>1, <2>3, <2>5, HandlesFollow DEF Follows
<1>6. Owned(heap', handles')
  BY <1>5, OwnedOn DEF ThreadsInv
<1> QED
  BY <1>1, <1>4, <1>6 DEF ThreadsInv

\* A new object is within reach of the handle it was made for.
LEMMA NewConfines ==
  ASSUME ThreadsInv, NEW h \in Handles, NEW t \in Threads, NewExternal(t, h) \/ NewArray(t, h)
  PROVE  ThreadsInv'
<1>1. PICK r \in FreshObjects, c \in {External(v) : v \in Payloads} \cup {Array(<<>>)} :
        handles[h] = Empty /\ Allocate(h, t, heap, r, c)
  BY DEF NewExternal, NewArray, IsEmpty
<1>2. /\ Settled(heap, handles) /\ r \in Objects /\ heap[r].kind = "fresh"
      /\ heap' = [heap EXCEPT ![r] = c] /\ handles' = [handles EXCEPT ![h] = Bound(t, r)]
  BY <1>1 DEF Allocate, Become, FreshObjects, ThreadsInv
<1>3. IsCell(c) /\ c.rc = 1 /\ c.kids = <<>>
  BY NewCells
<1>4. Settled(heap', handles') /\ IdleBut({r}, heap, heap') /\ heap'[r] = c
  BY <1>1, <1>2, <1>3, AllocateSettles
<1>5. Takes(h, t, r)
  <2>1. heap[r].rc = 0 /\ handles = [k \in Handles |-> handles[k]]
    BY <1>2 DEF Settled, Handed, Exact, IsHeap, IsCell
  <2>2. handles'[h] = Bound(t, r) /\ \A g \in Handles \ {h} : handles'[g] = handles[g]
    BY <1>2, <2>1
  <2>3. handles'[h].form # "unbound" /\ handles'[h].obj = r /\ handles'[h].thread = t
    BY <2>2 DEF Bound
  <2>4. heap'[r].rc = 1 /\ DOMAIN heap'[r].kids = {}
    BY <1>3, <1>4
  <2> QED
    BY <1>2, <1>4, <2>1, <2>2, <2>3, <2>4 DEF Takes
<1> QED
  BY <1>4, <1>5, TakesConfines

\* An operation goes to the object of the handle if that is exclusive, else to a new one.
LEMMA TargetsAre ==
  ASSUME Settled(heap, handles), NEW h \in Handles, NEW r \in Targets(h),
         Obj(h) \in Objects
  PROVE  r \in Objects /\ (heap[r].rc = 0 \/ (heap[r].rc = 1 /\ Obj(h) = r))
<1>1. CASE IsExclusive(CellOf(h))
  BY <1>1 DEF Targets, IsExclusive, CellOf
<1>2. CASE ~IsExclusive(CellOf(h))
  BY <1>2 DEF Targets, FreshObjects, Settled, Exact, IsHeap, IsCell
<1> QED
  BY <1>1, <1>2

\* The elements s are within reach of handles of thread t that are not shared.
Reached(t, s) ==
  \A i \in DOMAIN s : \E f \in Handles :
    Within(heap, handles[f], s[i]) /\ handles[f].thread = t /\ handles[f].form # "unbound"

\* As those of an array are, and an element that is given to it
LEMMA ElementsReached ==
  ASSUME Settled(heap, handles), NEW h \in Handles, IsArray(h), NEW s,
         \A i \in DOMAIN s :
           \/ \E j \in DOMAIN CellOf(h).kids : CellOf(h).kids[j] = s[i]
           \/ \E g \in Handles : IsExternal(g) /\ SameThread(h, g) /\ Obj(g) = s[i]
  PROVE  Reached(handles[h].thread, s)
<1> SUFFICES ASSUME NEW i \in DOMAIN s
             PROVE  \E f \in Handles : /\ Within(heap, handles[f], s[i])
                                       /\ handles[f].thread = handles[h].thread
                                       /\ handles[f].form # "unbound"
  BY DEF Reached
<1>1. ASSUME NEW j \in DOMAIN CellOf(h).kids, CellOf(h).kids[j] = s[i]
      PROVE  Within(heap, handles[h], s[i]) /\ handles[h].form # "unbound"
  <2>1. handles[h] # Empty /\ handles[h].form = "bound"
    BY DEF IsArray, IsEmpty
  <2>2. handles[h].obj \in Objects
    BY <2>1, UsableHandles
  <2> QED
    BY <1>1, <2>1, <2>2 DEF Within, CellOf, Obj
<1>2. ASSUME NEW g \in Handles, IsExternal(g), SameThread(h, g), Obj(g) = s[i]
      PROVE  /\ Within(heap, handles[g], s[i]) /\ handles[g].form # "unbound"
             /\ handles[g].thread = handles[h].thread
  BY <1>2, GivenHandles DEF Within, Obj, SameThread
<1> QED
  BY <1>1, <1>2

\* The operations on arrays
LEMMA RenewsConfines ==
  ASSUME ThreadsInv, NEW h \in Handles, IsArray(h), NEW r \in Targets(h), NEW s,
         Settled(heap', handles'), Renews(h, r, s, heap'), Reached(handles[h].thread, s),
         handles'[h] = Bound(handles[h].thread, r),
         \A g \in Handles \ {h} : handles'[g] \in {handles[g], Empty}
  PROVE  ThreadsInv'
<1>1. Settled(heap, handles) /\ handles[h] # Empty
  BY DEF ThreadsInv, IsArray, IsEmpty
<1>2. Obj(h) \in Objects
  BY <1>1, UsableHandles DEF Obj
<1>3. r \in Objects /\ (heap[r].rc = 0 \/ (heap[r].rc = 1 /\ Obj(h) = r))
  BY <1>1, <1>2, TargetsAre
<1>4. handles'[h].form # "unbound" /\ handles'[h].obj = r /\ handles'[h].thread = handles[h].thread
  BY DEF Bound
<1>5. Takes(h, handles[h].thread, r)
  BY <1>3, <1>4 DEF Takes, Renews, Reached
<1> QED
  BY <1>5, TakesConfines

\* The operations that add and replace elements
LEMMA PushSetConfine ==
  ASSUME ThreadsInv, NEW h \in Handles, NEW g \in Handles \ {h},
         ArrayPush(h, g) \/ \E i \in 1..MaxLen : ArraySet(h, i, g)
  PROVE  ThreadsInv'
<1>0. Settled(heap, handles) /\ handles = [k \in Handles |-> handles[k]]
  BY DEF ThreadsInv, Settled, Handed
<1>1. IsArray(h) /\ IsExternal(g) /\ SameThread(h, g)
  BY DEF ArrayPush, ArraySet
<1>2. CellOf(h).kids \in Seq(Objects) /\ Obj(g) \in Objects
  <2>1. handles[h] # Empty
    BY <1>1 DEF IsArray, IsEmpty
  <2>2. Obj(h) \in Objects
    BY <1>0, <2>1, UsableHandles DEF Obj
  <2> QED
    BY <1>0, <1>1, <2>2, GivenHandles DEF Settled, Exact, IsHeap, IsCell, CellOf
<1>3. CASE ArrayPush(h, g)
  <2> DEFINE s == Append(CellOf(h).kids, Obj(g))
  <2>1. PICK r \in Targets(h) :
          Become(Updated(h, r, s), {}) /\ handles' = [handles EXCEPT ![h].obj = r, ![g] = Empty]
    BY <1>3 DEF ArrayPush
  <2>2. Len(CellOf(h).kids) < MaxLen /\ heap' = Updated(h, r, s)
    BY <1>3, <2>1 DEF ArrayPush, Become
  <2>3. /\ Settled(heap', handles') /\ Renews(h, r, s, heap')
        /\ handles' = [handles EXCEPT ![h] = Bound(handles[h].thread, r), ![g] = Empty]
    <3>1. /\ Settled(heap, handles) /\ IsArray(h) /\ IsExternal(g)
          /\ handles' = [handles EXCEPT ![h].obj = r, ![g] = Empty]
      BY <1>0, <1>1, <2>1
    <3>2. Settled(heap', handles') /\ Renews(h, r, s, heap')
      BY <2>2, <3>1, PushWorks
    <3>3. [handles[h] EXCEPT !.obj = r] = Bound(handles[h].thread, r)
      BY <3>1, ArrayHandles
    <3> QED
      BY <3>1, <3>2, <3>3
  <2>4. \A i \in DOMAIN s : s[i] = Obj(g) \/ \E j \in DOMAIN CellOf(h).kids : CellOf(h).kids[j] = s[i]
    BY <1>2
  <2> HIDE DEF s
  <2>5. Reached(handles[h].thread, s)
    BY <1>0, <1>1, <2>4, ElementsReached
  <2>6. /\ handles'[h] = Bound(handles[h].thread, r)
        /\ \A k \in Handles \ {h} : handles'[k] \in {handles[k], Empty}
    BY <1>0, <2>3
  <2> QED
    BY <1>1, <2>3, <2>5, <2>6, RenewsConfines
<1>4. ASSUME NEW i \in 1..MaxLen, ArraySet(h, i, g) PROVE ThreadsInv'
  <2> DEFINE s == [CellOf(h).kids EXCEPT ![i] = Obj(g)]
  <2>1. PICK r \in Targets(h) :
          /\ Become(Release(Updated(h, r, s), CellOf(h).kids[i]), {})
          /\ handles' = [handles EXCEPT ![h].obj = r, ![g] = Empty]
    BY <1>4 DEF ArraySet
  <2>2. i \in DOMAIN CellOf(h).kids /\ heap' = Release(Updated(h, r, s), CellOf(h).kids[i])
    BY <1>4, <2>1 DEF ArraySet, Become
  <2>3. /\ Settled(heap', handles') /\ Renews(h, r, s, heap')
        /\ handles' = [handles EXCEPT ![h] = Bound(handles[h].thread, r), ![g] = Empty]
    <3>1. /\ Settled(heap, handles) /\ IsArray(h) /\ IsExternal(g)
          /\ handles' = [handles EXCEPT ![h].obj = r, ![g] = Empty]
      BY <1>0, <1>1, <2>1
    <3>2. Settled(heap', handles') /\ Renews(h, r, s, heap')
      BY <2>2, <3>1, SetWorks
    <3>3. [handles[h] EXCEPT !.obj = r] = Bound(handles[h].thread, r)
      BY <3>1, ArrayHandles
    <3> QED
      BY <3>1, <3>2, <3>3
  <2>4. \A k \in DOMAIN s : s[k] = Obj(g) \/ \E j \in DOMAIN CellOf(h).kids : CellOf(h).kids[j] = s[k]
    BY <1>2, <2>2
  <2> HIDE DEF s
  <2>5. Reached(handles[h].thread, s)
    BY <1>0, <1>1, <2>4, ElementsReached
  <2>6. /\ handles'[h] = Bound(handles[h].thread, r)
        /\ \A k \in Handles \ {h} : handles'[k] \in {handles[k], Empty}
    BY <1>0, <2>3
  <2> QED
    BY <1>1, <2>3, <2>5, <2>6, RenewsConfines
<1> QED
  BY <1>3, <1>4

\* The operations that move elements, or release one
LEMMA PopSwapConfine ==
  ASSUME ThreadsInv, NEW h \in Handles,
         ArrayPop(h) \/ \E i, j \in 1..MaxLen : ArraySwap(h, i, j)
  PROVE  ThreadsInv'
<1>0. Settled(heap, handles) /\ handles = [k \in Handles |-> handles[k]]
  BY DEF ThreadsInv, Settled, Handed
<1>1. IsArray(h)
  BY DEF ArrayPop, ArraySwap
<1>2. CellOf(h).kids \in Seq(Objects)
  <2>1. handles[h] # Empty
    BY <1>1 DEF IsArray, IsEmpty
  <2>2. Obj(h) \in Objects
    BY <1>0, <2>1, UsableHandles DEF Obj
  <2> QED
    BY <1>0, <2>2 DEF Settled, Exact, IsHeap, IsCell, CellOf
<1>3. CASE ArrayPop(h)
  <2> DEFINE n == Len(CellOf(h).kids)
             s == SubSeq(CellOf(h).kids, 1, n - 1)
  <2>1. PICK r \in Targets(h) :
          /\ Become(Release(Updated(h, r, s), CellOf(h).kids[n]), {})
          /\ handles' = [handles EXCEPT ![h].obj = r]
    BY <1>3 DEF ArrayPop
  <2>2. CellOf(h).kids # <<>> /\ heap' = Release(Updated(h, r, s), CellOf(h).kids[n])
    BY <1>3, <2>1 DEF ArrayPop, Become
  <2>3. /\ Settled(heap', handles') /\ Renews(h, r, s, heap')
        /\ handles' = [handles EXCEPT ![h] = Bound(handles[h].thread, r)]
    BY <1>0, <1>1, <2>1, <2>2, PopWorks
  <2>4. \A i \in DOMAIN s : i \in DOMAIN CellOf(h).kids /\ CellOf(h).kids[i] = s[i]
    BY <1>2, <2>2
  <2> HIDE DEF s
  <2>5. Reached(handles[h].thread, s)
    BY <1>0, <1>1, <2>4, ElementsReached
  <2>6. /\ handles'[h] = Bound(handles[h].thread, r)
        /\ \A k \in Handles \ {h} : handles'[k] \in {handles[k], Empty}
    BY <1>0, <2>3
  <2> QED
    BY <1>1, <2>3, <2>5, <2>6, RenewsConfines
<1>4. ASSUME NEW i \in 1..MaxLen, NEW j \in 1..MaxLen, ArraySwap(h, i, j) PROVE ThreadsInv'
  <2> DEFINE s == [CellOf(h).kids EXCEPT ![i] = CellOf(h).kids[j], ![j] = CellOf(h).kids[i]]
  <2>1. PICK r \in Targets(h) :
          Become(Updated(h, r, s), {}) /\ handles' = [handles EXCEPT ![h].obj = r]
    BY <1>4 DEF ArraySwap
  <2>2. /\ i \in DOMAIN CellOf(h).kids /\ j \in DOMAIN CellOf(h).kids /\ i # j
        /\ heap' = Updated(h, r, s)
    BY <1>4, <2>1 DEF ArraySwap, Become
  <2>3. /\ Settled(heap', handles') /\ Renews(h, r, s, heap')
        /\ handles' = [handles EXCEPT ![h] = Bound(handles[h].thread, r)]
    BY <1>0, <1>1, <2>1, <2>2, SwapWorks
  <2>4. \A k \in DOMAIN s : \E m \in DOMAIN CellOf(h).kids : CellOf(h).kids[m] = s[k]
    BY <1>2, <2>2
  <2> HIDE DEF s
  <2>5. Reached(handles[h].thread, s)
    BY <1>0, <1>1, <2>4, ElementsReached
  <2>6. /\ handles'[h] = Bound(handles[h].thread, r)
        /\ \A k \in Handles \ {h} : handles'[k] \in {handles[k], Empty}
    BY <1>0, <2>3
  <2> QED
    BY <1>1, <2>3, <2>5, <2>6, RenewsConfines
<1> QED
  BY <1>3, <1>4

\* What a method writes to it had to itself.
LEMMA WritesConfine ==
  ASSUME ThreadsInv, NEW h \in Handles, MutMethod(h) \/ TryGetMut(h) \/ TryTakeInner(h)
  PROVE  ThreadsInv'
<1>0. Settled(heap, handles) /\ handles = [k \in Handles |-> handles[k]]
  BY DEF ThreadsInv, Settled, Handed
<1>1. IsExternal(h)
  BY DEF MutMethod, TryGetMut, TryTakeInner, HasValue
<1>2. Obj(h) \in Objects /\ handles[h].form = "bound"
  BY <1>0, <1>1, GivenHandles
<1>3. ASSUME NEW r \in Objects, NEW p, Writes(h, r, p, heap'), Settled(heap', handles'),
             heap[r].rc = 0 \/ (heap[r].rc = 1 /\ Obj(h) = r),
             handles'[h].form = "bound", handles'[h].obj = r,
             \A g \in Handles \ {h} : handles'[g] = handles[g]
      PROVE  ThreadsInv'
  <2>1. DOMAIN heap'[r].kids = {}
    BY <1>3 DEF Writes
  <2>2. Takes(h, handles'[h].thread, r)
    BY <1>3, <2>1 DEF Takes, Writes
  <2> QED
    BY <1>3, <2>2, TakesConfines
<1>4. CASE MutMethod(h)
  <2>1. PICK v \in Payloads, r \in Targets(h) :
          /\ Become(IF r = Obj(h) THEN [heap EXCEPT ![r].val = v]
                    ELSE [Release(heap, Obj(h)) EXCEPT ![r] = External(v)], {})
          /\ handles' = [handles EXCEPT ![h].obj = r]
    BY <1>4 DEF MutMethod
  <2>2. heap' = (IF r = Obj(h) THEN [heap EXCEPT ![r].val = v]
                 ELSE [Release(heap, Obj(h)) EXCEPT ![r] = External(v)])
    BY <2>1 DEF Become
  <2>3. /\ Settled(heap', handles') /\ Writes(h, r, v, heap')
        /\ handles' = [handles EXCEPT ![h] = Bound(handles[h].thread, r)]
    BY <1>0, <1>1, <2>1, <2>2, MutWorks
  <2>4. r \in Objects /\ (heap[r].rc = 0 \/ (heap[r].rc = 1 /\ Obj(h) = r))
    BY <1>0, <1>2, TargetsAre
  <2>5. /\ handles'[h].form = "bound" /\ handles'[h].obj = r
        /\ \A g \in Handles \ {h} : handles'[g] = handles[g]
    BY <1>0, <2>3 DEF Bound
  <2> QED
    BY <1>3, <2>3, <2>4, <2>5
<1>5. CASE TryGetMut(h) \/ TryTakeInner(h)
  <2>1. /\ IsExclusive(CellOf(h)) /\ handles' = handles
        /\ \E v \in Payloads \cup {Null} : heap' = [heap EXCEPT ![Obj(h)].val = v]
    BY <1>5 DEF TryGetMut, TryTakeInner, Become
  <2>2. PICK v \in Payloads \cup {Null} : heap' = [heap EXCEPT ![Obj(h)].val = v]
    BY <2>1
  <2>3. Settled(heap', handles') /\ Writes(h, Obj(h), v, heap')
    BY <1>0, <1>1, <2>1, <2>2, WriteInPlace
  <2>4. heap[Obj(h)].rc = 1
    BY <2>1 DEF IsExclusive, CellOf
  <2> QED
    BY <1>2, <1>3, <2>1, <2>3, <2>4 DEF Obj
<1> QED
  BY <1>4, <1>5

\* Every operation keeps plain counts within reach of one thread.
LEMMA ThreadsInvIsInductive ==
  ASSUME ThreadsInv, RefsCross = FALSE, [Next]_vars
  PROVE  ThreadsInv'
<1>1. CASE UNCHANGED vars
  BY <1>1 DEF ThreadsInv, vars
<1>2. CASE Next
  <2>1. PICK h \in Handles :
          \/ Unbind(h) \/ UnbindMT(h) \/ Drop(h)
          \/ \E i, j \in 1..MaxLen : ArraySwap(h, i, j)
          \/ ArrayPop(h) \/ MutMethod(h) \/ OwnedMethod(h) \/ TryGetMut(h) \/ TryTakeInner(h)
          \/ \E t \in Threads : NewExternal(t, h) \/ NewArray(t, h) \/ FromUnbound(t, h) \/ SendRef(t, h)
          \/ \E g \in Handles \ {h} :
               \/ Clone(h, g) \/ ArrayPush(h, g) \/ ArraySetFails(h, g)
               \/ \E t \in Threads : Bind(t, h, g)
               \/ \E i \in 1..MaxLen : ArrayGet(h, i, g) \/ ArraySet(h, i, g)
    BY <1>2 DEF Next
  <2>2. CASE Unbind(h) \/ \E t \in Threads : FromUnbound(t, h) \/ SendRef(t, h)
    BY <2>2, FormsConfine
  <2>3. CASE UnbindMT(h)
    BY <2>3, MarksConfine
  <2>4. CASE Drop(h) \/ OwnedMethod(h) \/ \E g \in Handles \ {h} : ArraySetFails(h, g)
    BY <2>4, DropsConfine
  <2>5. CASE ArrayPop(h) \/ \E i, j \in 1..MaxLen : ArraySwap(h, i, j)
    BY <2>5, PopSwapConfine
  <2>6. CASE MutMethod(h) \/ TryGetMut(h) \/ TryTakeInner(h)
    BY <2>6, WritesConfine
  <2>7. CASE \E t \in Threads : NewExternal(t, h) \/ NewArray(t, h)
    BY <2>7, NewConfines
  <2>8. CASE \E g \in Handles \ {h} : Clone(h, g) \/ \E t \in Threads : Bind(t, h, g)
    BY <2>8, ClonesConfine
  <2>9. CASE \E g \in Handles \ {h} : ArrayPush(h, g) \/ \E i \in 1..MaxLen : ArraySet(h, i, g)
    BY <2>9, PushSetConfine
  <2>10. CASE \E g \in Handles \ {h}, i \in 1..MaxLen : ArrayGet(h, i, g)
    BY <2>10, GetsConfine
  <2> QED
    BY <2>1, <2>2, <2>3, <2>4, <2>5, <2>6, <2>7, <2>8, <2>9, <2>10
<1> QED
  BY <1>1, <1>2

\* Nothing is reached when every slot is empty.
LEMMA ThreadsInvInitially == Init => ThreadsInv
<1> SUFFICES ASSUME Init PROVE ThreadsInv
  OBVIOUS
<1>1. Settled(heap, handles)
  BY CountInvInitially DEF CountInv
<1>2. \A o \in Objects : heap[o].rc = 0
  BY DEF Init, Fresh
<1>3. Deep(heap) /\ Owned(heap, handles)
  BY <1>2 DEF Deep, Owned
<1> QED
  BY <1>1, <1>3 DEF ThreadsInv

\* The threads of handles that are not shared are one thread.
LEMMA ThreadsInvConfines == ThreadsInv => STIsConfined
<1> SUFFICES ASSUME ThreadsInv, NEW o \in Live, heap[o].rc > 0
             PROVE  Cardinality(Reachers(o)) <= 1
  BY DEF STIsConfined
<1>1. o \in Objects /\ Settled(heap, handles) /\ Owned(heap, handles)
  BY DEF Live, ThreadsInv
<1> DEFINE G == {g \in Handles :
                   Obj(g) # Null /\ (Obj(g) = o \/ Occurrences(CellOf(g).kids, o) > 0)}
<1>2. ASSUME NEW g \in G PROVE g \in Handles /\ Within(heap, handles[g], o)
  <2>1. g \in Handles /\ Obj(g) \in Objects
    BY <1>1, HandlesRefer DEF Obj, Settled, Handed
  <2>2. CASE Obj(g) = o
    BY <2>1, <2>2 DEF Within, Obj
  <2>3. CASE Occurrences(CellOf(g).kids, o) > 0
    <3>1. IsFiniteSet(DOMAIN CellOf(g).kids)
      BY <1>1, <2>1, SequenceIsFinite DEF Settled, Exact, IsHeap, IsCell, CellOf
    <3>2. (\A i \in DOMAIN CellOf(g).kids : CellOf(g).kids[i] # o) => Occurrences(CellOf(g).kids, o) = 0
      BY <3>1, OccurrencesType
    <3> QED
      BY <2>1, <2>3, <3>2 DEF Within, CellOf, Obj
  <2> QED
    BY <2>1, <2>2, <2>3
<1>3. Reachers(o) = UNION {HandleThreads(g) : g \in G}
  BY DEF Reachers
<1> HIDE DEF G
<1>4. CASE G = {}
  <2>1. Reachers(o) = {}
    BY <1>3, <1>4
  <2> QED
    BY <2>1, FS_EmptySet
<1>5. ASSUME NEW f \in G PROVE Reachers(o) = {handles[f].thread}
  <2>1. \A g \in G : HandleThreads(g) = {handles[f].thread}
    BY <1>1, <1>2 DEF Owned, HandleThreads
  <2> QED
    BY <1>3, <2>1
<1>6. CASE G # {}
  <2>1. PICK f \in G : TRUE
    BY <1>6
  <2>2. Reachers(o) = {handles[f].thread}
    BY <1>5
  <2>3. Cardinality({handles[f].thread}) = 1
    BY FS_Singleton
  <2> QED
    BY <2>2, <2>3
<1> QED
  BY <1>4, <1>6

\* As long as a LeanRef is only sent once its object is marked, an object whose count is not
\* atomic is within reach of one thread, by handles and through arrays: no two threads ever
\* update the same count without atomics, nor one payload (src/leo3/src/unbound.rs, marking by
\* unbind_mt and into_unbound).
THEOREM PlainCountsHaveOneThread ==
  ASSUME RefsCross = FALSE
  PROVE  Spec => []STIsConfined
<1>1. Init => ThreadsInv
  BY ThreadsInvInitially
<1>2. ThreadsInv /\ [Next]_vars => ThreadsInv'
  BY ThreadsInvIsInductive
<1>3. ThreadsInv => STIsConfined
  BY ThreadsInvConfines
<1> QED
  BY <1>1, <1>2, <1>3, PTL DEF Spec

-----------------------------------------------------------------------------
(* Objects are values: LeanObjects implements PureValues.                  *)

\* The payloads of the elements k
Elements(hp, k) == [i \in DOMAIN k |-> hp[k[i]].val]

\* What an external holds
Contents == Payloads \cup {Null}

\* The value a handle x names in a heap, case by case
Value(hp, x) ==
  IF x = Empty THEN Pure!None
  ELSE IF hp[x.obj].kind = "array" THEN Pure!Array(Elements(hp, hp[x.obj].kids))
  ELSE Pure!Payload(hp[x.obj].val)

Denoted == [h \in Handles |-> Denotes(h)]

\* What handles denote is their value, before a step and after it.
LEMMA DenotedValues ==
  ASSUME Settled(heap, handles)
  PROVE  /\ Denoted = [h \in Handles |-> Value(heap, handles[h])]
         /\ Settled(heap', handles') => Denoted' = [h \in Handles |-> Value(heap', handles'[h])]
<1>1. ASSUME NEW h \in Handles PROVE Denotes(h) = Value(heap, handles[h])
  <2>1. handles[h] # Empty => heap[Obj(h)].kind \in {"external", "array"}
    BY UsableHandles DEF Obj
  <2>2. CASE handles[h] = Empty
    BY <2>2 DEF Denotes, IsEmpty, Value, Pure!None
  <2>3. CASE handles[h] # Empty /\ heap[Obj(h)].kind = "external"
    BY <2>3 DEF Denotes, IsEmpty, CellOf, Obj, Value, Pure!Payload
  <2>4. CASE handles[h] # Empty /\ heap[Obj(h)].kind = "array"
    BY <2>4 DEF Denotes, IsEmpty, CellOf, Obj, Value, Elements, Pure!Array
  <2> QED
    BY <2>1, <2>2, <2>3, <2>4
<1>2. ASSUME NEW h \in Handles, Settled(heap', handles')
      PROVE  Denotes(h)' = Value(heap', handles'[h])
  <2>1. handles'[h] # Empty => heap'[handles'[h].obj].kind \in {"external", "array"}
    BY <1>2, UsableHandles
  <2>2. CASE handles'[h] = Empty
    BY <2>2 DEF Denotes, IsEmpty, Value, Pure!None
  <2>3. CASE handles'[h] # Empty /\ heap'[handles'[h].obj].kind = "external"
    BY <2>3 DEF Denotes, IsEmpty, CellOf, Obj, Value, Pure!Payload
  <2>4. CASE handles'[h] # Empty /\ heap'[handles'[h].obj].kind = "array"
    BY <2>4 DEF Denotes, IsEmpty, CellOf, Obj, Value, Elements, Pure!Array
  <2> QED
    BY <2>1, <2>2, <2>3, <2>4
<1> QED
  BY <1>1, <1>2 DEF Denoted

ValuesInv == Settled(heap, handles)

\* The elements of an array are where a handle to it can find them.
LEMMA ElementsAreLive ==
  ASSUME NEW hp, NEW hs, Settled(hp, hs), NEW a \in Objects, NEW i \in DOMAIN hp[a].kids
  PROVE  /\ hp[a].kids \in Seq(Objects) /\ hp[a].kids[i] \in Objects
         /\ hp[hp[a].kids[i]].kind = "external" /\ hp[hp[a].kids[i]].rc # 0
         /\ hp[a].kind = "array" /\ hp[a].rc # 0
         /\ hp[hp[a].kids[i]].val \in Contents
<1>1. IsCell(hp[a]) /\ Flat(hp)
  BY DEF Settled, Exact, IsHeap
<1>2. hp[a].kids \in Seq(Objects)
  BY <1>1 DEF IsCell
<1>3. hp[a].kids[i] \in Objects /\ hp[hp[a].kids[i]].kind = "external"
  BY <1>1, <1>2, SequenceIsFinite DEF Flat
<1>4. IsCell(hp[hp[a].kids[i]])
  BY <1>3 DEF Settled, Exact, IsHeap
<1>5. hp[hp[a].kids[i]].rc # 0 /\ hp[hp[a].kids[i]].val \in Contents
  BY <1>3, <1>4 DEF IsCell, Contents
<1>6. hp[a].kids # <<>>
  OBVIOUS
<1>7. hp[a].kind = "array" /\ hp[a].rc # 0
  BY <1>1, <1>6 DEF IsCell
<1> QED
  BY <1>2, <1>3, <1>5, <1>7

\* So a handle that reaches nothing that changed names the same value.
LEMMA ValueStays ==
  ASSUME NEW hp, NEW hq, NEW hs, NEW ht, Settled(hp, hs), Settled(hq, ht),
         NEW r, IdleBut({r}, hp, hq), NEW x, x # Empty => x.obj \in Objects /\ hq[x.obj].rc # 0,
         ~Within(hp, x, r)
  PROVE  Value(hq, x) = Value(hp, x)
<1>1. CASE x = Empty
  BY <1>1 DEF Value
<1>2. CASE x # Empty
  <2>1. x.obj \in Objects /\ x.obj # r
    BY <1>2 DEF Within
  <2>2. hq[x.obj].kind = hp[x.obj].kind /\ hq[x.obj].val = hp[x.obj].val /\ hq[x.obj].kids = hp[x.obj].kids
    BY <1>2, <2>1 DEF IdleBut, Loses, Freed
  <2> DEFINE k == hp[x.obj].kids
  <2>3. ASSUME NEW i \in DOMAIN k PROVE hq[k[i]].val = hp[k[i]].val
    <3>1. k[i] # r
      BY <2>1 DEF Within
    <3>2. k[i] \in Objects /\ hq[k[i]].rc # 0
      BY <2>1, <2>2, ElementsAreLive
    <3> QED
      BY <3>1, <3>2 DEF IdleBut, Loses, Freed
  <2> HIDE DEF k
  <2>4. Elements(hq, k) = Elements(hp, k)
    BY <2>3 DEF Elements
  <2> QED
    BY <1>2, <2>2, <2>4 DEF Value, k
<1> QED
  BY <1>1, <1>2

\* The payloads of elements are a sequence as long.
LEMMA ElementsType ==
  ASSUME NEW hp, NEW k \in Seq(Objects), \A i \in DOMAIN k : hp[k[i]].val \in Contents
  PROVE  /\ Elements(hp, k) \in Seq(Contents) /\ Len(Elements(hp, k)) = Len(k)
         /\ DOMAIN Elements(hp, k) = DOMAIN k
<1>1. DOMAIN k = 1 .. Len(k) /\ Len(k) \in Nat
  BY SequenceIsFinite
<1>2. Elements(hp, k) \in [1 .. Len(k) -> Contents]
  BY <1>1 DEF Elements
<1>3. Elements(hp, k) \in Seq(Contents)
  BY <1>1, <1>2, SeqDef
<1> DEFINE e == Elements(hp, k)
<1>4. DOMAIN e = 1 .. Len(k) /\ e \in Seq(Contents)
  BY <1>2, <1>3
<1> HIDE DEF e
<1>5. Len(e) = Len(k)
  BY <1>1, <1>4
<1> QED
  BY <1>1, <1>3, <1>4, <1>5 DEF e

\* Those of a longer array are the old ones and one more.
LEMMA ElementsAppend ==
  ASSUME NEW hp, NEW k \in Seq(Objects), \A i \in DOMAIN k : hp[k[i]].val \in Contents,
         NEW x \in Objects, hp[x].val \in Contents
  PROVE  Elements(hp, Append(k, x)) = Elements(hp, k) \o <<hp[x].val>>
<1> DEFINE q == Append(k, x)
           e == Elements(hp, k)
           f == Elements(hp, q)
           v == hp[x].val
<1>1. q \in Seq(Objects) /\ Len(q) = Len(k) + 1 /\ Len(k) \in Nat
      /\ (\A i \in 1 .. Len(k) : q[i] = k[i]) /\ q[Len(k) + 1] = x
  OBVIOUS
<1>2. \A i \in DOMAIN q : hp[q[i]].val \in Contents
  <2> SUFFICES ASSUME NEW i \in DOMAIN q PROVE hp[q[i]].val \in Contents
    OBVIOUS
  <2>1. i \in 1 .. Len(k) \/ i = Len(k) + 1
    BY <1>1
  <2>2. i \in 1 .. Len(k) => i \in DOMAIN k
    BY SequenceIsFinite
  <2> QED
    BY <1>1, <2>1, <2>2
<1> HIDE DEF q
<1>3. e \in Seq(Contents) /\ Len(e) = Len(k) /\ DOMAIN e = DOMAIN k
  BY ElementsType
<1>4. f \in Seq(Contents) /\ Len(f) = Len(k) + 1 /\ DOMAIN f = DOMAIN q
  BY <1>1, <1>2, ElementsType
<1>5. \A i \in DOMAIN k : e[i] = hp[k[i]].val
  BY DEF Elements
<1>6. \A i \in DOMAIN q : f[i] = hp[q[i]].val
  BY DEF Elements
<1>7. DOMAIN k = 1 .. Len(k) /\ DOMAIN q = 1 .. Len(k) + 1
  BY <1>1, SequenceIsFinite
<1>8. v \in Contents
  OBVIOUS
<1>9. (\A i \in 1 .. Len(k) : f[i] = e[i]) /\ f[Len(k) + 1] = v
  BY <1>1, <1>5, <1>6, <1>7
<1> HIDE DEF e, f, v
<1> DEFINE g == e \o <<v>>
<1>10. /\ g \in Seq(Contents) /\ Len(g) = Len(k) + 1
       /\ (\A i \in 1 .. Len(k) : g[i] = e[i]) /\ g[Len(k) + 1] = v
  <2>1. Append(e, v) = g
    BY <1>3, <1>8, AppendIsConcat
  <2>2. /\ Append(e, v) \in Seq(Contents) /\ Len(Append(e, v)) = Len(e) + 1
        /\ \A i \in 1 .. Len(e) : Append(e, v)[i] = e[i]
        /\ Append(e, v)[Len(e) + 1] = v
    BY <1>3, <1>8, AppendProperties
  <2> QED
    BY <1>3, <2>1, <2>2
<1> HIDE DEF g
<1>11. f = g
  <2>1. \A i \in 1 .. Len(k) + 1 : f[i] = g[i]
    BY <1>1, <1>9, <1>10
  <2> QED
    BY <1>1, <1>4, <1>10, <2>1, SeqEqual
<1> QED
  BY <1>11 DEF e, f, g, v, q

\* Those of a shorter one are all but the last.
LEMMA ElementsShorten ==
  ASSUME NEW hp, NEW k \in Seq(Objects), \A i \in DOMAIN k : hp[k[i]].val \in Contents, k # <<>>
  PROVE  Elements(hp, SubSeq(k, 1, Len(k) - 1)) = SubSeq(Elements(hp, k), 1, Len(Elements(hp, k)) - 1)
<1> DEFINE q == SubSeq(k, 1, Len(k) - 1)
           e == Elements(hp, k)
           f == Elements(hp, q)
<1>1. q \in Seq(Objects) /\ Len(q) = Len(k) - 1 /\ Len(k) \in Nat \ {0}
      /\ (\A i \in 1 .. Len(k) - 1 : q[i] = k[i])
  <2>1. Len(k) \in Nat \ {0}
    BY EmptySeq
  <2> DEFINE m == Len(k) - 1
  <2>2. m \in Nat /\ \A i \in 1 .. m : k[i] \in Objects
    BY <2>1
  <2> HIDE DEF m
  <2>3. /\ SubSeq(k, 1, m) \in Seq(Objects)
        /\ Len(SubSeq(k, 1, m)) = IF 1 <= m THEN m - 1 + 1 ELSE 0
        /\ \A i \in 1 .. m - 1 + 1 : SubSeq(k, 1, m)[i] = k[1 + i - 1]
    BY <2>2, SubSeqProperties
  <2>4. Len(SubSeq(k, 1, m)) = m /\ \A i \in 1 .. m : SubSeq(k, 1, m)[i] = k[i]
    BY <2>2, <2>3
  <2> QED
    BY <2>1, <2>3, <2>4 DEF m
<1>2. DOMAIN q = 1 .. Len(k) - 1 /\ DOMAIN k = 1 .. Len(k)
  BY <1>1
<1> HIDE DEF q
<1>3. \A i \in DOMAIN q : i \in DOMAIN k /\ q[i] = k[i]
  BY <1>1, <1>2
<1>4. e \in Seq(Contents) /\ Len(e) = Len(k)
  BY ElementsType
<1>5. f \in Seq(Contents) /\ Len(f) = Len(k) - 1
  BY <1>1, <1>3, ElementsType
<1>6. \A i \in 1 .. Len(k) - 1 : f[i] = e[i]
  BY <1>2, <1>3 DEF Elements
<1> HIDE DEF e, f
<1> DEFINE g == SubSeq(e, 1, Len(e) - 1)
<1>7. g \in Seq(Contents) /\ Len(g) = Len(k) - 1 /\ (\A i \in 1 .. Len(k) - 1 : g[i] = e[i])
  BY <1>1, <1>4
<1> HIDE DEF g
<1>8. f = g
  <2>1. \A i \in 1 .. Len(f) : f[i] = g[i]
    BY <1>5, <1>6, <1>7
  <2> QED
    BY <1>5, <1>7, <2>1, SeqEqual
<1> QED
  BY <1>8 DEF e, f, g, q

\* An element that is replaced brings its payload, and two that are swapped swap theirs.
LEMMA ElementsUpdate ==
  ASSUME NEW hp, NEW k \in Seq(Objects), NEW i \in DOMAIN k
  PROVE  /\ \A x : Elements(hp, [k EXCEPT ![i] = x]) = [Elements(hp, k) EXCEPT ![i] = hp[x].val]
         /\ \A j \in DOMAIN k :
              Elements(hp, [k EXCEPT ![i] = k[j], ![j] = k[i]])
                = [Elements(hp, k) EXCEPT ![i] = Elements(hp, k)[j], ![j] = Elements(hp, k)[i]]
<1>1. ASSUME NEW x
      PROVE  Elements(hp, [k EXCEPT ![i] = x]) = [Elements(hp, k) EXCEPT ![i] = hp[x].val]
  BY DEF Elements
<1>2. ASSUME NEW j \in DOMAIN k
      PROVE  Elements(hp, [k EXCEPT ![i] = k[j], ![j] = k[i]])
               = [Elements(hp, k) EXCEPT ![i] = Elements(hp, k)[j], ![j] = Elements(hp, k)[i]]
  BY DEF Elements
<1> QED
  BY <1>1, <1>2

PureStep == [Pure!PureNext]_Denoted

\* The steps of the abstract specification, one by one
LEMMA PureSteps ==
  ASSUME NEW h \in Handles
  PROVE  /\ Pure!New(h) \/ Pure!Discard(h) \/ Pure!Write(h) \/ Pure!Pop(h) => PureStep
         /\ \A i, j \in 1..Len(Denoted[h].of) : Pure!Swap(h, i, j) => PureStep
         /\ \A g \in Handles :
              /\ Pure!Copy(h, g) \/ Pure!Push(h, g) \/ Pure!Fail(h, g) => PureStep
              /\ \A i \in 1..Len(Denoted[h].of) : Pure!Get(h, i, g) \/ Pure!Replace(h, i, g) => PureStep
BY DEF PureStep, Pure!PureNext, Denoted

\* An empty slot names nothing; handles to the same object name the same value.
LEMMA ValueForms ==
  ASSUME NEW hp
  PROVE  /\ Value(hp, Empty) = Pure!None
         /\ \A x : x # Empty => Value(hp, x) # Pure!None
         /\ \A x, y : x # Empty /\ y # Empty /\ x.obj = y.obj => Value(hp, x) = Value(hp, y)
<1>1. Value(hp, Empty) = Pure!None
  BY DEF Value
<1>2. ASSUME NEW x, x # Empty PROVE Value(hp, x) # Pure!None
  <2>1. Value(hp, x) = Pure!Array(Elements(hp, hp[x.obj].kids))
          \/ Value(hp, x) = Pure!Payload(hp[x.obj].val)
    BY <1>2 DEF Value
  <2>2. Pure!None.sort = "none"
    BY DEF Pure!None
  <2>3. Pure!Array(Elements(hp, hp[x.obj].kids)).sort = "array"
          /\ Pure!Payload(hp[x.obj].val).sort = "payload"
    BY DEF Pure!Array, Pure!Payload
  <2> QED
    BY <2>1, <2>2, <2>3
<1>3. \A x, y : x # Empty /\ y # Empty /\ x.obj = y.obj => Value(hp, x) = Value(hp, y)
  BY DEF Value
<1> QED
  BY <1>1, <1>2, <1>3

\* When objects keep what they hold, handles name what they would have named before.
LEMMA PassedValues ==
  ASSUME ValuesInv, Passed
  PROVE  /\ ValuesInv' /\ Denoted = [h \in Handles |-> Value(heap, handles[h])]
         /\ Denoted' = [h \in Handles |-> Value(heap, handles'[h])]
<1>1. Settled(heap, handles) /\ Settled(heap', handles')
  BY DEF ValuesInv, Passed
<1>2. IdleBut({Null}, heap, heap') /\ Null \notin Objects
  BY LeanObjectsAssumption DEF Passed, IdleBut
<1>3. \A a \in Objects : \A i \in DOMAIN heap[a].kids : heap[a].kids[i] # Null
  BY <1>1, <1>2, ElementsAreLive
<1>5. ASSUME NEW h \in Handles PROVE Value(heap', handles'[h]) = Value(heap, handles'[h])
  <2>1. ~Within(heap, handles'[h], Null)
    BY <1>2, <1>3 DEF Within
  <2>2. handles'[h] # Empty => handles'[h].obj \in Objects /\ heap'[handles'[h].obj].rc # 0
    BY <1>1, UsableHandles
  <2> QED
    BY <1>1, <1>2, <2>1, <2>2, ValueStays
<1>6. /\ Denoted = [h \in Handles |-> Value(heap, handles[h])]
      /\ Denoted' = [h \in Handles |-> Value(heap', handles'[h])]
  BY <1>1, DenotedValues
<1> QED
  BY <1>1, <1>5, <1>6 DEF ValuesInv

\* Slot h is given y.
LEMMA PassedSlot ==
  ASSUME ValuesInv, Passed, NEW h \in Handles, NEW y, handles' = [handles EXCEPT ![h] = y]
  PROVE  /\ ValuesInv' /\ Denoted' = [Denoted EXCEPT ![h] = Value(heap, y)]
         /\ \A g \in Handles : Denoted[g] = Value(heap, handles[g])
<1>1. handles = [k \in Handles |-> handles[k]]
  BY DEF ValuesInv, Settled, Handed
<1>2. handles'[h] = y /\ \A g \in Handles \ {h} : handles'[g] = handles[g]
  BY <1>1
<1>3. /\ ValuesInv' /\ Denoted = [k \in Handles |-> Value(heap, handles[k])]
      /\ Denoted' = [k \in Handles |-> Value(heap, handles'[k])]
  BY PassedValues
<1> QED
  BY <1>2, <1>3

\* A handle that takes another form names the same value.
LEMMA FormsArePure ==
  ASSUME ValuesInv, Passed, NEW h \in Handles, NEW y, handles' = [handles EXCEPT ![h] = y],
         handles[h] # Empty, y # Empty, y.obj = Obj(h)
  PROVE  ValuesInv' /\ PureStep
<1>1. Value(heap, y) = Value(heap, handles[h])
  BY ValueForms DEF Obj
<1>2. /\ ValuesInv' /\ Denoted' = [Denoted EXCEPT ![h] = Value(heap, y)]
      /\ Denoted[h] = Value(heap, handles[h])
  BY PassedSlot
<1>3. Denoted' = Denoted
  BY <1>1, <1>2 DEF Denoted
<1> QED
  BY <1>2, <1>3 DEF PureStep

\* clone and bind copy a value.
LEMMA CopiesArePure ==
  ASSUME ValuesInv, Passed, NEW h \in Handles, NEW g \in Handles, NEW y,
         handles' = [handles EXCEPT ![g] = y],
         handles[h] # Empty, handles[g] = Empty, y # Empty, y.obj = Obj(h)
  PROVE  ValuesInv' /\ PureStep
<1>1. Value(heap, y) = Value(heap, handles[h])
  BY ValueForms DEF Obj
<1>2. /\ ValuesInv' /\ Denoted' = [Denoted EXCEPT ![g] = Value(heap, y)]
      /\ Denoted[h] = Value(heap, handles[h]) /\ Denoted[g] = Value(heap, handles[g])
  BY PassedSlot
<1>3. Denoted[h] # Pure!None /\ Denoted[g] = Pure!None
  BY <1>2, ValueForms
<1>4. Denoted' = [Denoted EXCEPT ![g] = Denoted[h]]
  BY <1>1, <1>2
<1>5. Pure!Copy(h, g)
  BY <1>3, <1>4 DEF Pure!Copy, Denoted
<1> QED
  BY <1>2, <1>5, PureSteps

\* What a handle that gives access names
LEMMA AccessDenotes ==
  ASSUME ValuesInv, NEW h \in Handles
  PROVE  /\ IsArray(h) => /\ Denoted[h] = Pure!Array(Elements(heap, CellOf(h).kids))
                          /\ Obj(h) \in Objects /\ CellOf(h).kids \in Seq(Objects)
                          /\ \A i \in DOMAIN CellOf(h).kids : heap[CellOf(h).kids[i]].val \in Contents
         /\ IsExternal(h) => /\ Denoted[h] = Pure!Payload(heap[Obj(h)].val) /\ Obj(h) \in Objects
                             /\ heap[Obj(h)].val \in Contents
<1>1. Settled(heap, handles)
  BY DEF ValuesInv
<1>2. Denoted[h] = Value(heap, handles[h])
  BY <1>1, DenotedValues
<1>3. CASE IsArray(h)
  <2>1. handles[h] # Empty /\ heap[Obj(h)].kind = "array"
    BY <1>3 DEF IsArray, IsEmpty, CellOf
  <2>2. Obj(h) \in Objects
    BY <1>1, <2>1, UsableHandles DEF Obj
  <2>3. CellOf(h).kids \in Seq(Objects)
    BY <1>1, <2>2 DEF Settled, Exact, IsHeap, IsCell, CellOf
  <2>4. ASSUME NEW i \in DOMAIN CellOf(h).kids PROVE heap[CellOf(h).kids[i]].val \in Contents
    BY <1>1, <2>2, ElementsAreLive DEF CellOf
  <2>5. Denoted[h] = Pure!Array(Elements(heap, CellOf(h).kids))
    BY <1>2, <2>1 DEF Value, CellOf, Obj
  <2>6. ~IsExternal(h)
    BY <2>1 DEF IsExternal, CellOf
  <2> QED
    BY <2>2, <2>3, <2>4, <2>5, <2>6
<1>4. CASE IsExternal(h)
  <2>1. Obj(h) \in Objects /\ heap[Obj(h)].kind = "external"
        /\ handles[h] # Empty
    BY <1>1, <1>4, GivenHandles
  <2>2. heap[Obj(h)].val \in Contents
    BY <1>1, <2>1 DEF Settled, Exact, IsHeap, IsCell, Contents
  <2>3. Denoted[h] = Pure!Payload(heap[Obj(h)].val)
    BY <1>2, <2>1 DEF Value, Obj
  <2>4. ~IsArray(h)
    BY <2>1 DEF IsArray, CellOf
  <2> QED
    BY <2>1, <2>2, <2>3, <2>4
<1> QED
  BY <1>3, <1>4

\* A handle that is dropped discards its value, and no other.
LEMMA DropsArePure ==
  ASSUME ValuesInv, NEW h \in Handles, Drop(h) \/ OwnedMethod(h)
  PROVE  ValuesInv' /\ PureStep
<1>1. /\ heap' = Release(heap, Obj(h)) /\ handles' = [handles EXCEPT ![h] = Empty]
      /\ handles[h] # Empty /\ Settled(heap, handles)
  BY DEF Drop, OwnedMethod, HasValue, IsExternal, IsEmpty, Become, ValuesInv
<1>2. Passed
  BY <1>1, DropPasses
<1>3. /\ ValuesInv' /\ Denoted' = [Denoted EXCEPT ![h] = Value(heap, Empty)]
      /\ Denoted[h] = Value(heap, handles[h])
  BY <1>1, <1>2, PassedSlot
<1>4. Denoted[h] # Pure!None /\ Denoted' = [Denoted EXCEPT ![h] = Pure!None]
  BY <1>1, <1>3, ValueForms
<1>5. Pure!Discard(h)
  BY <1>4 DEF Pure!Discard, Denoted
<1> QED
  BY <1>3, <1>5, PureSteps

\* An error drops both values it was given.
LEMMA FailureIsPure ==
  ASSUME ValuesInv, NEW h \in Handles, NEW g \in Handles \ {h}, ArraySetFails(h, g)
  PROVE  ValuesInv' /\ PureStep
<1>1. /\ handles' = [handles EXCEPT ![h] = Empty, ![g] = Empty]
      /\ Settled(heap, handles) /\ IsArray(h) /\ IsExternal(g)
  BY DEF ArraySetFails, ValuesInv
<1>2. Passed
  BY <1>1, ArraySetFailsPasses
<1>3. /\ ValuesInv' /\ Denoted = [k \in Handles |-> Value(heap, handles[k])]
      /\ Denoted' = [k \in Handles |-> Value(heap, handles'[k])]
  BY <1>2, PassedValues
<1>4. Denoted[h].sort = "array" /\ Denoted[g].sort = "payload"
  <2>1. Denoted[h] = Pure!Array(Elements(heap, CellOf(h).kids))
    BY <1>1, AccessDenotes
  <2>2. Denoted[g] = Pure!Payload(heap[Obj(g)].val)
    BY <1>1, AccessDenotes
  <2> QED
    BY <2>1, <2>2 DEF Pure!Array, Pure!Payload
<1>5. Denoted' = [Denoted EXCEPT ![h] = Pure!None, ![g] = Pure!None]
  <2>1. handles = [k \in Handles |-> handles[k]]
    BY <1>1 DEF Settled, Handed
  <2>2. handles'[h] = Empty /\ handles'[g] = Empty /\ \A k \in Handles \ {h, g} : handles'[k] = handles[k]
    BY <1>1, <2>1
  <2> QED
    BY <1>3, <2>2, ValueForms
<1>6. Pure!Fail(h, g)
  BY <1>4, <1>5 DEF Pure!Fail, Pure!IsArray, Pure!IsPayload, Denoted
<1> QED
  BY <1>3, <1>6, PureSteps

\* An element that is got is the payload the array has there.
LEMMA GetIsPure ==
  ASSUME ValuesInv, NEW h \in Handles, NEW g \in Handles \ {h}, NEW i, ArrayGet(h, i, g)
  PROVE  ValuesInv' /\ PureStep
<1> DEFINE e == CellOf(h).kids[i]
           y == Bound(handles[h].thread, e)
<1>1. /\ handles' = [handles EXCEPT ![g] = y] /\ handles[g] = Empty
      /\ Settled(heap, handles) /\ IsArray(h) /\ i \in DOMAIN CellOf(h).kids
  BY DEF ArrayGet, ValuesInv, IsEmpty
<1>2. Passed
  BY <1>1, ArrayGetPasses
<1>3. /\ Denoted[h] = Pure!Array(Elements(heap, CellOf(h).kids)) /\ CellOf(h).kids \in Seq(Objects)
      /\ Obj(h) \in Objects /\ \A j \in DOMAIN CellOf(h).kids : heap[CellOf(h).kids[j]].val \in Contents
  BY <1>1, AccessDenotes
<1>4. e \in Objects /\ heap[e].kind = "external"
  BY <1>1, <1>3, ElementsAreLive DEF CellOf
<1>5. Denoted[h].of = Elements(heap, CellOf(h).kids) /\ Denoted[h].sort = "array"
  BY <1>3 DEF Pure!Array
<1>6. i \in 1 .. Len(Denoted[h].of) /\ Denoted[h].of[i] = heap[e].val
  <2>1. Len(Denoted[h].of) = Len(CellOf(h).kids)
    BY <1>3, <1>5, ElementsType
  <2>2. DOMAIN CellOf(h).kids = 1 .. Len(CellOf(h).kids)
    BY <1>3, SequenceIsFinite
  <2> QED
    BY <1>1, <1>5, <2>1, <2>2 DEF Elements
<1> HIDE DEF e
<1>7. y # Empty /\ y.obj = e
  BY DEF Bound, Empty
<1> HIDE DEF y
<1>8. Value(heap, y) = Pure!Payload(heap[e].val)
  BY <1>4, <1>7 DEF Value
<1>9. /\ ValuesInv' /\ Denoted' = [Denoted EXCEPT ![g] = Value(heap, y)]
      /\ Denoted[g] = Value(heap, handles[g])
  BY <1>1, <1>2, PassedSlot
<1>10. Denoted[g] = Pure!None
  BY <1>1, <1>9, ValueForms
<1>11. Denoted' = [Denoted EXCEPT ![g] = Pure!Payload(Denoted[h].of[i])]
  BY <1>6, <1>8, <1>9
<1>12. Pure!Get(h, i, g)
  BY <1>5, <1>10, <1>11 DEF Pure!Get, Pure!IsArray, Denoted
<1> QED
  BY <1>6, <1>9, <1>12, PureSteps

\* Marking changes no value.
LEMMA MarkingIsPure ==
  ASSUME ValuesInv, NEW h \in Handles, UnbindMT(h)
  PROVE  ValuesInv' /\ PureStep
<1>1. Settled(heap, handles) /\ handles = [k \in Handles |-> handles[k]]
  BY DEF ValuesInv, Settled, Handed
<1>2. /\ Settled(heap', handles') /\ \A x \in Objects : Marks(heap[x], heap'[x])
      /\ handles' = [handles EXCEPT ![h] = Unbound(Obj(h))]
  BY <1>1, UnbindMTMarks
<1>3. \A x \in Objects : heap'[x].kind = heap[x].kind /\ heap'[x].val = heap[x].val
                         /\ heap'[x].kids = heap[x].kids
  BY <1>2 DEF Marks
<1>4. \A a \in Objects : \A i \in DOMAIN heap[a].kids : heap[a].kids[i] \in Objects
  BY <1>1, ElementsAreLive
<1>6. ASSUME NEW x, x # Empty => x.obj \in Objects PROVE Value(heap', x) = Value(heap, x)
  <2>1. CASE x = Empty
    BY <2>1 DEF Value
  <2>2. CASE x # Empty
    <3> DEFINE k == heap[x.obj].kids
    <3>1. Elements(heap', k) = Elements(heap, k)
      BY <1>3, <1>4, <1>6, <2>2 DEF Elements
    <3> HIDE DEF k
    <3> QED
      BY <1>3, <1>6, <2>2, <3>1 DEF Value, k
  <2> QED
    BY <2>1, <2>2
<1>7. ASSUME NEW g \in Handles PROVE Value(heap', handles'[g]) = Value(heap, handles[g])
  <2>1. handles'[g] # Empty => handles'[g].obj \in Objects
    BY <1>2, UsableHandles
  <2>2. Value(heap', handles'[g]) = Value(heap, handles'[g])
    BY <1>6, <2>1
  <2>3. CASE g = h
    <3>1. handles[h] # Empty
      BY DEF UnbindMT, IsEmpty
    <3>2. handles'[h] # Empty /\ handles'[h].obj = handles[h].obj
      BY <1>1, <1>2 DEF Unbound, Empty, Obj
    <3> QED
      BY <2>2, <2>3, <3>1, <3>2, ValueForms
  <2>4. CASE g # h
    BY <1>1, <1>2, <2>2, <2>4
  <2> QED
    BY <2>3, <2>4
<1>8. Denoted' = Denoted
  BY <1>1, <1>2, <1>7, DenotedValues
<1> QED
  BY <1>2, <1>8 DEF ValuesInv, PureStep

\* An operation on the object of handle h, or on one in its stead, that other handles cannot see
Alters(h, r) ==
  /\ r \in Objects /\ (heap[r].rc = 0 \/ (heap[r].rc = 1 /\ Obj(h) = r))
  /\ IdleBut({r}, heap, heap') /\ Settled(heap', handles')
  /\ \A g \in Handles \ {h} : handles'[g] \in {handles[g], Empty}

\* Only the value of handle h changes, but for slots that are emptied.
LEMMA AltersOne ==
  ASSUME ValuesInv, NEW h \in Handles, NEW r, Alters(h, r)
  PROVE  /\ ValuesInv' /\ Denoted'[h] = Value(heap', handles'[h])
         /\ DOMAIN Denoted = Handles /\ DOMAIN Denoted' = Handles
         /\ Denoted = [k \in Handles |-> Denoted[k]] /\ Denoted' = [k \in Handles |-> Denoted'[k]]
         /\ \A g \in Handles \ {h} :
              /\ handles'[g] = Empty => Denoted'[g] = Pure!None
              /\ handles'[g] # Empty => Denoted'[g] = Denoted[g]
<1>1. /\ Settled(heap, handles) /\ Settled(heap', handles')
      /\ r \in Objects /\ IdleBut({r}, heap, heap')
      /\ heap[r].rc = 0 \/ (heap[r].rc = 1 /\ Obj(h) = r)
  BY DEF ValuesInv, Alters
<1>5. /\ Denoted = [k \in Handles |-> Value(heap, handles[k])]
      /\ Denoted' = [k \in Handles |-> Value(heap', handles'[k])]
  BY <1>1, DenotedValues
<1>6. ASSUME NEW g \in Handles \ {h}, handles'[g] # Empty
      PROVE  Value(heap', handles'[g]) = Value(heap, handles[g])
  <2>1. handles'[g] = handles[g]
    BY <1>6 DEF Alters
  <2>2. ~Within(heap, handles[g], r)
    BY <1>1, Apart
  <2>3. handles'[g].obj \in Objects /\ heap'[handles'[g].obj].rc # 0
    BY <1>1, <1>6, UsableHandles
  <2>4. Value(heap', handles[g]) = Value(heap, handles[g])
    BY <1>1, <2>1, <2>2, <2>3, ValueStays
  <2> QED
    BY <2>1, <2>4
<1> QED
  BY <1>1, <1>5, <1>6, ValueForms DEF ValuesInv

\* A new object
LEMMA NewIsPure ==
  ASSUME ValuesInv, NEW h \in Handles, NEW t \in Threads, NewExternal(t, h) \/ NewArray(t, h)
  PROVE  ValuesInv' /\ PureStep
<1>1. PICK r \in FreshObjects, c \in {External(v) : v \in Payloads} \cup {Array(<<>>)} :
        handles[h] = Empty /\ Allocate(h, t, heap, r, c)
  BY DEF NewExternal, NewArray, IsEmpty
<1>2. /\ Settled(heap, handles) /\ r \in Objects /\ heap[r].kind = "fresh"
      /\ heap' = [heap EXCEPT ![r] = c] /\ handles' = [handles EXCEPT ![h] = Bound(t, r)]
  BY <1>1 DEF Allocate, Become, FreshObjects, ValuesInv
<1>3. IsCell(c) /\ c.rc = 1 /\ c.kids = <<>>
  BY NewCells
<1>4. Settled(heap', handles') /\ IdleBut({r}, heap, heap') /\ heap'[r] = c
  BY <1>1, <1>2, <1>3, AllocateSettles
<1>5. handles'[h] = Bound(t, r) /\ \A g \in Handles \ {h} : handles'[g] = handles[g]
  BY <1>2 DEF Settled, Handed
<1>6. Alters(h, r)
  <2>1. heap[r].rc = 0
    BY <1>2 DEF Settled, Exact, IsHeap, IsCell
  <2> QED
    BY <1>2, <1>4, <1>5, <2>1 DEF Alters
<1>7. /\ ValuesInv' /\ Denoted'[h] = Value(heap', Bound(t, r))
      /\ Denoted = [k \in Handles |-> Denoted[k]] /\ Denoted' = [k \in Handles |-> Denoted'[k]]
      /\ \A g \in Handles \ {h} :
           /\ handles'[g] = Empty => Denoted'[g] = Pure!None
           /\ handles'[g] # Empty => Denoted'[g] = Denoted[g]
  BY <1>5, <1>6, AltersOne
<1>8. \A g \in Handles : handles[g] = Empty => Denoted[g] = Pure!None
  BY <1>2, DenotedValues, ValueForms
<1>9. \A g \in Handles \ {h} : Denoted'[g] = Denoted[g]
  BY <1>5, <1>7, <1>8
<1>10. Value(heap', Bound(t, r)) \in {Pure!Array(<<>>)} \cup {Pure!Payload(p) : p \in Payloads}
  <2>1. Bound(t, r) # Empty /\ Bound(t, r).obj = r
    BY DEF Bound, Empty
  <2>2. CASE c = Array(<<>>)
    <3>1. c.kind = "array" /\ c.kids = <<>>
      BY <2>2 DEF Array
    <3>2. Elements(heap', <<>>) = <<>>
      BY DEF Elements
    <3> QED
      BY <1>4, <2>1, <3>1, <3>2 DEF Value
  <2>3. ASSUME NEW v \in Payloads, c = External(v)
        PROVE  Value(heap', Bound(t, r)) = Pure!Payload(v)
    <3>1. c.kind = "external" /\ c.val = v
      BY <2>3 DEF External
    <3> QED
      BY <1>4, <2>1, <3>1 DEF Value
  <2> QED
    BY <1>1, <2>2, <2>3
<1>11. Pure!New(h)
  <2>1. PICK v : /\ v \in {Pure!Array(<<>>)} \cup {Pure!Payload(p) : p \in Payloads}
                 /\ v = Value(heap', Bound(t, r))
    BY <1>10
  <2>2. Denoted' = [Denoted EXCEPT ![h] = v]
    BY <1>7, <1>9, <2>1
  <2>3. Denoted[h] = Pure!None
    BY <1>1, <1>8
  <2> QED
    BY <2>1, <2>2, <2>3 DEF Pure!New, Denoted
<1> QED
  BY <1>7, <1>11, PureSteps

\* A method writes the payload of the value it is given.
LEMMA WritesArePure ==
  ASSUME ValuesInv, NEW h \in Handles, MutMethod(h) \/ TryGetMut(h) \/ TryTakeInner(h)
  PROVE  ValuesInv' /\ PureStep
<1>0. Settled(heap, handles) /\ handles = [k \in Handles |-> handles[k]]
  BY DEF ValuesInv, Settled, Handed
<1>1. IsExternal(h) /\ heap[Obj(h)].val # Null
  BY DEF MutMethod, TryGetMut, TryTakeInner, HasValue, CellOf
<1>2. Obj(h) \in Objects /\ handles[h].form = "bound"
  BY <1>0, <1>1, GivenHandles
<1>3. Denoted[h] = Pure!Payload(heap[Obj(h)].val)
  BY <1>1, AccessDenotes
<1>4. ASSUME NEW r \in Objects, NEW p \in Payloads \cup {Null}, Writes(h, r, p, heap'),
             Settled(heap', handles'), heap[r].rc = 0 \/ (heap[r].rc = 1 /\ Obj(h) = r),
             handles'[h].form = "bound", handles'[h].obj = r,
             \A g \in Handles \ {h} : handles'[g] = handles[g]
      PROVE  ValuesInv' /\ PureStep
  <2>2. Alters(h, r)
    BY <1>4 DEF Alters, Writes
  <2>3. /\ ValuesInv' /\ Denoted'[h] = Value(heap', handles'[h])
        /\ Denoted = [k \in Handles |-> Denoted[k]] /\ Denoted' = [k \in Handles |-> Denoted'[k]]
        /\ \A g \in Handles \ {h} :
             /\ handles'[g] = Empty => Denoted'[g] = Pure!None
             /\ handles'[g] # Empty => Denoted'[g] = Denoted[g]
    BY <2>2, AltersOne
  <2>4. \A g \in Handles : handles[g] = Empty => Denoted[g] = Pure!None
    BY <1>0, DenotedValues, ValueForms
  <2>5. \A g \in Handles \ {h} : Denoted'[g] = Denoted[g]
    BY <1>4, <2>3, <2>4
  <2>6. Value(heap', handles'[h]) = Pure!Payload(p)
    <3>1. handles'[h] # Empty
      BY <1>4 DEF Empty
    <3> QED
      BY <1>4, <3>1 DEF Value, Writes
  <2>8. Denoted' = [Denoted EXCEPT ![h] = Pure!Payload(p)]
    BY <2>3, <2>5, <2>6
  <2>9. Denoted[h].sort = "payload" /\ Denoted[h] # Pure!Payload(Null)
    BY <1>1, <1>3 DEF Pure!Payload
  <2>10. Pure!Write(h)
    BY <2>8, <2>9 DEF Pure!Write, Pure!IsPayload, Denoted
  <2> QED
    BY <2>3, <2>10, PureSteps
<1>5. CASE MutMethod(h)
  <2>1. PICK v \in Payloads, r \in Targets(h) :
          /\ Become(IF r = Obj(h) THEN [heap EXCEPT ![r].val = v]
                    ELSE [Release(heap, Obj(h)) EXCEPT ![r] = External(v)], {})
          /\ handles' = [handles EXCEPT ![h].obj = r]
    BY <1>5 DEF MutMethod
  <2>2. heap' = (IF r = Obj(h) THEN [heap EXCEPT ![r].val = v]
                 ELSE [Release(heap, Obj(h)) EXCEPT ![r] = External(v)])
    BY <2>1 DEF Become
  <2>3. /\ Settled(heap', handles') /\ Writes(h, r, v, heap')
        /\ handles' = [handles EXCEPT ![h] = Bound(handles[h].thread, r)]
    BY <1>0, <1>1, <2>1, <2>2, MutWorks
  <2>4. r \in Objects /\ (heap[r].rc = 0 \/ (heap[r].rc = 1 /\ Obj(h) = r))
    BY <1>0, <1>2, TargetsAre
  <2>5. /\ handles'[h].form = "bound" /\ handles'[h].obj = r
        /\ \A g \in Handles \ {h} : handles'[g] = handles[g]
    BY <1>0, <2>3 DEF Bound
  <2> QED
    BY <1>4, <2>3, <2>4, <2>5
<1>6. CASE TryGetMut(h) \/ TryTakeInner(h)
  <2>1. /\ IsExclusive(CellOf(h)) /\ handles' = handles
        /\ \E v \in Payloads \cup {Null} : heap' = [heap EXCEPT ![Obj(h)].val = v]
    BY <1>6 DEF TryGetMut, TryTakeInner, Become
  <2>2. PICK v \in Payloads \cup {Null} : heap' = [heap EXCEPT ![Obj(h)].val = v]
    BY <2>1
  <2>3. Settled(heap', handles') /\ Writes(h, Obj(h), v, heap')
    BY <1>0, <1>1, <2>1, <2>2, WriteInPlace
  <2>4. heap[Obj(h)].rc = 1
    BY <2>1 DEF IsExclusive, CellOf
  <2> QED
    BY <1>2, <1>4, <2>1, <2>3, <2>4 DEF Obj
<1> QED
  BY <1>5, <1>6

\* The array of h, or its copy, has the elements s.
LEMMA RenewsValues ==
  ASSUME ValuesInv, NEW h \in Handles, IsArray(h), NEW r \in Targets(h), NEW s,
         Settled(heap', handles'), Renews(h, r, s, heap'),
         handles'[h] = Bound(handles[h].thread, r),
         \A g \in Handles \ {h} : handles'[g] \in {handles[g], Empty}
  PROVE  /\ ValuesInv' /\ Denoted'[h] = Pure!Array(Elements(heap, s))
         /\ DOMAIN Denoted = Handles /\ DOMAIN Denoted' = Handles
         /\ Denoted = [k \in Handles |-> Denoted[k]] /\ Denoted' = [k \in Handles |-> Denoted'[k]]
         /\ \A g \in Handles \ {h} :
              /\ handles'[g] = Empty => Denoted'[g] = Pure!None
              /\ handles'[g] # Empty => Denoted'[g] = Denoted[g]
<1>1. /\ Settled(heap, handles) /\ r \in Objects /\ IdleBut({r}, heap, heap')
      /\ heap'[r].kind = "array" /\ heap'[r].kids = s
  BY DEF ValuesInv, Renews
<1>2. heap[r].rc = 0 \/ (heap[r].rc = 1 /\ Obj(h) = r)
  <2>1. Obj(h) \in Objects
    BY AccessDenotes
  <2> QED
    BY <1>1, <2>1, TargetsAre
<1>3. ASSUME NEW i \in DOMAIN s PROVE heap'[s[i]].val = heap[s[i]].val
  <2>1. s[i] \in Objects /\ heap'[s[i]].kind = "external" /\ heap'[s[i]].rc # 0
    BY <1>1, ElementsAreLive
  <2>2. s[i] # r
    BY <1>1, <2>1
  <2> QED
    BY <1>1, <2>1, <2>2 DEF IdleBut, Loses, Freed
<1>4. Alters(h, r)
  BY <1>1, <1>2 DEF Alters
<1>5. Elements(heap', s) = Elements(heap, s)
  BY <1>3 DEF Elements
<1>6. Value(heap', handles'[h]) = Pure!Array(Elements(heap, s))
  <2>1. handles'[h] # Empty /\ handles'[h].obj = r
    BY DEF Bound, Empty
  <2> QED
    BY <1>1, <1>5, <2>1 DEF Value
<1> QED
  BY <1>4, <1>6, AltersOne

\* push
LEMMA PushIsPure ==
  ASSUME ValuesInv, NEW h \in Handles, NEW g \in Handles \ {h}, ArrayPush(h, g)
  PROVE  ValuesInv' /\ PureStep
<1> DEFINE k == CellOf(h).kids
           e == Obj(g)
           s == Append(k, e)
<1>0. /\ Settled(heap, handles) /\ handles = [f \in Handles |-> handles[f]]
      /\ IsArray(h) /\ IsExternal(g) /\ Len(k) < MaxLen
  BY DEF ValuesInv, Settled, Handed, ArrayPush
<1>1. PICK r \in Targets(h) :
        Become(Updated(h, r, s), {}) /\ handles' = [handles EXCEPT ![h].obj = r, ![g] = Empty]
  BY DEF ArrayPush
<1>2. heap' = Updated(h, r, s)
  BY <1>1 DEF Become
<1>3. Settled(heap', handles') /\ Renews(h, r, s, heap')
  BY <1>0, <1>1, <1>2, PushWorks
<1>4. [handles[h] EXCEPT !.obj = r] = Bound(handles[h].thread, r)
  BY <1>0, ArrayHandles
<1>5. handles'[h] = Bound(handles[h].thread, r) /\ handles'[g] = Empty
      /\ \A f \in Handles \ {h, g} : handles'[f] = handles[f]
  BY <1>0, <1>1, <1>4
<1>6. /\ Denoted[h] = Pure!Array(Elements(heap, k)) /\ k \in Seq(Objects)
      /\ \A i \in DOMAIN k : heap[k[i]].val \in Contents
  BY <1>0, AccessDenotes
<1>7. Denoted[g] = Pure!Payload(heap[e].val) /\ e \in Objects /\ heap[e].val \in Contents
  BY <1>0, AccessDenotes
<1>8. Elements(heap, s) = Elements(heap, k) \o <<heap[e].val>>
  BY <1>6, <1>7, ElementsAppend
<1> HIDE DEF k, e, s
<1>10. /\ ValuesInv' /\ Denoted'[h] = Pure!Array(Elements(heap, s))
       /\ Denoted = [f \in Handles |-> Denoted[f]] /\ Denoted' = [f \in Handles |-> Denoted'[f]]
       /\ \A f \in Handles \ {h} :
            /\ handles'[f] = Empty => Denoted'[f] = Pure!None
            /\ handles'[f] # Empty => Denoted'[f] = Denoted[f]
  BY <1>0, <1>3, <1>5, RenewsValues
<1>11. \A f \in Handles : handles[f] = Empty => Denoted[f] = Pure!None
  BY <1>0, DenotedValues, ValueForms
<1>12. Denoted'[g] = Pure!None /\ \A f \in Handles \ {h, g} : Denoted'[f] = Denoted[f]
  BY <1>5, <1>10, <1>11
<1>13. /\ Denoted[h].sort = "array" /\ Denoted[h].of = Elements(heap, k)
       /\ Denoted[g].sort = "payload" /\ Denoted[g].of = <<heap[e].val>>
  BY <1>6, <1>7 DEF Pure!Array, Pure!Payload
<1>14. Denoted'[h] = Pure!Array(Denoted[h].of \o Denoted[g].of)
  BY <1>8, <1>10, <1>13
<1>15. Denoted' = [Denoted EXCEPT ![h] = Pure!Array(Denoted[h].of \o Denoted[g].of), ![g] = Pure!None]
  BY <1>10, <1>12, <1>14
<1>16. Pure!Push(h, g)
  BY <1>13, <1>15 DEF Pure!Push, Pure!IsArray, Pure!IsPayload, Denoted
<1> QED
  BY <1>10, <1>16, PureSteps

\* set
LEMMA SetIsPure ==
  ASSUME ValuesInv, NEW h \in Handles, NEW g \in Handles \ {h}, NEW i, ArraySet(h, i, g)
  PROVE  ValuesInv' /\ PureStep
<1> DEFINE k == CellOf(h).kids
           e == Obj(g)
           s == [k EXCEPT ![i] = e]
<1>0. /\ Settled(heap, handles) /\ handles = [f \in Handles |-> handles[f]]
      /\ IsArray(h) /\ IsExternal(g) /\ i \in DOMAIN k
  BY DEF ValuesInv, Settled, Handed, ArraySet
<1>1. PICK r \in Targets(h) :
        /\ Become(Release(Updated(h, r, s), k[i]), {})
        /\ handles' = [handles EXCEPT ![h].obj = r, ![g] = Empty]
  BY DEF ArraySet
<1>2. heap' = Release(Updated(h, r, s), k[i])
  BY <1>1 DEF Become
<1>3. Settled(heap', handles') /\ Renews(h, r, s, heap')
  BY <1>0, <1>1, <1>2, SetWorks
<1>4. [handles[h] EXCEPT !.obj = r] = Bound(handles[h].thread, r)
  BY <1>0, ArrayHandles
<1>5. handles'[h] = Bound(handles[h].thread, r) /\ handles'[g] = Empty
      /\ \A f \in Handles \ {h, g} : handles'[f] = handles[f]
  BY <1>0, <1>1, <1>4
<1>6. /\ Denoted[h] = Pure!Array(Elements(heap, k)) /\ k \in Seq(Objects)
      /\ \A j \in DOMAIN k : heap[k[j]].val \in Contents
  BY <1>0, AccessDenotes
<1>7. Denoted[g] = Pure!Payload(heap[e].val) /\ e \in Objects /\ heap[e].val \in Contents
  BY <1>0, AccessDenotes
<1>8. Elements(heap, s) = [Elements(heap, k) EXCEPT ![i] = heap[e].val]
  BY <1>0, <1>6, ElementsUpdate
<1>10. i \in 1 .. Len(Elements(heap, k))
  <2>1. Len(Elements(heap, k)) = Len(k)
    BY <1>6, ElementsType
  <2>2. DOMAIN k = 1 .. Len(k)
    BY <1>6, SequenceIsFinite
  <2> QED
    BY <1>0, <2>1, <2>2
<1> HIDE DEF k, e, s
<1>11. /\ ValuesInv' /\ Denoted'[h] = Pure!Array(Elements(heap, s))
       /\ Denoted = [f \in Handles |-> Denoted[f]] /\ Denoted' = [f \in Handles |-> Denoted'[f]]
       /\ \A f \in Handles \ {h} :
            /\ handles'[f] = Empty => Denoted'[f] = Pure!None
            /\ handles'[f] # Empty => Denoted'[f] = Denoted[f]
  BY <1>0, <1>3, <1>5, RenewsValues
<1>12. \A f \in Handles : handles[f] = Empty => Denoted[f] = Pure!None
  BY <1>0, DenotedValues, ValueForms
<1>13. Denoted'[g] = Pure!None /\ \A f \in Handles \ {h, g} : Denoted'[f] = Denoted[f]
  BY <1>5, <1>11, <1>12
<1>14. /\ Denoted[h].sort = "array" /\ Denoted[h].of = Elements(heap, k)
       /\ Denoted[g].sort = "payload" /\ Denoted[g].of[1] = heap[e].val
  BY <1>6, <1>7 DEF Pure!Array, Pure!Payload
<1>15. Denoted'[h] = Pure!Array([Denoted[h].of EXCEPT ![i] = Denoted[g].of[1]])
  BY <1>8, <1>11, <1>14
<1>16. Denoted' = [Denoted EXCEPT ![h] = Pure!Array([Denoted[h].of EXCEPT ![i] = Denoted[g].of[1]]),
                                  ![g] = Pure!None]
  BY <1>11, <1>13, <1>15
<1>17. Pure!Replace(h, i, g)
  BY <1>14, <1>16 DEF Pure!Replace, Pure!IsArray, Pure!IsPayload, Denoted
<1> QED
  BY <1>10, <1>11, <1>14, <1>17, PureSteps

\* pop
LEMMA PopIsPure ==
  ASSUME ValuesInv, NEW h \in Handles, ArrayPop(h)
  PROVE  ValuesInv' /\ PureStep
<1> DEFINE k == CellOf(h).kids
           n == Len(k)
           s == SubSeq(k, 1, n - 1)
<1>0. /\ Settled(heap, handles) /\ handles = [f \in Handles |-> handles[f]]
      /\ IsArray(h) /\ k # <<>>
  BY DEF ValuesInv, Settled, Handed, ArrayPop
<1>1. PICK r \in Targets(h) :
        Become(Release(Updated(h, r, s), k[n]), {}) /\ handles' = [handles EXCEPT ![h].obj = r]
  BY DEF ArrayPop
<1>2. heap' = Release(Updated(h, r, s), k[n])
  BY <1>1 DEF Become
<1>3. /\ Settled(heap', handles') /\ Renews(h, r, s, heap')
      /\ handles' = [handles EXCEPT ![h] = Bound(handles[h].thread, r)]
  BY <1>0, <1>1, <1>2, PopWorks
<1>4. handles'[h] = Bound(handles[h].thread, r) /\ \A f \in Handles \ {h} : handles'[f] = handles[f]
  BY <1>0, <1>3
<1>5. /\ Denoted[h] = Pure!Array(Elements(heap, k)) /\ k \in Seq(Objects)
      /\ \A i \in DOMAIN k : heap[k[i]].val \in Contents
  BY <1>0, AccessDenotes
<1>6. Elements(heap, s) = SubSeq(Elements(heap, k), 1, Len(Elements(heap, k)) - 1)
  BY <1>0, <1>5, ElementsShorten
<1>8. Elements(heap, k) # <<>>
  <2>1. Len(Elements(heap, k)) = Len(k) /\ Elements(heap, k) \in Seq(Contents)
    BY <1>5, ElementsType
  <2>2. Len(k) \in Nat \ {0}
    BY <1>0, <1>5, EmptySeq
  <2> QED
    BY <2>1, <2>2
<1> HIDE DEF k, n, s
<1>9. /\ ValuesInv' /\ Denoted'[h] = Pure!Array(Elements(heap, s))
      /\ Denoted = [f \in Handles |-> Denoted[f]] /\ Denoted' = [f \in Handles |-> Denoted'[f]]
      /\ \A f \in Handles \ {h} :
           /\ handles'[f] = Empty => Denoted'[f] = Pure!None
           /\ handles'[f] # Empty => Denoted'[f] = Denoted[f]
  BY <1>0, <1>3, <1>4, RenewsValues
<1>10. \A f \in Handles : handles[f] = Empty => Denoted[f] = Pure!None
  BY <1>0, DenotedValues, ValueForms
<1>11. \A f \in Handles \ {h} : Denoted'[f] = Denoted[f]
  BY <1>4, <1>9, <1>10
<1>12. Denoted[h].sort = "array" /\ Denoted[h].of = Elements(heap, k)
  BY <1>5 DEF Pure!Array
<1>13. Denoted'[h] = Pure!Array(SubSeq(Denoted[h].of, 1, Len(Denoted[h].of) - 1))
  BY <1>6, <1>9, <1>12
<1>14. Denoted' = [Denoted EXCEPT ![h] = Pure!Array(SubSeq(Denoted[h].of, 1, Len(Denoted[h].of) - 1))]
  BY <1>9, <1>11, <1>13
<1>15. Pure!Pop(h)
  BY <1>8, <1>12, <1>14 DEF Pure!Pop, Pure!IsArray, Denoted
<1> QED
  BY <1>9, <1>15, PureSteps

\* swap
LEMMA SwapIsPure ==
  ASSUME ValuesInv, NEW h \in Handles, NEW i, NEW j, ArraySwap(h, i, j)
  PROVE  ValuesInv' /\ PureStep
<1> DEFINE k == CellOf(h).kids
           s == [k EXCEPT ![i] = k[j], ![j] = k[i]]
<1>0. /\ Settled(heap, handles) /\ handles = [f \in Handles |-> handles[f]]
      /\ IsArray(h) /\ i \in DOMAIN k /\ j \in DOMAIN k /\ i # j
  BY DEF ValuesInv, Settled, Handed, ArraySwap
<1>1. PICK r \in Targets(h) :
        Become(Updated(h, r, s), {}) /\ handles' = [handles EXCEPT ![h].obj = r]
  BY DEF ArraySwap
<1>2. heap' = Updated(h, r, s)
  BY <1>1 DEF Become
<1>3. /\ Settled(heap', handles') /\ Renews(h, r, s, heap')
      /\ handles' = [handles EXCEPT ![h] = Bound(handles[h].thread, r)]
  BY <1>0, <1>1, <1>2, SwapWorks
<1>4. handles'[h] = Bound(handles[h].thread, r) /\ \A f \in Handles \ {h} : handles'[f] = handles[f]
  BY <1>0, <1>3
<1>5. /\ Denoted[h] = Pure!Array(Elements(heap, k)) /\ k \in Seq(Objects)
      /\ \A m \in DOMAIN k : heap[k[m]].val \in Contents
  BY <1>0, AccessDenotes
<1> HIDE DEF k
<1>6. Elements(heap, s)
        = [Elements(heap, k) EXCEPT ![i] = Elements(heap, k)[j], ![j] = Elements(heap, k)[i]]
  BY <1>0, <1>5, ElementsUpdate
<1>8. i \in 1 .. Len(Elements(heap, k)) /\ j \in 1 .. Len(Elements(heap, k))
  <2>1. Len(Elements(heap, k)) = Len(k)
    BY <1>5, ElementsType
  <2>2. DOMAIN k = 1 .. Len(k)
    BY <1>5, SequenceIsFinite
  <2> QED
    BY <1>0, <2>1, <2>2
<1> HIDE DEF s
<1>9. /\ ValuesInv' /\ Denoted'[h] = Pure!Array(Elements(heap, s))
      /\ Denoted = [f \in Handles |-> Denoted[f]] /\ Denoted' = [f \in Handles |-> Denoted'[f]]
      /\ \A f \in Handles \ {h} :
           /\ handles'[f] = Empty => Denoted'[f] = Pure!None
           /\ handles'[f] # Empty => Denoted'[f] = Denoted[f]
  BY <1>0, <1>3, <1>4, RenewsValues
<1>10. \A f \in Handles : handles[f] = Empty => Denoted[f] = Pure!None
  BY <1>0, DenotedValues, ValueForms
<1>11. \A f \in Handles \ {h} : Denoted'[f] = Denoted[f]
  BY <1>4, <1>9, <1>10
<1>12. Denoted[h].sort = "array" /\ Denoted[h].of = Elements(heap, k)
  BY <1>5 DEF Pure!Array
<1> DEFINE v == Pure!Array([Denoted[h].of EXCEPT ![i] = Denoted[h].of[j], ![j] = Denoted[h].of[i]])
<1>13. Denoted'[h] = v
  BY <1>6, <1>9, <1>12
<1>14. Denoted' = [Denoted EXCEPT ![h] = v]
  BY <1>9, <1>11, <1>13
<1>15. Pure!Swap(h, i, j)
  BY <1>12, <1>14 DEF Pure!Swap, Pure!IsArray, Denoted
<1> QED
  BY <1>8, <1>9, <1>12, <1>15, PureSteps

\* The handles that change their form only
LEMMA HandlesArePure ==
  ASSUME ValuesInv, NEW h \in Handles,
         \/ Unbind(h) \/ \E t \in Threads : FromUnbound(t, h) \/ SendRef(t, h)
         \/ \E g \in Handles \ {h} : Clone(h, g) \/ \E t \in Threads : Bind(t, h, g)
  PROVE  ValuesInv' /\ PureStep
<1>0. Settled(heap, handles)
  BY DEF ValuesInv
<1>1. handles[h] # Empty
  BY DEF Unbind, FromUnbound, SendRef, Clone, Bind, IsEmpty
<1>2. IsHandle(handles[h]) /\ Obj(h) \in Objects
  BY <1>0, <1>1, UsableHandles DEF Settled, Handed, Obj
<1>3. CASE Unbind(h)
  <2>1. Passed
    BY <1>0, <1>3, UnbindPasses
  <2>2. handles[h] = Bound(handles[h].thread, handles[h].obj)
    BY <1>1, <1>2, <1>3, HandleForms DEF Unbind
  <2>3. PICK y : y = [handles[h] EXCEPT !.form = "ref"]
    OBVIOUS
  <2>4. y.obj = Obj(h) /\ y # Empty
    BY <2>2, <2>3 DEF Bound, Empty, Obj
  <2>5. handles' = [handles EXCEPT ![h] = y]
    BY <1>3, <2>3 DEF Unbind
  <2> QED
    BY <1>1, <2>1, <2>4, <2>5, FormsArePure
<1>4. ASSUME NEW t \in Threads, FromUnbound(t, h) PROVE ValuesInv' /\ PureStep
  <2>1. Passed
    BY <1>0, <1>4, FromUnboundPasses
  <2>2. PICK y \in {Bound(t, Obj(h)), Ref(t, Obj(h))} : handles' = [handles EXCEPT ![h] = y]
    BY <1>4 DEF FromUnbound
  <2>3. y.obj = Obj(h) /\ y # Empty
    BY DEF Bound, Ref, Empty
  <2> QED
    BY <1>1, <2>1, <2>2, <2>3, FormsArePure
<1>5. ASSUME NEW t \in Threads, SendRef(t, h) PROVE ValuesInv' /\ PureStep
  <2>1. Passed
    BY <1>0, <1>5, SendRefPasses
  <2>2. handles[h] = Ref(handles[h].thread, handles[h].obj)
    BY <1>1, <1>2, <1>5, HandleForms DEF SendRef
  <2>3. PICK y : y = [handles[h] EXCEPT !.thread = t]
    OBVIOUS
  <2>4. y.obj = Obj(h) /\ y # Empty
    BY <2>2, <2>3 DEF Ref, Empty, Obj
  <2>5. handles' = [handles EXCEPT ![h] = y]
    BY <1>5, <2>3 DEF SendRef
  <2> QED
    BY <1>1, <2>1, <2>4, <2>5, FormsArePure
<1>6. ASSUME NEW g \in Handles \ {h}, Clone(h, g) PROVE ValuesInv' /\ PureStep
  <2>1. Passed
    BY <1>0, <1>6, ClonePasses
  <2>2. handles' = [handles EXCEPT ![g] = handles[h]] /\ handles[g] = Empty
    BY <1>6 DEF Clone, IsEmpty
  <2>3. PICK y : y = handles[h]
    OBVIOUS
  <2>4. y.obj = Obj(h) /\ y # Empty /\ handles' = [handles EXCEPT ![g] = y]
    BY <1>1, <2>2, <2>3 DEF Obj
  <2> QED
    BY <1>1, <2>1, <2>2, <2>4, CopiesArePure
<1>7. ASSUME NEW g \in Handles \ {h}, NEW t \in Threads, Bind(t, h, g) PROVE ValuesInv' /\ PureStep
  <2>1. Passed
    BY <1>0, <1>7, BindPasses
  <2>2. PICK y : y = Bound(t, Obj(h))
    OBVIOUS
  <2>3. /\ handles' = [handles EXCEPT ![g] = y] /\ handles[g] = Empty
        /\ y.obj = Obj(h) /\ y # Empty
    BY <1>7, <2>2 DEF Bind, IsEmpty, Bound, Empty
  <2> QED
    BY <1>1, <2>1, <2>3, CopiesArePure
<1> QED
  BY <1>3, <1>4, <1>5, <1>6, <1>7

\* Every step is a step on values, or changes none.
LEMMA StepsArePure ==
  ASSUME ValuesInv, [Next]_vars
  PROVE  ValuesInv' /\ PureStep
<1>1. CASE UNCHANGED vars
  <2>1. ValuesInv'
    BY <1>1 DEF ValuesInv, vars
  <2>2. Denoted' = Denoted
    BY <1>1, <2>1, DenotedValues DEF ValuesInv, vars
  <2> QED
    BY <2>1, <2>2 DEF PureStep
<1>2. CASE Next
  <2>1. PICK h \in Handles :
          \/ Unbind(h) \/ UnbindMT(h) \/ Drop(h)
          \/ \E i, j \in 1..MaxLen : ArraySwap(h, i, j)
          \/ ArrayPop(h) \/ MutMethod(h) \/ OwnedMethod(h) \/ TryGetMut(h) \/ TryTakeInner(h)
          \/ \E t \in Threads : NewExternal(t, h) \/ NewArray(t, h) \/ FromUnbound(t, h) \/ SendRef(t, h)
          \/ \E g \in Handles \ {h} :
               \/ Clone(h, g) \/ ArrayPush(h, g) \/ ArraySetFails(h, g)
               \/ \E t \in Threads : Bind(t, h, g)
               \/ \E i \in 1..MaxLen : ArrayGet(h, i, g) \/ ArraySet(h, i, g)
    BY <1>2 DEF Next
  <2>2. CASE \/ Unbind(h) \/ \E t \in Threads : FromUnbound(t, h) \/ SendRef(t, h)
             \/ \E g \in Handles \ {h} : Clone(h, g) \/ \E t \in Threads : Bind(t, h, g)
    BY <2>2, HandlesArePure
  <2>3. CASE UnbindMT(h)
    BY <2>3, MarkingIsPure
  <2>4. CASE Drop(h) \/ OwnedMethod(h)
    BY <2>4, DropsArePure
  <2>5. CASE ArrayPop(h)
    BY <2>5, PopIsPure
  <2>6. CASE \E i, j \in 1..MaxLen : ArraySwap(h, i, j)
    BY <2>6, SwapIsPure
  <2>7. CASE MutMethod(h) \/ TryGetMut(h) \/ TryTakeInner(h)
    BY <2>7, WritesArePure
  <2>8. CASE \E t \in Threads : NewExternal(t, h) \/ NewArray(t, h)
    BY <2>8, NewIsPure
  <2>9. CASE \E g \in Handles \ {h} : ArrayPush(h, g)
    BY <2>9, PushIsPure
  <2>10. CASE \E g \in Handles \ {h} : ArraySetFails(h, g)
    BY <2>10, FailureIsPure
  <2>11. CASE \E g \in Handles \ {h}, i \in 1..MaxLen : ArrayGet(h, i, g)
    BY <2>11, GetIsPure
  <2>12. CASE \E g \in Handles \ {h}, i \in 1..MaxLen : ArraySet(h, i, g)
    BY <2>12, SetIsPure
  <2> QED
    BY <2>1, <2>2, <2>3, <2>4, <2>5, <2>6, <2>7, <2>8, <2>9, <2>10, <2>11, <2>12
<1> QED
  BY <1>1, <1>2

\* At first no slot names a value.
LEMMA PureInitially == Init => ValuesInv /\ Pure!PureInit
<1> SUFFICES ASSUME Init PROVE ValuesInv /\ Pure!PureInit
  OBVIOUS
<1>1. Settled(heap, handles)
  BY CountInvInitially DEF CountInv
<1>3. Denoted = [h \in Handles |-> Pure!None]
  <2>1. \A h \in Handles : handles[h] = Empty
    BY DEF Init
  <2> QED
    BY <1>1, <2>1, DenotedValues, ValueForms
<1>4. Pure!PureInit
  BY <1>3 DEF Pure!PureInit, Denoted
<1> QED
  BY <1>1, <1>4 DEF ValuesInv

\* Handles name values: no operation through one handle is ever seen through another, although
\* handles of all threads share objects, and arrays elements, and an object that is held once is
\* updated in place (copy-on-write: src/leo3/src/types/array.rs, src/leo3/src/external.rs).
THEOREM ObjectsAreValues == Spec => ImplementsPureValues
<1>1. Init => ValuesInv /\ Pure!PureInit
  BY PureInitially
<1>2. ValuesInv /\ [Next]_vars => ValuesInv' /\ [Pure!PureNext]_Denoted
  BY StepsArePure DEF PureStep
<1> QED
  BY <1>1, <1>2, PTL DEF Spec, ImplementsPureValues, Pure!PureSpec, Denoted

=============================================================================
