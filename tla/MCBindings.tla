----------------------------- MODULE MCBindings -----------------------------
(* Wrappers and Bindings for TLC, side by side: a behaviour is a call of an   *)
(* exported function, or the way of two libraries to their declarations.      *)
EXTENDS Wrappers, Bindings

U8 == <<"u8">>
Str == <<"ref", <<"str">>>>
Unit == <<"tuple">>

Scalar == {U8, <<"char">>, <<"u64">>}
Simple == Scalar \cup {<<"String">>, <<"Vec", U8>>}
Borrowed ==
  {Str, <<"ref", <<"slice", U8>>>>, <<"ref", <<"String">>>>, <<"ref", <<"Vec", U8>>>>, <<"ref", <<"Vec", <<"u64">>>>>>,
   <<"ref", <<"slice", <<"u64">>>>>>, <<"ref", <<"array", <<"u64">>>>>>}

Containers(S) ==
  {<<"Vec", t>> : t \in S} \cup {<<"Option", t>> : t \in S} \cup {<<"array", t>> : t \in S}
Pairs(S, T) == {<<"Result", a, b>> : a \in S, b \in T} \cup {<<"tuple", a, b>> : a \in S, b \in T}

OneLevel == Containers(Simple) \cup Pairs(Simple, Simple)
TwoLevels == Containers(OneLevel) \cup Pairs(OneLevel, {<<"String">>}) \cup Pairs({<<"String">>}, OneLevel)
OfBorrowed ==
  {<<"Option", t>> : t \in Borrowed} \cup Pairs(Borrowed, Borrowed)
    \cup {<<"Option", <<"Result", t, <<"ref", <<"String">>>>>>>> : t \in Borrowed}
Triples == {<<"tuple", a, b, c>> : a \in Simple, b \in {<<"u64">>, <<"Vec", U8>>}, c \in Simple}

Function(params, ret) == [params |-> params, ret |-> ret, class |-> NoClass, receiver |-> "none"]
Method(params, ret, receiver) == [params |-> params, ret |-> ret, class |-> "Point", receiver |-> receiver]

SomeSignatures ==
  {Function(<<t>>, t) : t \in Simple \cup OneLevel \cup TwoLevels \cup Triples}
    \cup {Function(<<t>>, Unit) : t \in Borrowed \cup OfBorrowed}
    \cup {Function(<<a, b>>, c) : a \in {U8, <<"char">>, <<"String">>, Str}, b \in Borrowed, c \in {Unit, <<"u64">>}}
    \cup {Method(<<a>>, b, r) : a \in Simple \cup OneLevel, b \in {Unit, <<"Self">>, <<"u64">>, <<"Vec", U8>>, <<"tuple", U8, <<"String">>>>},
                              r \in {"none", "ref", "mut", "owned"}}
    \cup {Method(<<a, b>>, <<"u64">>, r) : a \in Simple, b \in {<<"String">>}, r \in {"ref", "mut", "owned"}}
    \cup {Method(params, <<"bool">>, "instance") : params \in {<<>>, << <<"Self">> >>}}

-----------------------------------------------------------------------------
Fn(rust, lean, generics, concretes) ==
  [kind |-> "fn", rust |-> rust, lean |-> lean, generics |-> generics, concretes |-> concretes]
Instance(name, types) == [name |-> name, types |-> types]
Mod(rust, lean, exports, items) == [kind |-> "mod", rust |-> rust, lean |-> lean, exports |-> exports, items |-> items]
Struct(rust, lean, accessors) == [kind |-> "struct", rust |-> rust, lean |-> lean, accessors |-> accessors]
Field(field, getter, setter) == [field |-> field, getter |-> getter, setter |-> setter]
Impl(rust, lean, methods) == [kind |-> "impl", rust |-> rust, lean |-> lean, methods |-> methods]
Fun(rust, lean, receiver, params, unit, self, accessor) ==
  [rust |-> rust, lean |-> lean, receiver |-> receiver, params |-> params, unit |-> unit, self |-> self, accessor |-> accessor]

Add == Fn("add", NoName, 0, <<>>)
Sub == Fn("sub", "minus", 0, <<>>)
Id == Fn("id", NoName, 1, <<Instance("idNat", 1), Instance("idStr", 1)>>)
BadId == Fn("bad", NoName, 1, <<Instance("badNat", 2)>>)

Create == Fun("create", NoName, "none", 1, FALSE, TRUE, "none")
Move == Fun("shift", "move", "mut", 1, TRUE, FALSE, "none")
GetY == Fun("y", NoName, "ref", 0, FALSE, FALSE, "getter")
BadSet == Fun("put", NoName, "ref", 1, TRUE, FALSE, "setter")

SomeItems ==
  {Add, BadId,
   Mod("geo", NoName, NoName, <<Add, Id, Mod("inner", NoName, NoName, <<Sub, Mod("deep", NoName, NoName, <<Fn("f", NoName, 0, <<>>)>>)>>)>>),
   Mod("api", <<"A", "B">>, <<"minus">>, <<Fn("hidden", NoName, 0, <<>>), Fn("sub", "minus", 0, <<>>)>>),
   Mod("Point", NoName, <<"less", "l">>, <<Fn("l", "less", 0, <<>>)>>),
   Mod("poor", NoName, <<"nothing">>, <<Add>>),
   Struct("Point", NoName, <<Field("x", TRUE, TRUE), Field("y", TRUE, FALSE)>>),
   Impl("Point", NoName, <<Create, Move>>),
   Impl("Point", "Pt", <<Create, GetY>>),
   Impl("Line", NoName, <<GetY, Create>>),
   Impl("Line", NoName, <<BadSet>>)}

NoLibrary ==
  /\ phase = "idle" /\ program = <<>> /\ records = {} /\ section = <<>> /\ symbols = <<>> /\ found = <<>>
  /\ classes = <<>> /\ files = <<>> /\ libraries = <<>>
NoCall == sig = Function(<<>>, Unit) /\ at = "idle" /\ next = 0 /\ refs = <<>> /\ kept = {} /\ outcome = "none"

CallsAndLibrariesInit == (WrappersInit /\ NoLibrary) \/ (BindingInit /\ NoCall)

CallsAndLibrariesNext ==
  \/ CallsNext /\ UNCHANGED bindingVars
  \/ BindingNext /\ UNCHANGED callVars

CallsAndLibraries == CallsAndLibrariesInit /\ [][CallsAndLibrariesNext]_<<callVars, bindingVars>>
=============================================================================
