------------------------------- MODULE Layouts -------------------------------
(***************************************************************************)
(* The Lean structures that leo3 builds field by field: the contexts and   *)
(* states of CoreM and MetaM (leo3/src/meta/context.rs, metam.rs), those of *)
(* the elaborators (leo3/src/meta/repl.rs) and the empty collections in    *)
(* them (leo3-ffi/src/meta.rs), over the writes of                         *)
(* leo3-ffi/src/inline/object.rs, which check nothing in a release build.  *)
(*                                                                         *)
(* One program is compiled for one Lean version.  Its objects are memory:  *)
(* a size and the writes made to it.                                       *)
(***************************************************************************)
EXTENDS Naturals, Sequences

LOCAL INSTANCE SequencesExt

CONSTANTS
  Versions,  \* minor versions of Lean 4
  Exports,   \* sets of default instances a Lean library may export
  EnvReplacedOn, \* versions on which the program calls replace_env
  Word,      \* size of a pointer
  Header     \* size of the header of an object

ASSUME LayoutsAssumption == Versions \subseteq Nat /\ Word \in Nat \ {0} /\ Header \in Nat

VARIABLES
  minor,     \* the version leo3 was compiled for, and runs with
  exported,  \* what that Lean library exports
  forced,    \* LEO3_FORCE_MANUAL_META_DEFAULTS
  frames,    \* the objects under construction, each in a field of the one before
  built,     \* the finished objects that the session holds, by structure
  made,      \* the object finished last
  read       \* the field that was read last: the one wanted and the one found

layoutVars == <<minor, exported, forced, frames, built, made, read>>

since(n) == minor >= n

-----------------------------------------------------------------------------
(* Values and writes *)

Num(n) == [is |-> "scalar", what |-> n]
Object(type) == [is |-> "object", what |-> type]
Bytes(n) == [is |-> "bytes", what |-> n]
Inner(type) == [is |-> "call", what |-> type]      \* what a constructor of that type returns
Static(type) == [is |-> "static", what |-> type]  \* what the accessor of the default instance returns
Unset == [is |-> "unset", what |-> 0]

ctor_scalar_offset(objs, off) == objs * Word + off
Set(i, v) == [at |-> i * Word, size |-> Word, value |-> v]
Byte(objs, off, b) == [at |-> ctor_scalar_offset(objs, off), size |-> 1, value |-> Bytes(b)]
UInt64(at, n) == [at |-> at, size |-> 8, value |-> Bytes(n)]
lean_ctor_scalar(objs, bytes) == [k \in DOMAIN bytes |-> Byte(objs, k - 1, bytes[k])]
Sets(first, values) == [k \in DOMAIN values |-> Set(first + k - 1, values[k])]
Same(n, v) == [k \in 1..n |-> v]

lean_alloc_ctor(objs, bytes) == Header + objs * Word + bytes
Program(objs, bytes, writes) == [size |-> lean_alloc_ctor(objs, bytes), writes |-> writes]

-----------------------------------------------------------------------------
(* The constructors of context.rs *)

CoreContextCtor ==
  LET objs == IF since(25) THEN 14 ELSE 13
      field_offset == IF since(25) THEN 11 ELSE 10
  IN Program(objs, 2,
       Sets(0, <<Object("String"), Inner("FileMap"), Inner("Options"), Num(0), Num(1000), Inner("Syntax"),
                 Num(0), Num(0), Num(0), Num(200000000)>>)
         \o (IF since(25) THEN <<Set(10, Num(0))>> ELSE <<>>)
         \o Sets(field_offset, <<Num(1), Num(0), Object("HashSet")>>)
         \o lean_ctor_scalar(objs, <<0, 0>>))

\* Faulty variant: every version has the field that was added later.
CoreStateCtorUnshifted ==
  Program(IF since(25) THEN 9 ELSE 8, 0,
    Sets(0, <<Object("Environment"), Num(2), Inner("NameGenerator")>>)
      \o (IF since(25) THEN <<Set(3, Inner("DeclNameGenerator"))>> ELSE <<>>)
      \o Sets(4, <<Inner("TraceState"), Inner("Core.Cache"), Inner("MessageLog"), Inner("InfoState"), Object("Array")>>))

CoreStateCtor ==
  LET field_offset == IF since(25) THEN 4 ELSE 3
  IN Program(IF since(25) THEN 9 ELSE 8, 0,
       Sets(0, <<Object("Environment"), Num(2), Inner("NameGenerator")>>)
         \o (IF since(25) THEN <<Set(3, Inner("DeclNameGenerator"))>> ELSE <<>>)
         \o Sets(field_offset,
              <<Inner("TraceState"), Inner("Core.Cache"), Inner("MessageLog"), Inner("InfoState"), Object("Array")>>))

MetaConfigCtor ==
  Program(0, IF since(34) THEN 20 ELSE IF since(25) THEN 19 ELSE 18,
    lean_ctor_scalar(0, <<0, 0, 0, 0, 0, 1, 1, 0, 1, 1, 0, 1, 1, 1, 2, 1, 1, 1>>
                          \o (IF since(25) THEN <<1>> ELSE <<>>) \o (IF since(34) THEN <<0>> ELSE <<>>)))

ConfigWithKeyCtor == Program(1, 8, <<Set(0, Inner("Meta.Config")), UInt64(ctor_scalar_offset(1, 0), 0)>>)

mk_default_manual ==
  Program(7, 11,
    Sets(0, <<Inner("Meta.Config"), Num(0), Inner("LocalContext"), Object("Array"), Num(0), Num(0), Num(0)>>)
      \o <<UInt64(ctor_scalar_offset(7, 0), 0), Byte(7, 8, 0), Byte(7, 9, 0), Byte(7, 10, 0)>>)

mk_default_manual_v425_plus ==
  Program(7, IF since(28) THEN 4 ELSE 3,
    Sets(0, <<Inner("ConfigWithKey"), Object("HashSet"), Inner("LocalContext"), Object("Array"), Num(0), Num(0), Num(0)>>)
      \o lean_ctor_scalar(7, IF since(28) THEN <<0, 0, 0, 1>> ELSE <<0, 0, 0>>))

mk_empty_metavar_context ==
  LET nats == IF since(31) THEN 4 ELSE 3
  IN Program(nats + 6, 0, Sets(0, Same(nats, Num(0))) \o Sets(nats, Same(6, Inner("PersistentHashMap"))))

mk_meta_state_manual ==
  Program(5, 0,
    Sets(0, <<Inner("MetavarContext"), Inner("Meta.Cache"), Num(0), Inner("PersistentArray"), Inner("Diagnostics")>>))

\* The empty collections of leo3-ffi/src/meta.rs.
PersistentArrayEmpty ==
  Program(4, Word, Sets(0, <<Inner("PersistentArrayNode"), Object("Array"), Num(0), Num(0), Bytes(5)>>))

-----------------------------------------------------------------------------
(* The constructors of repl.rs, compiled for 4.25 and later *)

default_term_context ==
  LET objs == IF since(27) THEN 8 ELSE 7
      objects == <<Num(0), Num(0), IF since(27) THEN Num(0) ELSE Inner("PersistentArray.mkEmptyArray"),
                   Object("closure"), Object("NameMap"), Object("NameMap"), Num(0)>>
      bytes == CASE since(29) -> <<1, 1, 1, 1, 0, 0, 0, 0, 1, 0, 1>>
                 [] since(27) /\ ~since(29) -> <<1, 1, 1, 1, 0, 0, 0, 1, 0, 1>>
                 [] OTHER -> <<1, 1, 0, 1, 1, 0, 0, 0, 1, 0, 1>>
  IN Program(objs, Len(bytes),
       Sets(0, objects) \o (IF since(27) THEN <<Set(7, Inner("PersistentArray.mkEmptyArray"))>> ELSE <<>>)
         \o lean_ctor_scalar(objs, bytes))

mk_command_context ==
  Program(10, 1,
    Sets(0, <<Object("String"), Static("FileMap"), Num(0), Num(0), Num(0), Num(0), Num(1), Object("Syntax"), Num(0), Num(0)>>)
      \o <<[at |-> 10 * 8, size |-> 1, value |-> Bytes(0)]>>)

mk_command_state ==
  Program(IF since(34) THEN 12 ELSE 11, 0,
    Sets(0, <<Object("Environment"), Inner("Command.MessageLog"), Inner("Scopes"), Static("NameSet"), Num(2), Num(1000),
              Static("NameGenerator"), Static("DeclNameGenerator"), Inner("Command.InfoState"), Inner("Command.TraceState"),
              Object("Array")>>)
      \o (IF since(34) THEN <<Set(11, Num(0))>> ELSE <<>>))

-----------------------------------------------------------------------------
(* What a constructor builds when it takes no default instance *)

Maps(n) == Program(n, 0, Sets(0, Same(n, Inner("PersistentHashMap"))))
Pair(v, w) == Program(2, 0, Sets(0, <<v, w>>))

Manual(type) ==
  CASE type = "Core.Context" -> CoreContextCtor
    [] type = "Core.State" -> CoreStateCtor
    [] type = "Meta.Context" -> IF since(25) THEN mk_default_manual_v425_plus ELSE mk_default_manual
    [] type = "Meta.State" -> mk_meta_state_manual
    [] type = "Meta.Config" -> MetaConfigCtor
    [] type = "ConfigWithKey" -> ConfigWithKeyCtor
    [] type = "FileMap" -> Pair(Object("String"), Object("Array"))
    [] type = "NameGenerator" -> Pair(Object("Name"), Num(1))
    [] type = "DeclNameGenerator" -> Pair(Inner("NameGenerator"), Inner("NameGenerator"))
    [] type = "TraceState" -> Program(1, 8, <<Set(0, Inner("PersistentArray")), UInt64(ctor_scalar_offset(1, 0), 0)>>)
    [] type = "Command.TraceState" -> Program(1, 8, <<Set(0, Inner("PersistentArray")), UInt64(8, 0)>>)
    [] type = "Core.Cache" -> Maps(2)
    [] type = "Meta.Cache" -> Maps(6)
    [] type = "Diagnostics" -> Maps(4)
    [] type = "MetavarContext" -> mk_empty_metavar_context
    [] type = "MessageLog" -> Program(3, 0, Sets(0, <<Inner("PersistentArray"), Inner("PersistentArray"), Num(0)>>))
    [] type = "Command.MessageLog" -> Program(3, 0, Sets(0, <<Inner("PersistentArray"), Inner("PersistentArray"), Num(1)>>))
    [] type \in {"InfoState", "Command.InfoState"} ->
         Program(3, 1, Sets(0, <<Inner("PersistentHashMap"), Inner("PersistentHashMap"), Inner("PersistentArray")>>)
                         \o <<Byte(3, 0, 1)>>)
    [] type = "LocalContext" -> Pair(Inner("PersistentHashMap"), Inner("PersistentArray"))
    [] type = "PersistentHashMap" -> Program(1, 0, <<Set(0, Object("Array"))>>)
    [] type = "PersistentArray" -> PersistentArrayEmpty
    [] type = "PersistentArrayNode" -> Program(1, 0, <<Set(0, Object("Array"))>>)
    [] type = "Options" -> Program(1, 1, <<Set(0, Num(1)), Byte(1, 0, 0)>>)
    [] type = "Scopes" -> Pair(Static("Scope"), Num(0))
    [] type = "Term.Context" -> default_term_context
    [] type = "Command.Context" -> mk_command_context
    [] type = "Command.State" -> mk_command_state

\* Some constructors ignore LEO3_FORCE_MANUAL_META_DEFAULTS, others have no instance to take.
HasDefault(type) ==
  /\ type \in exported
  /\ type # "Meta.Context" \/ since(25)
  /\ forced => type = "DeclNameGenerator" \/ (type = "LocalContext" /\ since(25))

\* Types whose empty value is no object, and what other functions of Lean return.
IsEnum(type) ==
  CASE type = "Options" /\ ~since(28) -> TRUE
    [] type = "Syntax" -> TRUE
    [] OTHER -> FALSE

Returned(type) ==
  CASE HasDefault(type) -> Object(type)
    [] ~HasDefault(type) /\ IsEnum(type) -> Num(0)
    [] ~HasDefault(type) /\ type = "LocalContext" /\ ~since(25) -> Object(type)  \* lean_mk_empty_local_ctx
    [] type = "PersistentArray.mkEmptyArray" -> Object("Array")
    [] OTHER -> Unset

-----------------------------------------------------------------------------
(* How Lean lays out a structure: its object fields, then its USize fields, *)
(* then the others from the widest to the narrowest, each in the order of   *)
(* declaration.  A field is a name, a kind and the values it may have.      *)

Kinds == <<"object", "usize", "uint64", "byte">>
Rank(f) == CHOOSE k \in DOMAIN Kinds : Kinds[k] = f.kind
Width(f) == CASE f.kind \in {"object", "usize"} -> Word [] f.kind = "uint64" -> 8 [] f.kind = "byte" -> 1
SumOf(fields, S) == MapThenSumSet(LAMBDA k : Width(fields[k]), S)
Place(fields, i) ==
  SumOf(fields, {j \in DOMAIN fields : Rank(fields[j]) < Rank(fields[i]) \/ (Rank(fields[j]) = Rank(fields[i]) /\ j < i)})

Part(name, kind, values) == [name |-> name, kind |-> kind, values |-> values]
Has(name, type) == Part(name, "object", {Object(type)})
Nat0(name, n) == Part(name, "object", {Num(n)})
Absent(name) == Part(name, "object", {Num(0)})
Bool(name, b) == Part(name, "byte", {Bytes(b)})
Since(n, fields) == IF since(n) THEN fields ELSE <<>>
Until(n, fields) == IF since(n) THEN <<>> ELSE fields
All(type, names) == [k \in DOMAIN names |-> Has(names[k], type)]
Flags(names, on) == [k \in DOMAIN names |-> Bool(names[k], IF names[k] \in on THEN 1 ELSE 0)]

\* The forms in which leo3 writes an empty NameSet, NameMap or FVarIdSet; see the README.
EmptyTree(name) == Part(name, "object", {Num(0), Num(1), Object("HashSet"), Object("NameMap"), Object("NameSet")})

\* The structures of Lean, by version, as the comments of leo3 list them.
Structure(type) ==
  CASE type = "Core.Context" ->
         <<Has("fileName", "String"), Has("fileMap", "FileMap"),
           Part("options", "object", {Object("Options"), Num(0)}), Nat0("currRecDepth", 0), Nat0("maxRecDepth", 1000),
           Part("ref", "object", {Object("Syntax"), Num(0)}), Absent("currNamespace"), Absent("openDecls"),
           Nat0("initHeartbeats", 0), Nat0("maxHeartbeats", 200000000)>>
           \o Since(25, <<Absent("quotContext")>>)
           \o <<Nat0("currMacroScope", 1), Absent("cancelTk?"), Has("inheritedTraceOptions", "HashSet"),
                Bool("diag", 0), Bool("suppressElabErrors", 0)>>
    [] type = "Core.State" ->
         <<Has("env", "Environment"), Nat0("nextMacroScope", 2), Has("ngen", "NameGenerator")>>
           \o Since(25, <<Has("auxDeclNGen", "DeclNameGenerator")>>)
           \o <<Has("traceState", "TraceState"), Has("cache", "Core.Cache"), Has("messages", "MessageLog"),
                Has("infoState", "InfoState"), Has("snapshotTasks", "Array")>>
    [] type = "Meta.Context" ->
         Until(25, <<Has("config", "Meta.Config"), Part("configKey", "uint64", {Bytes(0)})>>)
           \o Since(25, <<Has("configWithKey", "ConfigWithKey")>>)
           \o <<Bool("trackZetaDelta", 0), EmptyTree("zetaDeltaSet"), Has("lctx", "LocalContext"),
                Has("localInstances", "Array"), Absent("defEqCtx?"), Nat0("synthPendingDepth", 0), Absent("canUnfold?"),
                Bool("univApprox", 0), Bool("inTypeClassResolution", 0)>>
           \o Since(28, <<Bool("cacheInferType", 1)>>)
    [] type = "ConfigWithKey" -> <<Has("config", "Meta.Config"), Part("key", "uint64", {Bytes(0)})>>
    [] type = "Meta.Config" ->
         Flags(<<"foApprox", "ctxApprox", "quasiPatternApprox", "constApprox", "isDefEqStuckEx", "unificationHints",
                 "proofIrrelevance", "assignSyntheticOpaque", "offsetCnstrs">>,
               {"unificationHints", "proofIrrelevance", "offsetCnstrs"})
           \o <<Bool("transparency", 1), Bool("etaStruct", 0), Bool("univApprox", 1), Bool("iota", 1), Bool("beta", 1),
                Bool("proj", 2), Bool("zeta", 1), Bool("zetaDelta", 1), Bool("zetaUnused", 1)>>
           \o Since(25, <<Bool("zetaHave", 1)>>) \o Since(34, <<Bool("canUnfoldPredicateConfig", 0)>>)
    [] type = "Meta.State" ->
         <<Has("mctx", "MetavarContext"), Has("cache", "Meta.Cache"), EmptyTree("zetaDeltaFVarIds"),
           Has("postponed", "PersistentArray"), Has("diag", "Diagnostics")>>
    [] type = "MetavarContext" ->
         <<Nat0("depth", 0), Nat0("levelAssignDepth", 0)>> \o Since(31, <<Nat0("lmvarCounter", 0)>>) \o <<Nat0("mvarCounter", 0)>>
           \o All("PersistentHashMap", <<"map 1", "map 2", "map 3", "map 4", "map 5", "map 6">>)
    [] type = "Meta.Cache" -> All("PersistentHashMap", <<"map 1", "map 2", "map 3", "map 4", "map 5", "map 6">>)
    [] type = "Diagnostics" -> All("PersistentHashMap", <<"map 1", "map 2", "map 3", "map 4">>)
    [] type = "Core.Cache" -> All("PersistentHashMap", <<"instLevelType", "instLevelValue">>)
    [] type = "FileMap" -> <<Has("source", "String"), Has("positions", "Array")>>
    [] type = "NameGenerator" -> <<Has("namePrefix", "Name"), Nat0("idx", 1)>>
    [] type = "DeclNameGenerator" -> <<Has("ngen", "NameGenerator"), Has("auxNGen", "NameGenerator")>>
    [] type \in {"TraceState", "Command.TraceState"} -> <<Part("tid", "uint64", {Bytes(0)}), Has("traces", "PersistentArray")>>
    [] type \in {"MessageLog", "Command.MessageLog"} ->
         <<Has("reported", "PersistentArray"), Has("unreported", "PersistentArray"), EmptyTree("loggedKinds")>>
    [] type \in {"InfoState", "Command.InfoState"} ->
         <<Bool("enabled", 1), Has("assignment", "PersistentHashMap"), Has("lazyAssignment", "PersistentHashMap"),
           Has("trees", "PersistentArray")>>
    [] type = "LocalContext" -> <<Has("fvarIdToDecl", "PersistentHashMap"), Has("decls", "PersistentArray")>>
    [] type = "PersistentHashMap" -> <<Has("entries", "Array")>>
    [] type = "PersistentArrayNode" -> <<Has("node", "Array")>>
    [] type = "PersistentArray" ->
         <<Has("root", "PersistentArrayNode"), Has("tail", "Array"), Nat0("size", 0), Part("shift", "usize", {Bytes(5)}), Nat0("tailOff", 0)>>
    [] type = "Options" -> <<Nat0("map", 1), Bool("hasTrace", 0)>>
    [] type = "Scopes" -> <<Has("head", "Scope"), Absent("tail")>>
    [] type = "Term.Context" ->
         <<Absent("declName?"), Absent("macroStack")>> \o Flags(<<"mayPostpone", "errToSorry">>, {"mayPostpone", "errToSorry"})
           \o Until(27, <<Bool("autoBoundImplicit", 0), Has("autoBoundImplicits", "Array")>>)
           \o Since(27, <<Absent("autoBoundImplicitContext")>>)
           \o <<Has("autoBoundImplicitForbidden", "closure"), Has("sectionVars", "NameMap"), Has("sectionFVars", "NameMap"),
                Bool("implicitLambda", 1), Bool("heedElabAsElim", 1), Bool("isNoncomputableSection", 0)>>
           \o Since(29, <<Bool("isMetaSection", 0)>>)
           \o <<Bool("ignoreTCFailures", 0), Bool("inPattern", 0), Absent("tacSnap?"), Bool("saveRecAppSyntax", 1),
                Bool("holesAsSyntheticOpaque", 0), Bool("checkDeprecated", 1)>>
           \o Since(27, <<Has("fixedTermElabs", "Array")>>)
    [] type = "Command.Context" ->
         <<Has("fileName", "String"), Has("fileMap", "FileMap"), Nat0("currRecDepth", 0), Nat0("cmdPos", 0), Absent("macroStack"),
           Absent("quotContext?"), Nat0("currMacroScope", 1), Has("ref", "Syntax"), Absent("snap?"), Absent("cancelTk?"),
           Bool("suppressElabErrors", 0)>>
    [] type = "Command.State" ->
         <<Has("env", "Environment"), Has("messages", "Command.MessageLog"), Has("scopes", "Scopes"), EmptyTree("usedQuotCtxts"),
           Nat0("nextMacroScope", 2), Nat0("maxRecDepth", 1000), Has("ngen", "NameGenerator"),
           Has("auxDeclNGen", "DeclNameGenerator"), Has("infoState", "Command.InfoState"),
           Has("traceState", "Command.TraceState"), Has("snapshotTasks", "Array")>>
           \o Since(34, <<Absent("prevLinterStates")>>)
    [] type = "Message" ->
         <<Has("fileName", "String"), Has("pos", "Position"), Absent("endPos"), Bool("keepFullRange", 0), Bool("severity", 2),
           Bool("isSilent", 0), Has("caption", "String"), Has("data", "MessageData")>>
    [] type = "MetavarDecl" ->
         <<Has("userName", "Name"), Has("lctx", "LocalContext"), Has("type", "Expr"), Nat0("depth", 0), Has("localInstances", "Array")>>

\* An object of Lean's own making.
Default(type) ==
  LET fields == Structure(type) IN
  [type |-> type, size |-> Header + SumOf(fields, DOMAIN fields),
   writes |-> [k \in DOMAIN fields |->
                 [at |-> Place(fields, k), size |-> Width(fields[k]), value |-> CHOOSE v \in fields[k].values : TRUE]]]

-----------------------------------------------------------------------------
(* The construction of objects *)

Nothing == [type |-> "none", size |-> 0, writes |-> <<>>]
Session == <<"Core.Context", "Core.State", "Meta.Context", "Meta.State">>
Started == \A k \in DOMAIN Session : built[Session[k]] # Nothing

LayoutsInit ==
  /\ minor \in Versions /\ exported \in Exports /\ forced \in BOOLEAN
  /\ frames = <<>> /\ made = Nothing /\ read = <<"", "">>
  /\ built = [type \in Range(Session) |-> Nothing]

Frame(type, program) == [type |-> type, size |-> program.size, todo |-> program.writes, writes |-> <<>>]
Top == Last(frames)
Hold(object) == built' = IF object.type \in DOMAIN built THEN [built EXCEPT ![object.type] = object] ELSE built

Construct(type, program) ==
  /\ frames' = <<Frame(type, program)>> /\ made' = Nothing /\ read' = <<"", "">>
  /\ UNCHANGED <<minor, exported, forced, built>>

(* MetaMContext::new builds the four objects in order. *)
NewSession ==
  \E k \in DOMAIN Session :
    /\ frames = <<>> /\ built[Session[k]] = Nothing /\ \A j \in 1..k - 1 : built[Session[j]] # Nothing
    /\ IF HasDefault(Session[k])
       THEN /\ made' = Default(Session[k]) /\ Hold(Default(Session[k]))
            /\ UNCHANGED <<minor, exported, forced, frames, read>>
       ELSE Construct(Session[k], Manual(Session[k]))

(* repl.rs: default_term_context, run_command_core. *)
BuildForElaborator(type) ==
  /\ since(25) /\ Started /\ frames = <<>>
  /\ Construct(type, Manual(type))

lean_ctor_get(o, i) ==
  LET found == SelectSeq(o.writes, LAMBDA w : w.at = i * Word)
  IN IF found = <<>> THEN Unset ELSE Last(found).value
Copies(o, is) == [k \in DOMAIN is |-> Set(is[k], lean_ctor_get(o, is[k]))]
CopiedBytes(o, objs, n) == SelectSeq(o.writes, LAMBDA w : w.at >= objs * Word /\ w.at + w.size <= objs * Word + n)

set_local_context ==
  LET old == built["Meta.Context"]
      n == IF since(28) THEN 4 ELSE IF since(25) THEN 3 ELSE 11
  IN
  /\ Started /\ frames = <<>>
  /\ Construct("Meta.Context",
       Program(7, n, Copies(old, <<0, 1, 4, 5, 6>>) \o Sets(2, <<Object("LocalContext"), Object("Array")>>)
                       \o CopiedBytes(old, 7, n)))

replace_env ==
  /\ minor \in EnvReplacedOn /\ Started /\ frames = <<>>
  /\ Construct("Core.State",
       Program(9, 0, <<Set(0, Object("Environment"))>> \o Copies(built["Core.State"], <<1, 2, 3, 4, 5, 6, 7, 8>>)))

\* The next field of the innermost object.
WriteField(value) ==
  frames' = [frames EXCEPT ![Len(frames)] =
    [Top EXCEPT !.todo = Tail(@), !.writes = Append(@, [Head(Top.todo) EXCEPT !.value = value])]]

SetField ==
  LET value == Head(Top.todo).value IN
  /\ frames # <<>> /\ Top.todo # <<>>
  /\ CASE value.is = "call" /\ Returned(value.what) = Unset -> frames' = Append(frames, Frame(value.what, Manual(value.what)))
       [] value.is = "call" /\ Returned(value.what) # Unset -> WriteField(Returned(value.what))
       [] value.is = "static" /\ value.what \in exported -> WriteField(Object(value.what))
       [] value.is = "static" /\ value.what \notin exported -> frames' = <<>>  \* Err: the objects under construction are lost
       [] OTHER -> WriteField(value)
  /\ made' = Nothing
  /\ UNCHANGED <<minor, exported, forced, built, read>>

ReturnObject ==
  LET object == [type |-> Top.type, size |-> Top.size, writes |-> Top.writes]
      parent == frames[Len(frames) - 1]
  IN
  /\ frames # <<>> /\ Top.todo = <<>>
  /\ made' = object
  /\ IF Len(frames) = 1 THEN frames' = <<>> /\ Hold(object)
     ELSE /\ frames' = Append(SubSeq(frames, 1, Len(frames) - 2),
               [parent EXCEPT !.todo = Tail(@), !.writes = Append(@, [Head(parent.todo) EXCEPT !.value = Object(Top.type)])])
          /\ UNCHANGED built
  /\ UNCHANGED <<minor, exported, forced, read>>

\* Fields that are read at places of their own: offset 41, words 1 and 2 behind the header, and so on.
ReadPlaces ==
  {<<"MetavarDecl", Word, "lctx">>, <<"MetavarDecl", 2 * Word, "type">>, <<"MetavarDecl", 4 * Word, "localInstances">>} \cup
  IF ~since(25) THEN {} ELSE
    {<<"Message", 41, "severity">>, <<"Message", 3 * Word, "caption">>, <<"Message", 4 * Word, "data">>,
     <<"Command.State", 0, "env">>, <<"Command.State", Word, "messages">>,
     <<"Core.State", 6 * Word, "messages">>, <<"Core.Context", 2 * Word, "options">>}

NameAt(type, at) ==
  LET fields == Structure(type)
      here == {k \in DOMAIN fields : Place(fields, k) = at}
  IN IF here = {} THEN "none" ELSE fields[CHOOSE k \in here : TRUE].name

ReadField ==
  /\ Started /\ frames = <<>>
  /\ \E r \in ReadPlaces : read' = <<r[3], NameAt(r[1], r[2])>>
  /\ made' = Nothing
  /\ UNCHANGED <<minor, exported, forced, frames, built>>

LayoutsNext ==
  \/ NewSession \/ set_local_context \/ replace_env \/ SetField \/ ReturnObject \/ ReadField
  \/ \E type \in {"Term.Context", "Command.Context", "Command.State"} : BuildForElaborator(type)

-----------------------------------------------------------------------------
(* The writes of an object are its declared fields, each once, at its place, *)
(* in its width and with a value of its type.                               *)
LaidOut(o) ==
  LET fields == Structure(o.type) IN
  /\ o.size = Header + SumOf(fields, DOMAIN fields)
  /\ Len(o.writes) = Len(fields)
  /\ \A k \in DOMAIN fields : \E w \in Range(o.writes) :
       w.at = Place(fields, k) /\ w.size = Width(fields[k]) /\ w.value \in fields[k].values

(* Every structure leo3 builds, for whichever version and whether or not    *)
(* Lean exports its default instances, is as large as Lean expects, has     *)
(* every field set once at Lean's place and nothing written beyond or       *)
(* between them, also after a session copied it to replace a part of it;    *)
(* and the fields that are read by their places are those meant.            *)
ObjectsAreLaidOut ==
  /\ made # Nothing => LaidOut(made)
  /\ read[1] = read[2]
=============================================================================
