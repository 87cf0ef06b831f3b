------------------------------ MODULE Bindings ------------------------------
(* From the Rust items of a library to the Lean declarations of its exported  *)
(* functions: the macros record what they export (leo3-binding-ir) and embed  *)
(* it in the library, the linker lays the records out, and leo3-codegen reads *)
(* them back and writes one file per module and per class, library after      *)
(* library into one directory.                                                *)
(*                                                                            *)
(* An item is a record: a function, [kind |-> "fn", rust, lean, generics,     *)
(* concretes], a module of functions and modules, a struct with accessors or  *)
(* an impl with methods.  A dotted or mangled name is the sequence of its     *)
(* parts.  NoName stands for an attribute that is not given.                  *)
EXTENDS Naturals, Sequences, SequencesExt, FiniteSets

CONSTANTS
  Items,         \* that a library may be written of
  NoName,
  MaxItems,      \* in one library
  MaxPadding,    \* words that the linker puts before a record
  MaxLibraries   \* given to one run of leo3-codegen

ASSUME BindingBounds == {MaxItems, MaxPadding, MaxLibraries} \subseteq Nat

VARIABLES
  program,    \* the items of the library
  records,    \* what the macros embed, not yet laid out
  section,    \* the metadata section of the library
  symbols,    \* the records that the symbol table names
  found,      \* what collect_metadata returned and is not yet processed
  classes,    \* the metadata of a class, merged
  files,      \* the declarations in every file
  phase,
  libraries   \* the programs of those processed so far

bindingVars == <<program, records, section, symbols, found, classes, files, phase, libraries>>

Or(name, default) == IF name = NoName THEN default ELSE name
OfKind(items, kind) == SelectSeq(items, LAMBDA item : item.kind = kind)
InOrder(seqs) == FlattenSeq(seqs)

-----------------------------------------------------------------------------
(* Functions and modules *)

Binding(rust, lean, symbol, uses) == [rust |-> rust, lean |-> lean, symbol |-> symbol, uses |-> uses]

(* A generic function is exported once for every concrete instance, and every *)
(* instance names as many types as the function has parameters.               *)
RejectsFunction(f) ==
  IF f.concretes = <<>> THEN f.generics > 0
  ELSE \/ \E i \in DOMAIN f.concretes : f.concretes[i].types # f.generics \/ f.generics = 0
       \/ \E i, j \in DOMAIN f.concretes : i # j /\ f.concretes[i].name = f.concretes[j].name

analyze_lean_function(f) == Binding(f.rust, <<Or(f.lean, f.rust)>>, <<Or(f.lean, f.rust)>>, {})
analyze_concrete_instance(f, concrete) == Binding(f.rust, <<concrete.name>>, <<concrete.name>>, {})

collect_module_exports(items) ==
  LET functions == OfKind(items, "fn")
      bindings(f) ==
        IF f.concretes = <<>> THEN <<analyze_lean_function(f)>>
        ELSE [i \in DOMAIN f.concretes |-> analyze_concrete_instance(f, f.concretes[i])]
  IN InOrder([i \in DOMAIN functions |-> bindings(functions[i])])

RECURSIVE collect_submodule_exports(_, _)
collect_submodule_exports(items, prefix) ==
  LET modules == OfKind(items, "mod")
      path(m) == Append(prefix, m.rust)
      own(m) == collect_module_exports(m.items)
      of(m) == (IF own(m) = <<>> THEN <<>> ELSE <<[path |-> path(m), exports |-> own(m)]>>)
               \o collect_submodule_exports(m.items, path(m))
  IN InOrder([i \in DOMAIN modules |-> of(modules[i])])

Called(binding, name) == binding.lean = <<name>> \/ binding.rust = name

filter_exports(exports, allowed) ==
  [i \in DOMAIN allowed |->
     exports[CHOOSE j \in DOMAIN exports :
       Called(exports[j], allowed[i]) /\ \A k \in 1..j - 1 : ~Called(exports[k], allowed[i])]]

RECURSIVE RejectsModule(_)
RejectsModule(m) ==
  \/ \E f \in Range(OfKind(m.items, "fn")) : RejectsFunction(f)
  \/ \E sub \in Range(OfKind(m.items, "mod")) : RejectsModule(sub)
  \/ /\ m.exports # NoName
     /\ \E name \in Range(m.exports) : \A b \in Range(collect_module_exports(m.items)) : ~Called(b, name)

leanmodule(m) ==
  LET all == collect_module_exports(m.items) IN
  [name |-> Or(m.lean, <<m.rust>>),
   exports |-> IF m.exports = NoName THEN all ELSE filter_exports(all, m.exports),
   submodules |-> collect_submodule_exports(m.items, <<>>)]

-----------------------------------------------------------------------------
(* Classes *)

class_opaque_decl(lean) == {lean}

(* The shape that #[getter] and #[setter] ask for. *)
detect_binding_kind(m) ==
  CASE m.accessor = "getter" -> m.receiver = "ref" /\ m.params = 0 /\ ~m.unit
    [] m.accessor = "setter" -> m.receiver = "mut" /\ m.params = 1 /\ m.unit
    [] OTHER -> TRUE

RejectsClass(item) == item.kind = "impl" /\ \E m \in Range(item.methods) : ~detect_binding_kind(m)

(* The receiver is named as Lean knows the class, Self as Rust does. *)
analyze_lean_class_method(item, m) ==
  LET lean == Or(item.lean, item.rust) IN
  Binding(m.rust, <<lean, Or(m.lean, m.rust)>>, <<item.rust, m.rust>>,
    (IF m.receiver = "none" THEN {} ELSE {lean}) \cup (IF m.receiver = "mut" \/ m.self THEN {item.rust} ELSE {}))

SetterOf(field) == "set_" \o field

field_accessor_bindings(item) ==
  LET of(a) ==
        (IF a.getter THEN <<Binding(a.field, <<item.rust, a.field>>, <<item.rust, a.field>>, {item.rust})>> ELSE <<>>)
        \o (IF a.setter THEN <<Binding(SetterOf(a.field), <<item.rust, SetterOf(a.field)>>,
                                       <<item.rust, SetterOf(a.field)>>, {item.rust})>> ELSE <<>>)
  IN InOrder([i \in DOMAIN item.accessors |-> of(item.accessors[i])])

class_binding_to_json(item, methods) ==
  [rust |-> item.rust, lean |-> Or(item.lean, item.rust),
   declares |-> class_opaque_decl(Or(item.lean, item.rust)), methods |-> methods]

analyze_lean_class_impl(item) ==
  class_binding_to_json(item, [i \in DOMAIN item.methods |-> analyze_lean_class_method(item, item.methods[i])])

-----------------------------------------------------------------------------
(* What the macros embed *)

MetadataRecord(kind, name, data) == [kind |-> kind, name |-> name, data |-> data]

generate_field_accessor_metadata(item) ==
  IF field_accessor_bindings(item) = <<>> THEN <<>>
  ELSE <<MetadataRecord("class", <<item.rust, "fields">>, class_binding_to_json(item, field_accessor_bindings(item)))>>

Embedded(item) ==
  CASE item.kind = "mod" -> <<MetadataRecord("module", leanmodule(item).name, leanmodule(item))>>
    [] item.kind = "impl" -> <<MetadataRecord("class", <<item.rust>>, analyze_lean_class_impl(item))>>
    [] item.kind = "struct" -> generate_field_accessor_metadata(item)
    [] OTHER -> <<>>

(* The entry points of the wrappers, as the macros name them. *)
build_lean_function(f) ==
  IF f.concretes = <<>> THEN << <<Or(f.lean, f.rust)>> >> ELSE [i \in DOMAIN f.concretes |-> <<f.concretes[i].name>>]

generate_method_ffi_wrapper(item) ==
  IF item.kind = "impl" THEN [i \in DOMAIN item.methods |-> <<item.rust, item.methods[i].rust>>]
  ELSE InOrder([i \in DOMAIN item.accessors |->
         LET a == item.accessors[i] IN
         (IF a.getter THEN <<<<item.rust, a.field>>>> ELSE <<>>)
         \o (IF a.setter THEN <<<<item.rust, SetterOf(a.field)>>>> ELSE <<>>)])

RECURSIVE EntryPoints(_)
EntryPoints(item) ==
  CASE item.kind = "fn" -> build_lean_function(item)
    [] item.kind = "mod" -> InOrder([i \in DOMAIN item.items |-> EntryPoints(item.items[i])])
    [] OTHER -> generate_method_ffi_wrapper(item)

Rejects(item) ==
  CASE item.kind = "mod" -> RejectsModule(item)
    [] item.kind = "fn" -> RejectsFunction(item)
    [] OTHER -> RejectsClass(item)

-----------------------------------------------------------------------------
(* Records in a section: a magic word, two lengths, the name and the rest.    *)

Magic == <<"L3MJ">>
Padding == <<"0">>
Word(x) == <<"", x>>

frame_metadata_entry(r) ==
  <<Magic, Word(Len(r.name)), Word(1)>> \o [i \in DOMAIN r.name |-> Word(r.name[i])] \o <<Word(r)>>

RECURSIVE parse_metadata_entries(_)
parse_metadata_entries(words) ==
  LET end == 3 + words[2][2] + words[3][2] IN
  CASE Len(words) < 3 -> <<>>
    [] Len(words) >= 3 /\ words[1] # Magic -> parse_metadata_entries(Tail(words))
    [] Len(words) >= 3 /\ words[1] = Magic /\ end <= Len(words) ->
         <<words[end][2]>> \o parse_metadata_entries(SubSeq(words, end + 1, Len(words)))
    [] OTHER -> parse_metadata_entries(Tail(words))

(* The symbol table first, then what only the section has. *)
collect_metadata(table, words) ==
  LET scanned == parse_metadata_entries(words)
      fresh(i) == /\ \A r \in Range(table) : <<r.kind, r.name>> # <<scanned[i].kind, scanned[i].name>>
                  /\ \A j \in 1..i - 1 : <<scanned[j].kind, scanned[j].name>> # <<scanned[i].kind, scanned[i].name>>
  IN table \o [k \in 1..Cardinality({i \in DOMAIN scanned : fresh(i)}) |->
       scanned[CHOOSE i \in DOMAIN scanned : fresh(i) /\ Cardinality({j \in 1..i : fresh(j)}) = k]]

-----------------------------------------------------------------------------
(* A library, from its source to its declarations *)

BindingInit ==
  /\ program = <<>> /\ records = {} /\ section = <<>> /\ symbols = <<>> /\ found = <<>>
  /\ classes = <<>> /\ files = <<>> /\ phase = "source" /\ libraries = <<>>

WriteItem(item) ==
  /\ phase = "source" /\ Len(program) < MaxItems
  /\ program' = Append(program, item)
  /\ UNCHANGED <<records, section, symbols, found, classes, files, phase, libraries>>

AllEntryPoints(items) == InOrder([i \in DOMAIN items |-> EntryPoints(items[i])])
AllRecords(items) == InOrder([i \in DOMAIN items |-> Embedded(items[i])])

SymbolsClash(items) ==
  \/ ~IsInjective(AllEntryPoints(items))
  \/ \E i, j \in DOMAIN AllRecords(items) :
       i # j /\ AllRecords(items)[i].kind = AllRecords(items)[j].kind /\ AllRecords(items)[i].name = AllRecords(items)[j].name

(* A macro reports an error, or two items define one symbol. *)
Compile ==
  /\ phase = "source"
  /\ IF (\E i \in DOMAIN program : Rejects(program[i])) \/ SymbolsClash(program)
     THEN phase' = "rejected" /\ UNCHANGED records
     ELSE /\ phase' = "linking"
          /\ records' = Range(AllRecords(program))
  /\ UNCHANGED <<program, section, symbols, found, classes, files, libraries>>

(* The linker takes the records in any order, pads them, and does or does not *)
(* surface their symbols.                                                     *)
LinkRecord(r) ==
  /\ phase = "linking" /\ r \in records
  /\ records' = records \ {r}
  /\ \E n \in 0..MaxPadding :
       section' = section \o [i \in 1..n |-> Padding] \o frame_metadata_entry(r)
  /\ symbols' \in {symbols, Append(symbols, r)}
  /\ UNCHANGED <<program, found, classes, files, phase, libraries>>

(* process_library: without metadata the run stops. *)
ReadLibrary ==
  /\ phase = "linking" /\ records = {}
  /\ found' = collect_metadata(symbols, section)
  /\ phase' = IF found' = <<>> THEN "no metadata" ELSE "generating"
  /\ classes' = <<>>
  /\ UNCHANGED <<program, records, section, symbols, files, libraries>>

File(declares, functions) == [declares |-> declares, functions |-> functions]

generate_module_lean(binding) ==
  File({}, binding.exports \o InOrder([i \in DOMAIN binding.submodules |-> binding.submodules[i].exports]))

merge_class_replacing(metadata) == (metadata.rust :> metadata) @@ classes

merge_class_metadata(metadata) ==
  LET known == classes[metadata.rust].methods
      new == SelectSeq(metadata.methods, LAMBDA m :
               \A k \in Range(known) : <<k.rust, k.lean>> # <<m.rust, m.lean>>)
  IN IF metadata.rust \in DOMAIN classes THEN [classes EXCEPT ![metadata.rust].methods = @ \o new]
     ELSE (metadata.rust :> metadata) @@ classes

ProcessRecord ==
  /\ phase = "generating" /\ found # <<>>
  /\ LET r == found[1] IN
     \/ /\ r.kind = "module"
        /\ files' = (r.data.name :> generate_module_lean(r.data)) @@ files
        /\ UNCHANGED classes
     \/ /\ r.kind = "class"
        /\ classes' = merge_class_metadata(r.data)
        /\ UNCHANGED files
  /\ found' = Tail(found)
  /\ UNCHANGED <<program, records, section, symbols, phase, libraries>>

generate_class_lean(metadata) == File(metadata.declares, metadata.methods)

(* The classes are written last; then comes the next library. *)
WriteClasses ==
  /\ phase = "generating" /\ found = <<>>
  /\ files' = [p \in {<<c>> : c \in DOMAIN classes} |-> generate_class_lean(classes[p[1]])] @@ files
  /\ libraries' = Append(libraries, program)
  /\ phase' = "generated"
  /\ UNCHANGED <<program, records, section, symbols, found, classes>>

NextLibrary ==
  /\ phase = "generated" /\ Len(libraries) < MaxLibraries
  /\ phase' = "source"
  /\ program' = <<>> /\ section' = <<>> /\ symbols' = <<>>
  /\ UNCHANGED <<records, found, classes, files, libraries>>

BindingNext ==
  \/ \E item \in Items : WriteItem(item)
  \/ Compile
  \/ \E r \in records : LinkRecord(r)
  \/ ReadLibrary \/ ProcessRecord \/ WriteClasses \/ NextLibrary

-----------------------------------------------------------------------------
(* Properties *)

FileOf(item) == IF item.kind = "mod" THEN Or(item.lean, <<item.rust>>) ELSE <<item.rust>>

(* What a module exports with its submodules, and a class with its accessors. *)
Promised(item) ==
  IF item.kind # "mod" \/ item.exports = NoName THEN Range(EntryPoints(item))
  ELSE LET listed(i) == item.items[i].kind = "mod" \/ \E b \in Range(collect_module_exports(<<item.items[i]>>)) :
                          \E name \in Range(item.exports) : Called(b, name)
           ofAnInstance(i) == item.items[i].kind = "fn" /\ item.items[i].concretes # <<>>
       IN UNION {Range(EntryPoints(item.items[i])) : i \in {j \in DOMAIN item.items : listed(j) /\ ~ofAnInstance(j)}}

WrittenItems == {<<l, i>> \in (DOMAIN libraries) \X (1..MaxItems) : i \in DOMAIN libraries[l] /\ libraries[l][i].kind # "fn"}
ItemAt(p) == libraries[p[1]][p[2]]
OneClass(p, q) == p[1] = q[1] /\ "mod" \notin {ItemAt(p).kind, ItemAt(q).kind}
Renamed(item) == item.kind # "mod" /\ item.lean # NoName

(* "each class produces exactly one `.lean` file containing all its methods"  *)
(* (process_library), and each module one with all its functions: every entry *)
(* point that a library exports is declared once in the file of its item,     *)
(* whatever the linker did to the records, and the file of a class that keeps *)
(* its name declares every class it speaks of.  Two items that are written to *)
(* one file without being one class overwrite each other.                     *)
ExportsAreDeclaredOnce ==
  phase = "generated" =>
    \A p \in WrittenItems :
      LET item == ItemAt(p)
          alone == \A q \in WrittenItems : FileOf(ItemAt(q)) = FileOf(item) => q = p \/ OneClass(p, q)
          distinct == item.kind = "mod" /\ item.exports # NoName => IsInjective(filter_exports(collect_module_exports(item.items), item.exports))
          named == \A q \in WrittenItems : FileOf(ItemAt(q)) = FileOf(item) => ~Renamed(ItemAt(q))
      IN alone /\ distinct /\ Promised(item) # {} =>
           /\ FileOf(item) \in DOMAIN files
           /\ LET file == files[FileOf(item)] IN
              /\ \A symbol \in Promised(item) :
                   Cardinality({i \in DOMAIN file.functions : file.functions[i].symbol = symbol}) = 1
              /\ item.kind # "mod" /\ named => \A b \in Range(file.functions) : b.uses \subseteq file.declares
=============================================================================
