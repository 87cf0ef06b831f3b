------------------------------- MODULE Derive -------------------------------
(* #[derive(IntoLean)] and #[derive(FromLean)]: what they accept, and the     *)
(* conversions that they generate, which fill and read a constructor object   *)
(* field by field.  A struct is a type with one variant, of tag 0.            *)
EXTENDS Integers, Sequences, FiniteSets, Functions

CONSTANTS
  Declarations, \* of types: [kind, transparent, variants]; a variant is [tag, fields], a field [name, attrs]
  Payloads,     \* values of the fields
  Default,      \* Default::default() of a field
  Unfit,        \* values that the conversion of a field refuses
  Wrong,        \* what a field of an object may be that is no converted value
  NoTag,        \* a variant without an explicit tag
  TagSize,      \* tags have this many values: 256, and less for TLC
  MaxArity      \* bound: fields of the objects that come from Lean

ASSUME DeriveAssumption ==
  /\ Default \in Payloads /\ Unfit \subseteq Payloads \ {Default} /\ TagSize \in Nat \ {0}
  /\ NoTag \notin Nat /\ MaxArity \in Nat

(* What the parser of Rust gives: the fields of a variant have names, all      *)
(* different, or none has one.                                                *)
FieldAttributes == {"skip", "default", "with"}

ASSUME DeclarationsAssumption ==
  \A d \in Declarations :
    /\ d.kind \in {"struct", "enum", "union"} /\ d.transparent \in BOOLEAN
    /\ d.variants \in Seq([tag : Nat \cup {NoTag}, fields : Seq([name : STRING, attrs : SUBSET FieldAttributes])])
    /\ d.kind = "struct" => Len(d.variants) = 1
    /\ \A v \in Range(d.variants) : \A j, k \in DOMAIN v.fields :
         LET f == v.fields IN /\ f[j].name = "" <=> f[k].name = ""
                              /\ f[j].name # "" /\ f[j].name = f[k].name => j = k

VARIABLES
  decl,    \* the declaration
  derives, \* the traits derived for it
  step,    \* where the conversion is
  value,   \* the value that is converted: its variant and fields
  object,  \* the Lean object
  field,   \* the field at which the conversion is, from 1
  locals     \* the local variables of from_lean, by name

deriveVars == <<decl, derives, step, value, object, field, locals>>

Traits == {"IntoLean", "FromLean"}
Unset == <<"unset">>
Converted(v) == <<"plain", v>>
Custom(v) == <<"custom", v>>

-----------------------------------------------------------------------------
(* The analysis of a declaration *)

(* Positions count from 0 in the source. *)
extract_fields(fields) ==
  [i \in DOMAIN fields |-> [name |-> fields[i].name, attrs |-> fields[i].attrs, index |-> i - 1]]

Fields(i) == extract_fields(decl.variants[i].fields)
TagOf(variants, i) == IF variants[i].tag = NoTag THEN i - 1 ELSE variants[i].tag

validate_field_attrs(f) == "skip" \in f.attrs => {"default", "with"} \cap f.attrs = {}

validate_variant_attrs(variants) ==
  \A i, j \in DOMAIN variants : variants[i].tag = variants[j].tag => i = j \/ variants[i].tag = NoTag

validate_container_attrs(d) ==
  d.transparent => d.kind = "struct" /\ Len(d.variants[1].fields) = 1

analyze_declaration(d) ==
  /\ d.kind # "union" /\ d.variants # <<>>
  /\ \A i \in DOMAIN d.variants : \A j \in DOMAIN d.variants[i].fields :
       validate_field_attrs(d.variants[i].fields[j])
  /\ validate_variant_attrs(d.variants)
  /\ validate_container_attrs(d)

\* The positions up to n that are in K, in their order.
Ascending(K, n) ==
  LET upTo[k \in 0..n] == IF k = 0 THEN <<>> ELSE IF k \in K THEN Append(upTo[k - 1], k) ELSE upTo[k - 1]
  IN upTo[n]

Active(fields) == Ascending({i \in DOMAIN fields : "skip" \notin fields[i].attrs}, Len(fields))

\* Fields that keep the positions that they are written at.
active_fields_in_place(fields) == LET active == Active(fields) IN [i \in DOMAIN active |-> fields[active[i]]]

active_fields(fields) ==
  LET active == Active(fields)
  IN [i \in DOMAIN active |-> [fields[active[i]] EXCEPT !.index = i - 1]]

(* What self.<name> or self.<index> selects. *)
field_name(f, fields) ==
  IF f.name = "" THEN f.index + 1 ELSE CHOOSE i \in DOMAIN fields : fields[i].name = f.name

field_var_name(f) == IF f.name = "" THEN <<"index", f.index>> ELSE <<"name", f.name>>
Defaulted == <<"default", "">>

-----------------------------------------------------------------------------
(* The generated code.  The attributes of the fields of an enum are ignored.  *)

IsStruct == decl.kind = "struct"
Crossing(i) == IF IsStruct THEN active_fields(Fields(i)) ELSE Fields(i)
Marked(f, attr) == IsStruct /\ attr \in f.attrs

(* The fields of the value that from_lean constructs: a default, or a variable. *)
generate_construction(i) ==
  [j \in DOMAIN Fields(i) |->
     IF Marked(Fields(i)[j], "skip") THEN Defaulted ELSE field_var_name(Fields(i)[j])]

(* rustc: a variable that is constructed with must have been extracted, and   *)
(* the two derives call the function of with in two ways.                     *)
Compiles ==
  \/ decl.transparent
  \/ /\ "FromLean" \in derives => \A i \in DOMAIN decl.variants :
          \A x \in Range(generate_construction(i)) \ {Defaulted} :
            \E j \in DOMAIN Crossing(i) : field_var_name(Crossing(i)[j]) = x
     /\ derives = Traits => \A i \in DOMAIN decl.variants : \A j \in DOMAIN Crossing(i) : ~Marked(Crossing(i)[j], "with")

DeriveInit ==
  /\ decl \in Declarations /\ derives \in (SUBSET Traits) \ {{}}
  /\ step = "source" /\ value = <<>> /\ object = <<>> /\ field = 1 /\ locals = <<>>

Expand ==
  /\ step = "source"
  /\ step' = IF analyze_declaration(decl) /\ Compiles THEN "derived" ELSE "rejected"
  /\ UNCHANGED <<decl, derives, value, object, field, locals>>

(* lean_alloc_ctor: the tag is cut to the width of the header. *)
lean_alloc_ctor(tag, n) == [tag |-> tag % TagSize, kids |-> [k \in 1..n |-> Unset]]

(* The user calls into_lean. *)
IntoLean(i, payloads) ==
  /\ step = "derived" /\ "IntoLean" \in derives
  /\ value' = [variant |-> i, fields |-> payloads]
  /\ object' = IF decl.transparent THEN <<>>
               ELSE lean_alloc_ctor(TagOf(decl.variants, i), Len(Crossing(i)))
  /\ step' = IF decl.transparent THEN "into_inner" ELSE "into"
  /\ UNCHANGED <<decl, derives, field, locals>>

IntoInner ==
  /\ step = "into_inner"
  /\ IF value.fields[1] \in Unfit THEN step' = "failed" /\ UNCHANGED object
     ELSE step' = "converted" /\ object' = Converted(value.fields[1])
  /\ UNCHANGED <<decl, derives, value, field, locals>>

(* One iteration of generate_field_conversions; when it fails, nobody frees   *)
(* the constructor.                                                           *)
SetField ==
  LET fields == Crossing(value.variant)
      f == fields[field]
      v == value.fields[field_name(f, Fields(value.variant))]
  IN
  /\ step = "into" /\ field <= Len(fields)
  /\ IF v \in Unfit THEN step' = "failed" /\ UNCHANGED <<object, field>>
     ELSE /\ object' = [object EXCEPT !.kids[f.index + 1] = IF Marked(f, "with") THEN Custom(v) ELSE Converted(v)]
          /\ field' = field + 1
          /\ UNCHANGED step
  /\ UNCHANGED <<decl, derives, value, locals>>

ReturnObject ==
  /\ step = "into" /\ field > Len(Crossing(value.variant))
  /\ step' = "converted" /\ field' = 1
  /\ UNCHANGED <<decl, derives, value, object, locals>>

(* Lean passes an object of the declared type, or of a later version of it.   *)
Content == {Converted(v) : v \in Payloads \ Unfit} \cup {Custom(v) : v \in Payloads \ Unfit} \cup Wrong
LeanPasses(tag, kids) ==
  /\ step = "derived" /\ derives = {"FromLean"} /\ ~decl.transparent
  /\ \E i \in DOMAIN decl.variants :
       /\ Len(kids) = Len(Crossing(i))
       /\ tag = TagOf(decl.variants, i) \/ (~IsStruct /\ tag \notin {TagOf(decl.variants, j) : j \in DOMAIN decl.variants})
  /\ object' = [tag |-> tag, kids |-> kids]
  /\ step' = "converted"
  /\ UNCHANGED <<decl, derives, value, field, locals>>

LeanPassesInner(content) ==
  /\ step = "derived" /\ derives = {"FromLean"} /\ decl.transparent
  /\ object' = content
  /\ step' = "converted"
  /\ UNCHANGED <<decl, derives, value, field, locals>>

(* A field of an object as a value; a custom function reads what its own      *)
(* counterpart wrote.                                                         *)
Reads(f, kid) == kid[1] = IF Marked(f, "with") THEN "custom" ELSE "plain"

Arms == {i \in DOMAIN decl.variants : IsStruct \/ TagOf(decl.variants, i) = object.tag}
Arm == CHOOSE i \in Arms : \A j \in Arms : i <= j
Rebuilt(i, fields) == [variant |-> i, fields |-> fields]

(* from_lean: of the arms with the tag, the first is taken. *)
FromLean ==
  /\ step = "converted" /\ "FromLean" \in derives
  /\ CASE decl.transparent /\ object[1] = "plain" -> step' = "rebuilt" /\ locals' = Rebuilt(1, <<object[2]>>)
       [] decl.transparent /\ object[1] # "plain" -> step' = "failed" /\ UNCHANGED locals
       [] ~decl.transparent /\ Arms = {} -> step' = "failed" /\ UNCHANGED locals
       [] OTHER -> step' = "from" /\ locals' = <<>>
  /\ field' = 1
  /\ UNCHANGED <<decl, derives, value, object>>

(* One iteration of generate_field_extractions. *)
GetField ==
  LET f == Crossing(Arm)[field]
      kid == object.kids[f.index + 1]
      bound(v) == locals' = [x \in DOMAIN locals \cup {field_var_name(f)} |-> IF x = field_var_name(f) THEN v ELSE locals[x]]
  IN
  /\ step = "from" /\ field <= Len(Crossing(Arm))
  /\ CASE f.index >= Len(object.kids) -> step' = "out_of_bounds" /\ UNCHANGED <<locals, field>>
       [] f.index < Len(object.kids) /\ Reads(f, kid) -> bound(kid[2]) /\ field' = field + 1 /\ UNCHANGED step
       [] f.index < Len(object.kids) /\ ~Reads(f, kid) /\ Marked(f, "default") -> bound(Default) /\ field' = field + 1 /\ UNCHANGED step
       [] OTHER -> step' = "failed" /\ UNCHANGED <<locals, field>>
  /\ UNCHANGED <<decl, derives, value, object>>

Construct ==
  /\ step = "from" /\ field > Len(Crossing(Arm))
  /\ locals' = Rebuilt(Arm, [j \in DOMAIN Fields(Arm) |->
       LET x == generate_construction(Arm)[j] IN IF x = Defaulted THEN Default ELSE locals[x]])
  /\ step' = "rebuilt"
  /\ UNCHANGED <<decl, derives, value, object, field>>

DeriveNext ==
  \/ Expand
  \/ \E i \in DOMAIN decl.variants : \E p \in [DOMAIN decl.variants[i].fields -> Payloads] : IntoLean(i, p)
  \/ IntoInner \/ SetField \/ ReturnObject
  \/ \E n \in 0..MaxArity, tag \in 0..TagSize - 1 : \E kids \in [1..n -> Content] : LeanPasses(tag, kids)
  \/ \E content \in Content : LeanPassesInner(content)
  \/ FromLean \/ GetField \/ Construct

DeriveSpec == DeriveInit /\ [][DeriveNext]_deriveVars

-----------------------------------------------------------------------------
(* Two variants whose tags are equal in the header cannot be told apart; only *)
(* explicit tags are compared with each other.                                *)
TagsDiffer ==
  \A i, j \in DOMAIN decl.variants :
    TagOf(decl.variants, i) % TagSize = TagOf(decl.variants, j) % TagSize => i = j
TagsFit == \A i \in DOMAIN decl.variants : TagOf(decl.variants, i) < TagSize

(* A tuple struct selects the fields behind a skipped one by their new        *)
(* positions: its IntoLean alone compiles, and sends other fields.            *)
SkipsLast ==
  \A i \in DOMAIN decl.variants : \A j, k \in DOMAIN decl.variants[i].fields :
    LET f == decl.variants[i].fields IN
      (IsStruct /\ f[j].name = "" /\ "skip" \in f[j].attrs /\ j < k) => "skip" \in f[k].attrs

Kept(i, payloads) ==
  [j \in DOMAIN payloads |->
     IF ~decl.transparent /\ Marked(Fields(i)[j], "skip") THEN Default ELSE payloads[j]]

Sent(i, payloads) ==
  LET sent == Ascending({j \in DOMAIN payloads : ~Marked(Fields(i)[j], "skip")}, Len(payloads))
  IN [j \in DOMAIN sent |-> payloads[sent[j]]]

(* into_lean sends every field that is not skipped, in order, in a            *)
(* constructor without holes; from_lean gives the value back with its skipped *)
(* fields at their defaults, never reads beyond the object, and never makes   *)
(* up a value of a variant that the object is not of.  The types that break   *)
(* this are those with equal tags, with tags wider than the header and with a *)
(* skipped field before others in a tuple.                                    *)
DeriveRoundTrips ==
  /\ (step = "converted" /\ value # <<>> /\ ~decl.transparent /\ SkipsLast) =>
       /\ Unset \notin Range(object.kids)
       /\ [j \in DOMAIN object.kids |-> object.kids[j][2]] = Sent(value.variant, value.fields)
  /\ (step = "rebuilt" /\ value # <<>> /\ TagsDiffer /\ TagsFit) =>
       locals = Rebuilt(value.variant, Kept(value.variant, value.fields))
  /\ step = "failed" /\ value # <<>> /\ TagsFit /\ TagsDiffer => Unfit \cap Range(value.fields) # {}
  /\ step = "out_of_bounds" => ~TagsDiffer \/ ~TagsFit
=============================================================================
