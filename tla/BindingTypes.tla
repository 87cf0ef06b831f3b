---------------------------- MODULE BindingTypes ----------------------------
(* The types of exported Rust functions, three times over: the Lean type that *)
(* leo3-binding-ir declares for them, the one that the surface scan of        *)
(* leo3-macros-backend declares, and the Lean value that the generated        *)
(* wrapper decodes or builds.                                                 *)
(*                                                                            *)
(* A Lean type as it is written is a sequence of words, each a name, <<"x">>, *)
(* or a text in parentheses, <<"(", text>>.                                   *)
EXTENDS RustTypes, SequencesExt

-----------------------------------------------------------------------------
(* Texts *)

Name(x) == << <<x>> >>
CompileError == Name("compile_error!")
Unknown == <<>>

(* A slip to test the properties with: an argument of more than one word is   *)
(* left without its parentheses.                                              *)
lean_type_arg_bare(text) == text

lean_type_arg(text) == IF Len(text) > 1 THEN << <<"(", text>> >> ELSE text
AsWritten(text) == IF text = Unknown THEN Name("?") ELSE text

Applied(name, texts) ==
  CASE \E i \in DOMAIN texts : texts[i] = CompileError -> CompileError
    [] \E i \in DOMAIN texts : texts[i] = Unknown -> Unknown
    [] OTHER -> Name(name) \o FlattenSeq([i \in DOMAIN texts |-> lean_type_arg(texts[i])])

ApplyPair(left, right) ==
  CASE CompileError \in {left, right} -> CompileError
    [] OTHER -> Name("Prod") \o AsWritten(left) \o lean_type_arg(AsWritten(right))

-----------------------------------------------------------------------------
(* Declared by leo3-binding-ir.  class is NoClass in a free function. *)

Generic == {"Vec", "Option", "Result"}

RECURSIVE analyze_type(_, _)

RECURSIVE nested_prod_type(_)
nested_prod_type(items) ==
  ApplyPair(items[1], IF Len(items) = 2 THEN items[2] ELSE nested_prod_type(Tail(items)))

analyze_path_type(t, class) ==
  LET inner == [i \in DOMAIN Args(t) |-> analyze_type(Args(t)[i], class)] IN
  CASE Ctor(t) \in DOMAIN LeanScalar -> Name(LeanScalar[Ctor(t)])
    [] Ctor(t) = "Vec" -> Applied("Array", inner)
    [] Ctor(t) = "Option" -> Applied("Option", inner)
    [] Ctor(t) = "Result" -> Applied("Except", Reverse(inner))
    [] Ctor(t) = "Self" -> IF class = NoClass THEN Unknown ELSE Name(class)
    [] Ctor(t) \notin Generic \cup {"Self"} /\ Len(t) = 1 -> Name(Ctor(t))
    [] OTHER -> IF class = NoClass THEN Unknown ELSE CompileError

analyze_reference(elem) ==
  CASE elem = <<"str">> -> Name("String")
    [] elem = <<"slice", <<"u8">>>> -> Name("ByteArray")
    [] Ctor(elem) \in {"slice", "array"} -> Applied("Array", <<AsWritten(analyze_type(elem[2], NoClass))>>)
    [] OTHER -> Unknown

analyze_leanfn_type(t) ==
  CASE Ctor(t) = "ref" -> analyze_reference(t[2])
    [] Ctor(t) = "array" -> Applied("Array", <<AsWritten(analyze_type(t[2], NoClass))>>)
    [] t = <<"tuple">> -> Name("Unit")
    [] Ctor(t) = "tuple" /\ Len(t) > 2 -> nested_prod_type([i \in DOMAIN Args(t) |-> analyze_type(Args(t)[i], NoClass)])
    [] Ctor(t) = "slice" \/ (Ctor(t) = "tuple" /\ Len(t) = 2) -> Unknown
    [] OTHER -> analyze_path_type(t, NoClass)

analyze_leanclass_type(t, class) ==
  CASE t = <<"tuple">> -> Name("Unit")
    [] Ctor(t) = "tuple" /\ Len(t) = 3 -> ApplyPair(analyze_type(t[2], class), analyze_type(t[3], class))
    [] Ctor(t) \in {"ref", "slice", "array"} \/ (Ctor(t) = "tuple" /\ Len(t) \notin {1, 3}) -> CompileError
    [] OTHER -> analyze_path_type(t, class)

analyze_type(t, class) ==
  IF class = NoClass THEN analyze_leanfn_type(t) ELSE analyze_leanclass_type(t, class)

-----------------------------------------------------------------------------
(* Declared by the surface scan *)

RECURSIVE render_type(_, _)

render_tuple_type(texts) ==
  FoldRight(LAMBDA text, rest : IF rest = Unknown THEN text ELSE Applied("Prod", <<text, rest>>), texts, Unknown)

render_path_type(t, class) ==
  LET inner == [i \in DOMAIN Args(t) |-> render_type(Args(t)[i], class)] IN
  CASE Ctor(t) \in DOMAIN LeanScalar -> Name(LeanScalar[Ctor(t)])
    [] Ctor(t) = "Self" -> IF class = NoClass THEN CompileError ELSE Name(class)
    [] t = <<"Vec", <<"u8">>>> -> Name("ByteArray")
    [] Ctor(t) = "Vec" /\ t[2] # <<"u8">> -> Applied("Array", inner)
    [] Ctor(t) = "Option" -> Applied("Option", inner)
    [] Ctor(t) = "Result" -> Applied("Except", Reverse(inner))
    [] Ctor(t) \notin Generic \cup {"Self", "str"} /\ Len(t) = 1 -> Name(Ctor(t))
    [] OTHER -> CompileError

render_reference(elem, class) ==
  CASE elem \in {<<"str">>, <<"String">>} -> Name("String")
    [] elem \in {<<"slice", <<"u8">>>>, <<"Vec", <<"u8">>>>} -> Name("ByteArray")
    [] Ctor(elem) \in {"slice", "array", "Vec"} /\ elem[2] # <<"u8">> -> Applied("Array", <<render_type(elem[2], class)>>)
    [] elem = <<"array", <<"u8">>>> -> Applied("Array", <<Name("UInt8")>>)
    [] OTHER -> CompileError

render_type(t, class) ==
  CASE t = <<"tuple">> -> Name("Unit")
    [] Ctor(t) = "tuple" /\ Len(t) > 2 -> render_tuple_type([i \in DOMAIN Args(t) |-> render_type(Args(t)[i], class)])
    [] Ctor(t) = "ref" -> render_reference(t[2], class)
    [] Ctor(t) = "array" -> Applied("Array", <<render_type(t[2], class)>>)
    [] Ctor(t) = "slice" \/ (Ctor(t) = "tuple" /\ Len(t) = 2) -> CompileError
    [] OTHER -> render_path_type(t, class)

-----------------------------------------------------------------------------
(* Decoded and built by the wrappers *)

is_borrowed_string(t) == t = <<"ref", <<"String">>>>
is_borrowed_str(t) == t = <<"ref", <<"str">>>>
is_borrowed_u8_slice(t) == t = <<"ref", <<"slice", <<"u8">>>>>>
is_vec_u8(t) == t = <<"Vec", <<"u8">>>>
is_borrowed_vec_u8(t) == t = <<"ref", <<"Vec", <<"u8">>>>>>
BorrowedArray(t) == Ctor(t) = "ref" /\ Ctor(t[2]) \in {"Vec", "slice", "array"}
                    /\ ~is_borrowed_u8_slice(t) /\ ~is_borrowed_vec_u8(t)

supports_borrowed_storage(t) == is_borrowed_string(t) \/ is_borrowed_vec_u8(t) \/ BorrowedArray(t)

RECURSIVE type_contains_reference(_)
type_contains_reference(t) ==
  Ctor(t) = "ref" \/ \E i \in DOMAIN Args(t) : type_contains_reference(Args(t)[i])

build_result_arm(t) == supports_borrowed_storage(t) \/ ~type_contains_reference(t)

RECURSIVE build_tuple_plan(_)
build_tuple_plan(t) ==
  /\ Ctor(t) = "tuple" /\ Len(t) > 2
  /\ \A i \in DOMAIN Args(t) : build_tuple_plan(Args(t)[i]) \/ supports_borrowed_storage(Args(t)[i])

(* The arguments that are first decoded to an owned value of the wrapper. *)
build_storage_plan(t) ==
  \/ build_tuple_plan(t)
  \/ Ctor(t) = "Result" /\ build_result_arm(t[2]) /\ build_result_arm(t[3])
  \/ Ctor(t) = "Option" /\ Ctor(t[2]) = "Result" /\ build_result_arm(t[2][2]) /\ build_result_arm(t[2][3])
  \/ Ctor(t) = "Option" /\ supports_borrowed_storage(t[2])
  \/ supports_borrowed_storage(t)

Prods(items) == FoldRight(LAMBDA x, rest : IF rest = <<>> THEN x ELSE <<"Prod", x, rest>>, items, <<>>)

(* The Lean type that FromLean and IntoLean stand for. *)
RECURSIVE Source(_, _)
Source(t, class) ==
  LET inner == [i \in DOMAIN Args(t) |-> Source(Args(t)[i], class)] IN
  CASE Ctor(t) \in DOMAIN LeanScalar -> <<LeanScalar[Ctor(t)]>>
    [] t = <<"tuple">> -> <<"Unit">>
    [] is_borrowed_str(t) -> <<"String">>
    [] is_borrowed_u8_slice(t) -> <<"ByteArray">>
    [] Ctor(t) \in {"Vec", "array"} -> <<"Array">> \o inner
    [] Ctor(t) = "Option" -> <<"Option">> \o inner
    [] Ctor(t) = "Result" -> <<"Except">> \o Reverse(inner)
    [] Ctor(t) = "tuple" /\ Len(t) > 2 -> Prods(inner)
    [] Ctor(t) = "Self" -> <<class>>
    [] OTHER -> t

(* A wrapper of #[leanfn] reads bytes from a ByteArray, and the rest as       *)
(* FromLean does: argument by argument, or first into storage of its own.     *)
lean_source_type(t) ==
  CASE is_borrowed_str(t) \/ is_borrowed_string(t) -> "String"
    [] is_borrowed_u8_slice(t) \/ is_vec_u8(t) \/ is_borrowed_vec_u8(t) -> "ByteArray"
    [] BorrowedArray(t) -> "Array"
    [] Ctor(t) = "Option" -> "Option"
    [] Ctor(t) = "Result" -> "Except"
    [] Ctor(t) = "tuple" /\ Len(t) > 2 -> "Prod"
    [] OTHER -> Ctor(Source(t, NoClass))

RECURSIVE generate_from_lean_expr(_)
generate_from_lean_expr(t) ==
  LET inner == [i \in DOMAIN Args(t) |-> generate_from_lean_expr(Args(t)[i])] IN
  CASE is_borrowed_str(t) \/ is_borrowed_string(t) -> <<"String">>
    [] is_borrowed_u8_slice(t) \/ is_vec_u8(t) -> <<"ByteArray">>
    [] Ctor(t) = "Option" -> <<"Option">> \o inner
    [] Ctor(t) = "Result" -> <<"Except">> \o Reverse(inner)
    [] Ctor(t) = "tuple" /\ Len(t) > 2 -> Prods(inner)
    [] OTHER -> Source(t, NoClass)

generate_borrowed_storage_owned_decode(t) ==
  CASE is_borrowed_string(t) -> <<"String">>
    [] is_borrowed_u8_slice(t) \/ is_borrowed_vec_u8(t) -> <<"ByteArray">>
    [] BorrowedArray(t) -> <<"Array", Source(t[2][2], NoClass)>>

generate_result_storage_decode(t) ==
  IF supports_borrowed_storage(t) \/ is_borrowed_u8_slice(t) THEN generate_borrowed_storage_owned_decode(t)
  ELSE generate_from_lean_expr(t)

RECURSIVE generate_tuple_borrowed_storage_decode(_)
generate_tuple_borrowed_storage_decode(t) ==
  IF Ctor(t) = "tuple" THEN Prods([i \in DOMAIN Args(t) |-> generate_tuple_borrowed_storage_decode(Args(t)[i])])
  ELSE generate_borrowed_storage_owned_decode(t)

render_result_storage_binding(t) ==
  <<"Except", generate_result_storage_decode(t[3]), generate_result_storage_decode(t[2])>>

render_storage_plan_binding(t) ==
  CASE Ctor(t) = "tuple" -> generate_tuple_borrowed_storage_decode(t)
    [] Ctor(t) = "Result" -> render_result_storage_binding(t)
    [] Ctor(t) = "Option" /\ Ctor(t[2]) = "Result" -> <<"Option", render_result_storage_binding(t[2])>>
    [] Ctor(t) = "Option" /\ Ctor(t[2]) # "Result" -> <<"Option", generate_borrowed_storage_owned_decode(t[2])>>
    [] Ctor(t) = "ref" -> generate_borrowed_storage_owned_decode(t)

(* Results: first a plan, then what it builds. *)
RECURSIVE build_return_plan(_)
build_return_plan(t) ==
  LET inner == [i \in DOMAIN Args(t) |-> build_return_plan(Args(t)[i])] IN
  CASE is_borrowed_string(t) -> <<"BorrowedString">>
    [] is_borrowed_u8_slice(t) \/ is_borrowed_vec_u8(t) \/ is_vec_u8(t) -> <<"U8">>
    [] BorrowedArray(t) -> <<"BorrowedSliceLike", t[2][2]>>
    [] Ctor(t) \in {"Option", "Result"} -> <<Ctor(t)>> \o inner
    [] Ctor(t) = "tuple" /\ Len(t) > 2 -> <<"Tuple">> \o inner
    [] OTHER -> <<"Generic", t>>

RECURSIVE render_built_return_plan(_)
render_built_return_plan(plan) ==
  LET inner == [i \in DOMAIN Args(plan) |-> render_built_return_plan(Args(plan)[i])] IN
  CASE Ctor(plan) = "BorrowedString" -> <<"String">>
    [] Ctor(plan) = "U8" -> <<"ByteArray">>
    [] Ctor(plan) = "BorrowedSliceLike" -> <<"Array", Source(plan[2], NoClass)>>
    [] Ctor(plan) = "Option" -> <<"Option">> \o inner
    [] Ctor(plan) = "Result" -> <<"Except">> \o Reverse(inner)
    [] Ctor(plan) = "Tuple" -> Prods(inner)
    [] Ctor(plan) = "Generic" -> Source(plan[2], NoClass)

(* FromLean and IntoLean know no other references than those above. *)
RECURSIVE HasConversions(_)
HasConversions(tree) == Ctor(tree) \notin {"ref", "slice"} /\ \A i \in DOMAIN Args(tree) : HasConversions(Args(tree)[i])

-----------------------------------------------------------------------------
(* Lean's reading of a text *)

Arity ==
  [n \in {"Array", "Option", "Prod", "Except"} |-> IF n \in {"Array", "Option"} THEN 1 ELSE 2]
IllTyped == <<"ill-typed">>

RECURSIVE Elaborates(_)
Elaborates(text) ==
  LET operands == [i \in DOMAIN Tail(text) |-> Elaborates(<<Tail(text)[i]>>)]
      name == text[1][1]
  IN CASE Len(text) = 1 /\ name = "(" -> Elaborates(text[1][2])
       [] Len(text) = 1 /\ name # "(" /\ name \notin DOMAIN Arity -> <<name>>
       [] /\ Len(text) > 1 /\ name \in DOMAIN Arity /\ Len(operands) = Arity[name]
          /\ \A i \in DOMAIN operands : operands[i] # IllTyped -> <<name>> \o operands
       [] OTHER -> IllTyped
=============================================================================
