------------------------------ MODULE Wrappers ------------------------------
(* What is declared to Lean of an exported Rust function, and what its        *)
(* wrapper takes and gives: of its parameters and its result, translated by   *)
(* leo3-binding-ir, by the surface scan and by the conversion plans.          *)
EXTENDS BindingTypes, WrapperCalls

is_self_return(s) == s.ret \in {<<"Self">>, Class(s)}

(* The result type that analyze_lean_class_method declares. *)
DeclaredResult(s) ==
  LET ret == analyze_type(s.ret, s.class) IN
  CASE ret = CompileError -> CompileError
    [] s.receiver = "mut" /\ is_unit_type(s.ret) -> Name(s.class)
    [] s.receiver = "mut" /\ ~is_unit_type(s.ret) -> Applied("Prod", <<Name(s.class), ret>>)
    [] OTHER -> ret

DeclaredParams(s) == [i \in DOMAIN s.params |-> analyze_type(s.params[i], s.class)]

(* The object or scalar that the wrapper takes for a parameter, and gives for *)
(* the result.                                                                *)
CrossesAs(s, t) ==
  CASE s.class # NoClass \/ IsScalar(t) -> Source(t, s.class)
    [] s.class = NoClass /\ build_storage_plan(t) -> render_storage_plan_binding(t)
    [] OTHER -> generate_from_lean_expr(t)

ReturnsAs(s) ==
  CASE s.receiver = "mut" /\ is_unit_type(s.ret) -> Class(s)
    [] s.receiver = "mut" /\ ~is_unit_type(s.ret) -> <<"Prod", Class(s), Source(s.ret, s.class)>>
    [] s.class = NoClass /\ ~is_unit_type(s.ret) -> render_built_return_plan(build_return_plan(s.ret))
    [] OTHER -> Source(s.ret, s.class)

Surface(s, t) == render_type(t, s.class)

(* The macros reject the types that they cannot declare, and rustc those that *)
(* have no conversion.                                                        *)
CanExport(s) ==
  /\ CompileError # DeclaredResult(s) /\ HasConversions(ReturnsAs(s))
  /\ \A i \in DOMAIN s.params : CompileError # DeclaredParams(s)[i] /\ HasConversions(CrossesAs(s, s.params[i]))

WrappersInit == CallsInit /\ CanExport(sig)

-----------------------------------------------------------------------------
(* Properties *)

(* Rust bytes in a plan of #[leanfn] are a ByteArray, and an array of bytes   *)
(* to FromLean and IntoLean.                                                  *)
RECURSIVE BytesIn(_)
BytesIn(t) ==
  is_vec_u8(t) \/ (Ctor(t) \in {"Option", "Result", "tuple"} /\ \E i \in DOMAIN Args(t) : BytesIn(Args(t)[i]))

RECURSIVE BytesInArray(_)
BytesInArray(t) ==
  \E i \in DOMAIN Args(t) : BytesInArray(Args(t)[i]) \/ (Ctor(t) \in {"Vec", "array", "slice"} /\ BytesIn(Args(t)[i]))

RECURSIVE OwnedContainerByReference(_)
OwnedContainerByReference(t) ==
  \/ Ctor(t) = "ref" /\ Ctor(t[2]) \in {"String", "Vec"}
  \/ \E i \in DOMAIN Args(t) : OwnedContainerByReference(Args(t)[i])

RECURSIVE CompoundLeft(_)
CompoundLeft(t) ==
  \/ \E i \in DOMAIN Args(t) : CompoundLeft(Args(t)[i])
  \/ Ctor(t) = "tuple" /\ \E i \in 2..Len(t) - 1 : Len(analyze_type(t[i], sig.class)) > 1

Agrees(text, tree) == text \notin {CompileError, Unknown} => Elaborates(text) = tree

(* What leo3-codegen declares for a function is what its wrapper decodes and  *)
(* builds, except in the cases above; what the surface scan declares is, too, *)
(* except for arrays of bytes; and the wrapper decodes an argument as the     *)
(* type of Lean object that it took it for.                                   *)
DeclarationsMatchWrappers ==
  LET known(t) == CompoundLeft(t) \/ (sig.class = NoClass /\ (BytesIn(t) \/ OwnedContainerByReference(t))) IN
  /\ \A i \in DOMAIN sig.params :
       LET t == sig.params[i] IN
       /\ known(t) \/ Agrees(DeclaredParams(sig)[i], CrossesAs(sig, t))
       /\ sig.class = NoClass => lean_source_type(t) = Ctor(CrossesAs(sig, t))
       /\ sig.class = NoClass /\ ~BytesInArray(t) => Agrees(Surface(sig, t), CrossesAs(sig, t))
  /\ known(sig.ret) \/ Agrees(DeclaredResult(sig), ReturnsAs(sig))

(* "`{lean_name}` uses the mixed unboxed/boxed ABI matching the Lean          *)
(* declarations `leo3-codegen` emits (this is what Lean itself calls)":       *)
(* leanfn.rs, on the wrappers it generates.                                   *)
EntriesMatchDeclarations ==
  \A i \in DOMAIN sig.params : Agrees(DeclaredParams(sig)[i], CrossesAs(sig, sig.params[i]))
=============================================================================
