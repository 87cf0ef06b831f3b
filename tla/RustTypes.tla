----------------------------- MODULE RustTypes ------------------------------
(* The Rust types in the signature of an exported function.  A type is a      *)
(* tuple, its head and its arguments: <<"u8">>, <<"Vec", <<"u8">>>>,          *)
(* <<"ref", <<"str">>>>, <<"tuple">> for the unit.                            *)
EXTENDS Naturals, Sequences

Ctor(t) == t[1]
Args(t) == SubSeq(t, 2, Len(t))

LeanScalar ==
  [i8 |-> "Int8", i16 |-> "Int16", i32 |-> "Int32", i64 |-> "Int64", isize |-> "ISize",
   u8 |-> "UInt8", u16 |-> "UInt16", u32 |-> "UInt32", u64 |-> "UInt64", usize |-> "USize",
   f32 |-> "Float32", f64 |-> "Float", bool |-> "Bool", char |-> "Char"]

(* ScalarAbi::from_type: what crosses without a Lean object. *)
IsScalar(t) == Ctor(t) \in DOMAIN LeanScalar
is_unit_type(t) == t = <<"tuple">>

(* The class of a free function *)
NoClass == ""
=============================================================================
