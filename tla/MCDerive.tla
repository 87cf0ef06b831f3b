------------------------------ MODULE MCDerive ------------------------------
(* Derive for TLC: every struct and tuple of up to three fields with their    *)
(* attributes, and enums of up to three variants with and without tags.       *)
EXTENDS Derive

FieldAs(name, attrs) == [name |-> name, attrs |-> attrs]
VariantAs(tag, fields) == [tag |-> tag, fields |-> fields]
Type(kind, transparent, variants) == [kind |-> kind, transparent |-> transparent, variants |-> variants]

Attributes == {{}, {"skip"}, {"default"}, {"with"}, {"with", "default"}, {"skip", "default"}}
FieldNames == <<"x", "y", "z">>

Structs(n) ==
  {Type("struct", t, <<VariantAs(NoTag, [i \in 1..n |-> FieldAs(IF named THEN FieldNames[i] ELSE "", attrs[i])])>>) :
     t \in BOOLEAN, named \in BOOLEAN, attrs \in [1..n -> Attributes]}

Plain == FieldAs("", {})
SomeFields == {<<>>, <<Plain>>, <<Plain, FieldAs("", {"skip"})>>, <<FieldAs("x", {"default"}), FieldAs("y", {"with"})>>}
Enums == {Type("enum", t, vs) : t \in BOOLEAN, vs \in {<<>>}}
  \cup {Type("enum", FALSE, vs) : vs \in [1..2 -> [tag : {NoTag, 0, 1, 3, 5}, fields : SomeFields]]}
  \cup {Type("enum", FALSE, vs) : vs \in [1..3 -> [tag : {NoTag, 0, 2}, fields : {<<>>, <<Plain>>}]]}

WrongContent == {<<"wrong">>}
SomeDeclarations == UNION {Structs(n) : n \in 0..3} \cup Enums \cup {Type("union", FALSE, <<>>)}
=============================================================================
