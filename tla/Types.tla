------------------------------- MODULE Types -------------------------------
(***************************************************************************)
(* The value types of WABT (enum Type of common.h) and the subtype test    *)
(* the validators share.  "any" is the type checker's own unknown type,    *)
(* "void" the result of an instruction that pushes nothing.                *)
(***************************************************************************)

NumType == {"i32", "i64", "f32", "f64", "v128"}

RefType == {"anyref", "funcref", "nullref", "exnref", "hostref"}

ValueType == NumType \union RefType

\* What may stand on the type checker's operand stack.
StackType == ValueType \union {"any"}

IsRefType(t) == t \in RefType

\* "Currently all reftypes are nullable".
IsNullableRefType(t) == IsRefType(t)

IsSubtype(sub, super) ==
    \/ sub = super
    \/ /\ IsRefType(sub) <=> IsRefType(super)
       /\ \/ super = "anyref" /\ IsRefType(sub)
          \/ super # "anyref" /\ IsNullableRefType(super) /\ sub = "nullref"

CheckType(actual, expected) ==
    expected = "any" \/ actual = "any" \/ IsSubtype(actual, expected)

CheckTypes(actual, expected) ==
    /\ DOMAIN actual = DOMAIN expected
    /\ \A i \in DOMAIN actual : CheckType(actual[i], expected[i])
=============================================================================
