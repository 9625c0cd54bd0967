----------------------------- MODULE LuaValues -----------------------------
(***************************************************************************)
(* The Lua values CangjieLua programs meet and the operations of lvm.c on  *)
(* them.  A float is a fraction in lowest terms: rounding, -0, infinities  *)
(* and NaN are not modelled, and lua_Integer does not wrap.                *)
(***************************************************************************)
EXTENDS Integers

Nil == <<"nil">>
IntValue(n) == <<"int", n>>
BoolValue(b) == <<"bool", b>>
Closure(p) == <<"closure", p>>   \* p: what the function is compiled from
Println == <<"println">>         \* the C function cangjiePrintln

gcd[p \in Nat \X Nat] == IF p[2] = 0 THEN p[1] ELSE gcd[<<p[2], p[1] % p[2]>>]
Abs(n) == IF n < 0 THEN -n ELSE n
FloatValue(num, den) ==
  LET g == gcd[<<Abs(num), Abs(den)>>]
      sign == IF den < 0 THEN -1 ELSE 1
  IN <<"flt", (sign * num) \div g, (sign * den) \div g>>

(* extractRuntimeValue: a function has no text.                            *)
RuntimeValue(v) == IF v[1] \in {"closure", "println"} THEN <<"text">> ELSE v

IsInt(v) == v[1] = "int"
IsNumber(v) == v[1] \in {"int", "flt"}
IsFalse(v) == v = Nil \/ v = BoolValue(FALSE)
Num(v) == v[2]
Den(v) == IF IsInt(v) THEN 1 ELSE v[3]

(* op_arith: integers stay integers except under DIV.                      *)
Arith(op, v, w) ==
  IF IsInt(v) /\ IsInt(w) /\ op # "DIV"
  THEN IntValue(CASE op = "ADD" -> v[2] + w[2]
                  [] op = "SUB" -> v[2] - w[2]
                  [] op = "MUL" -> v[2] * w[2])
  ELSE CASE op = "ADD" -> FloatValue(Num(v) * Den(w) + Num(w) * Den(v), Den(v) * Den(w))
         [] op = "SUB" -> FloatValue(Num(v) * Den(w) - Num(w) * Den(v), Den(v) * Den(w))
         [] op = "MUL" -> FloatValue(Num(v) * Num(w), Den(v) * Den(w))
         [] op = "DIV" -> FloatValue(Num(v) * Den(w), Den(v) * Num(w))

(* Division by zero yields an infinity or a NaN in C: callers of Arith     *)
(* stay where it is a number.                                              *)
CanArith(v, w) == IsNumber(v) /\ IsNumber(w)

LessThan(v, w) == Num(v) * Den(w) < Num(w) * Den(v)
LessEqual(v, w) == Num(v) * Den(w) <= Num(w) * Den(v)
EqualObj(v, w) ==
  IF IsNumber(v) /\ IsNumber(w) THEN Num(v) * Den(w) = Num(w) * Den(v) ELSE v = w
=============================================================================
