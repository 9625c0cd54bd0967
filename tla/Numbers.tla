------------------------------ MODULE Numbers ------------------------------
(***************************************************************************)
(* The numbers of Lua, from src/luavm/src/lvm.c and lobject.c: integers    *)
(* that wrap around, floats that round, what happens where they meet, and  *)
(* the numerical for.                                                      *)
(*                                                                         *)
(* A float is the number of its halves: with NBM bits of mantissa and the  *)
(* scales 2^0 to 2^(MaxScale - 1) there are enough of them for integers    *)
(* that no float is equal to, and for floats beyond all integers.          *)
(***************************************************************************)
EXTENDS Integers, Sequences, FiniteSets, SequencesExt

CONSTANTS NBITS,            \* of a lua_Integer
          NBM, MaxScale     \* bits of the mantissa of a lua_Number, its scales

ASSUME NBITS > 2 /\ NBM \in 1..(NBITS - 2) /\ MaxScale > NBITS - NBM + 1

Modulus == 2^NBITS
MAXINT == 2^(NBITS - 1) - 1
MININT == -MAXINT - 1
lua_Integers == MININT..MAXINT
Unsigned(n) == n % Modulus                                      \* l_castS2U
Signed(n) == IF Unsigned(n) > MAXINT THEN Unsigned(n) - Modulus ELSE Unsigned(n)

Infinity == 2^(NBM + MaxScale)
Finite == {m * 2^e : m \in (1 - 2^NBM)..(2^NBM - 1), e \in 0..(MaxScale - 1)}
Floats == Finite \cup {Infinity, -Infinity}
Flt(h) == [t |-> "float", v |-> h]
NaN == Flt(2 * Infinity)                \* any number that stands for no other float
Integer(i) == [t |-> "int", v |-> i]
Absent == [t |-> "nil"]

(* The float nearest to so many halves; of two, the one with an even       *)
(* mantissa; too large a number is infinite.                               *)
Abs(x) == IF x < 0 THEN -x ELSE x
Round(x) ==
  LET e == CHOOSE e \in 0..MaxScale : Abs(x) < 2^(NBM + e) /\ \A d \in 0..(e - 1) : Abs(x) >= 2^(NBM + d)
      q == Abs(x) \div 2^e
      r == Abs(x) % 2^e
      m == (IF 2 * r > 2^e \/ (2 * r = 2^e /\ q % 2 = 1) THEN q + 1 ELSE q) * 2^e
      size == IF m < 2^(NBM + MaxScale - 1) THEN m ELSE Infinity
  IN IF x < 0 THEN -size ELSE size
cast_num(i) == Flt(Round(2 * i))

luai_numlt(f, g) == f # NaN /\ g # NaN /\ f.v < g.v
luai_numle(f, g) == f # NaN /\ g # NaN /\ f.v <= g.v
luai_numadd(f, g) ==
  IF f = NaN \/ g = NaN \/ (Abs(f.v) = Infinity /\ g.v = -f.v) THEN NaN
  ELSE IF Abs(f.v) = Infinity THEN f ELSE IF Abs(g.v) = Infinity THEN g ELSE Flt(Round(f.v + g.v))

----------------------------------------------------------------------------
(* From floats to integers.                                                *)

l_floor(f) == IF f = NaN \/ Abs(f.v) = Infinity THEN f ELSE Flt(2 * (f.v \div 2))
lua_numbertointeger(f) ==
  IF luai_numle(cast_num(MININT), f) /\ luai_numlt(f, Flt(-2 * MININT)) THEN Integer(f.v \div 2) ELSE Absent
luaV_flttointeger(f, mode) ==
  LET n == l_floor(f)
      integral == f # NaN /\ n = f          \* NaN is not equal to itself
  IN CASE ~integral /\ mode = "F2Ieq" -> Absent
       [] ~integral /\ mode = "F2Iceil" -> lua_numbertointeger(luai_numadd(n, Flt(2)))
       [] OTHER -> lua_numbertointeger(n)
luaV_tointegerns(x, mode) == IF x.t = "float" THEN luaV_flttointeger(x, mode) ELSE IF x.t = "int" THEN x ELSE Absent
IsNumber(x) == x.t \in {"int", "float"}
tonumber(x) == IF x.t = "int" THEN cast_num(x.v) ELSE x

----------------------------------------------------------------------------
(* Order.  Integers that a float may not represent are compared to the     *)
(* float as an integer.                                                    *)

(* Mutant: all integers are compared as floats.                            *)
l_intfitsfAll(i) == TRUE
l_intfitsf(i) == Unsigned(2^NBM + i) <= 2 * 2^NBM
Beyond(f, side) == f # NaN /\ f.v * side > 0            \* greater, or less, than all integers
LTintfloat(i, f) ==
  LET fi == luaV_flttointeger(f, "F2Iceil")
  IN IF l_intfitsf(i) THEN luai_numlt(cast_num(i), f) ELSE IF fi # Absent THEN i < fi.v ELSE Beyond(f, 1)
LEintfloat(i, f) ==
  LET fi == luaV_flttointeger(f, "F2Ifloor")
  IN IF l_intfitsf(i) THEN luai_numle(cast_num(i), f) ELSE IF fi # Absent THEN i <= fi.v ELSE Beyond(f, 1)
LTfloatint(f, i) ==
  LET fi == luaV_flttointeger(f, "F2Ifloor")
  IN IF l_intfitsf(i) THEN luai_numlt(f, cast_num(i)) ELSE IF fi # Absent THEN fi.v < i ELSE Beyond(f, -1)
LEfloatint(f, i) ==
  LET fi == luaV_flttointeger(f, "F2Iceil")
  IN IF l_intfitsf(i) THEN luai_numle(f, cast_num(i)) ELSE IF fi # Absent THEN fi.v <= i ELSE Beyond(f, -1)
LTnum(l, r) ==
  CASE l.t = "int" /\ r.t = "int" -> l.v < r.v
    [] l.t = "int" /\ r.t = "float" -> LTintfloat(l.v, r)
    [] l.t = "float" /\ r.t = "float" -> luai_numlt(l, r)
    [] OTHER -> LTfloatint(l, r.v)
LEnum(l, r) ==
  CASE l.t = "int" /\ r.t = "int" -> l.v <= r.v
    [] l.t = "int" /\ r.t = "float" -> LEintfloat(l.v, r)
    [] l.t = "float" /\ r.t = "float" -> luai_numle(l, r)
    [] OTHER -> LEfloatint(l, r.v)
(* luaV_equalobj, for numbers.                                             *)
EQnum(l, r) ==
  IF l.t = r.t THEN l = r /\ l # NaN
  ELSE luaV_tointegerns(l, "F2Ieq") # Absent /\ luaV_tointegerns(l, "F2Ieq") = luaV_tointegerns(r, "F2Ieq")

(* What they stand for: the numbers themselves.                            *)
Halves(x) == IF x.t = "int" THEN 2 * x.v ELSE x.v
ExactLT(l, r) == l # NaN /\ r # NaN /\ Halves(l) < Halves(r)
ExactLE(l, r) == l # NaN /\ r # NaN /\ Halves(l) <= Halves(r)
ComparedExactly(l, r) ==
  /\ LTnum(l, r) = ExactLT(l, r)
  /\ LEnum(l, r) = ExactLE(l, r)
  /\ EQnum(l, r) = (ExactLE(l, r) /\ ExactLE(r, l))

----------------------------------------------------------------------------
(* Arithmetic on integers.  C truncates divisions.                         *)

Quot(m, n) == IF (m < 0) = (n < 0) THEN Abs(m) \div Abs(n) ELSE -(Abs(m) \div Abs(n))
Rem(m, n) == m - n * Quot(m, n)
Minus1or0(n) == Unsigned(Unsigned(n) + 1) <= 1
Differ(m, n) == (m < 0) # (n < 0)            \* (m ^ n) < 0
luaV_idiv(m, n) ==
  IF Minus1or0(n) THEN (IF n = 0 THEN Absent ELSE Integer(Signed(-m)))
  ELSE Integer(IF Differ(m, n) /\ Rem(m, n) # 0 THEN Quot(m, n) - 1 ELSE Quot(m, n))
(* Mutant: the remainder keeps the sign that C gives it.                   *)
luaV_modC(m, n) == IF Minus1or0(n) THEN (IF n = 0 THEN Absent ELSE Integer(0)) ELSE Integer(Rem(m, n))
luaV_mod(m, n) ==
  IF Minus1or0(n) THEN (IF n = 0 THEN Absent ELSE Integer(0))
  ELSE Integer(IF Rem(m, n) # 0 /\ Differ(Rem(m, n), n) THEN Rem(m, n) + n ELSE Rem(m, n))
luaV_shiftl(x, y) ==
  CASE y <= -NBITS \/ y >= NBITS -> 0
    [] y < 0 /\ y > -NBITS -> Signed(Unsigned(x) \div 2^(-y))
    [] OTHER -> Signed(Unsigned(x) * 2^y)
luaV_shiftr(x, y) == luaV_shiftl(x, Signed(-y))
intarith(op, v1, v2) ==
  CASE op = "+" -> Integer(Signed(v1 + v2))
    [] op = "-" -> Integer(Signed(v1 - v2))
    [] op = "*" -> Integer(Signed(v1 * v2))
    [] op = "//" -> luaV_idiv(v1, v2)
    [] op = "%" -> luaV_mod(v1, v2)
    [] op = "<<" -> Integer(luaV_shiftl(v1, v2))
    [] op = ">>" -> Integer(luaV_shiftr(v1, v2))

FloorDiv(m, n) == IF n > 0 THEN m \div n ELSE (-m) \div (-n)
ArithmeticWraps(op, m, n) ==
  LET r == intarith(op, m, n)
  IN CASE op \in {"//", "%"} /\ n = 0 -> r = Absent
       [] op = "//" /\ n # 0 -> r = Integer(Signed(FloorDiv(m, n)))
       [] op = "%" /\ n # 0 -> r = Integer(m - n * FloorDiv(m, n))
       [] op = "<<" -> r = Integer(Signed(IF n >= 0 THEN Unsigned(m) * 2^(IF n > NBITS THEN NBITS ELSE n)
                                     ELSE Unsigned(m) \div 2^(IF n < -NBITS THEN NBITS ELSE -n)))
       [] op = ">>" -> r = Integer(Signed(IF n <= 0 THEN Unsigned(m) * 2^(IF n < -NBITS THEN NBITS ELSE -n)
                                     ELSE Unsigned(m) \div 2^(IF n > NBITS THEN NBITS ELSE n)))
       [] OTHER -> r.v \in lua_Integers /\ Unsigned(r.v) = Unsigned(CASE op = "+" -> m + n [] op = "-" -> m - n [] op = "*" -> m * n)

----------------------------------------------------------------------------
(* The numerical for (OP_FORPREP, OP_FORLOOP).  A loop is [ra, ra1, ra2]:  *)
(* the counter or the limit, the step, and the control variable.           *)

Skip == [skip |-> TRUE]
LimitAt(p, skipped) == [p |-> p, skip |-> skipped]
forlimit(init, lim, step) ==
  LET p == luaV_tointegerns(lim, IF step < 0 THEN "F2Iceil" ELSE "F2Ifloor")
      flim == tonumber(lim)
      positive == luai_numlt(Flt(0), flim)
      In(limit) == LimitAt(limit, IF step > 0 THEN init > limit ELSE init < limit)
  IN CASE p # Absent -> In(p.v)
       [] p = Absent /\ positive -> IF step < 0 THEN Skip ELSE In(MAXINT)
       [] OTHER -> IF step > 0 THEN Skip ELSE In(MININT)
(* Mutant: the step is negated before it is made unsigned.                 *)
CountSigned(init, limit, step) ==
  IF step > 0 THEN Unsigned(Unsigned(limit) - Unsigned(init)) \div step
  ELSE Unsigned(Unsigned(init) - Unsigned(limit)) \div Unsigned(Signed(-step) + (IF step = MININT THEN 1 ELSE 0))
Count(init, limit, step) ==
  IF step > 0 THEN Unsigned(Unsigned(limit) - Unsigned(init)) \div step
  ELSE Unsigned(Unsigned(init) - Unsigned(limit)) \div (Unsigned(-(step + 1)) + 1)
Loop(ra, step, idx) == [ra |-> ra, ra1 |-> step, ra2 |-> idx, skip |-> FALSE]
Failure == [error |-> TRUE]
forprep(init, limit, step) ==
  IF init.t = "int" /\ step.t = "int"
  THEN IF step.v = 0 THEN Failure
       ELSE LET l == forlimit(init.v, limit, step.v)
            IN IF l.skip THEN Skip ELSE Loop(Count(init.v, l.p, step.v), step, init)
  ELSE LET i == tonumber(init)
           l == tonumber(limit)
           s == tonumber(step)
       IN IF s = Flt(0) THEN Failure
          ELSE IF (IF luai_numlt(Flt(0), s) THEN luai_numlt(l, i) ELSE luai_numlt(i, l)) THEN Skip
          ELSE Loop(l, s, i)
floatforloop(loop) ==
  LET idx == luai_numadd(loop.ra2, loop.ra1)
      again == IF luai_numlt(Flt(0), loop.ra1) THEN luai_numle(idx, loop.ra) ELSE luai_numle(loop.ra, idx)
  IN IF again THEN [loop EXCEPT !.ra2 = idx] ELSE Skip
OP_FORLOOP(loop) ==
  IF loop.ra1.t = "float" THEN floatforloop(loop)
  ELSE IF loop.ra > 0 THEN [loop EXCEPT !.ra = @ - 1, !.ra2 = Integer(Signed(@.v + loop.ra1.v))] ELSE Skip

(* The values of the control variable, at most fuel of them.               *)
RECURSIVE Visits(_, _)
Visits(loop, fuel) ==
  IF loop.skip \/ fuel = 0 THEN <<>> ELSE <<loop.ra2>> \o Visits(OP_FORLOOP(loop), fuel - 1)

(* An integer loop visits the integers from the first, a step apart, that  *)
(* are not beyond the limit, whatever the limit is, and stops: it never    *)
(* wraps around.                                                           *)
LoopVisits(init, limit, step) ==
  LET loop == forprep(init, limit, step)
      Within(i) == IF step.v > 0 THEN ExactLE(Integer(i), limit) ELSE ExactLE(limit, Integer(i))
      steps == {k \in 0..Modulus : init.v + k * step.v \in lua_Integers /\ Within(init.v + k * step.v)}
  IN IF step.v = 0 THEN loop = Failure
     ELSE Visits(loop, Modulus + 1) = [n \in 1..Cardinality(steps) |-> Integer(init.v + (n - 1) * step.v)]

----------------------------------------------------------------------------
(* Numerals (l_str2int): characters are digits by their value, or "-",     *)
(* "+", " ", "x" or another.                                               *)

CharOf(s, i) == IF i \in DOMAIN s THEN s[i] ELSE <<"NUL">>
Digit(d) == <<"digit", d>>
IsDigit(c) == c[1] = "digit" /\ c[2] < 10
IsXDigit(c) == c[1] = "digit"
Space == <<" ">>
MAXBY10 == MAXINT \div 10
MAXLASTD == MAXINT % 10
RECURSIVE SkipSpaces(_, _), Hex(_, _, _), Decimal(_, _, _, _)
SkipSpaces(s, i) == IF CharOf(s, i) = Space THEN SkipSpaces(s, i + 1) ELSE i
Hex(s, i, a) == IF IsXDigit(CharOf(s, i)) THEN Hex(s, i + 1, Unsigned(a * 16 + s[i][2])) ELSE [at |-> i, a |-> a]
(* Mutant: the smallest integer is not taken.                              *)
TooBigEither(a, d, neg) == a >= MAXBY10 /\ (a > MAXBY10 \/ d > MAXLASTD)
TooBig(a, d, neg) == a >= MAXBY10 /\ (a > MAXBY10 \/ d > MAXLASTD + (IF neg THEN 1 ELSE 0))
Decimal(s, i, a, neg) ==
  IF ~IsDigit(CharOf(s, i)) THEN [at |-> i, a |-> a]
  ELSE IF TooBig(a, s[i][2], neg) THEN [at |-> 0, a |-> a]
  ELSE Decimal(s, i + 1, a * 10 + s[i][2], neg)
l_str2int(s) ==
  LET start == SkipSpaces(s, 1)
      neg == CharOf(s, start) = <<"-">>
      first == IF CharOf(s, start)[1] \in {"-", "+"} THEN start + 1 ELSE start
      hex == CharOf(s, first) = Digit(0) /\ CharOf(s, first + 1) = <<"x">>
      from == IF hex THEN first + 2 ELSE first
      digits == IF hex THEN Hex(s, from, 0) ELSE Decimal(s, from, 0, neg)
  IN IF digits.at = 0 \/ digits.at = from \/ SkipSpaces(s, digits.at) # Len(s) + 1 THEN Absent
     ELSE Integer(Signed(IF neg THEN -digits.a ELSE digits.a))

(* A numeral between spaces is an integer when it is decimal and in range, *)
(* or hexadecimal, of which only the last bits count.                      *)
RECURSIVE ValueOf(_, _)
ValueOf(ds, base) == IF ds = <<>> THEN 0 ELSE ValueOf(Front(ds), base) * base + Last(ds)[2]
Numeral(w) ==
  LET signed == w # <<>> /\ w[1][1] \in {"-", "+"}
      u == IF signed THEN Tail(w) ELSE w
      sign == IF w # <<>> /\ w[1] = <<"-">> THEN -1 ELSE 1
      hex == Len(u) > 1 /\ u[1] = Digit(0) /\ u[2] = <<"x">>
      ds == IF hex THEN SubSeq(u, 3, Len(u)) ELSE u
      value == sign * ValueOf(ds, IF hex THEN 16 ELSE 10)
  IN CASE ds = <<>> \/ \E i \in DOMAIN ds : ~(IF hex THEN IsXDigit(ds[i]) ELSE IsDigit(ds[i])) -> Absent
       [] hex /\ ds # <<>> /\ \A i \in DOMAIN ds : IsXDigit(ds[i]) -> Integer(Signed(value))
       [] OTHER -> IF value \in lua_Integers THEN Integer(value) ELSE Absent
Trimmed(s) ==
  LET inner == {i \in DOMAIN s : s[i] # Space}
  IN IF inner = {} THEN <<>> ELSE SubSeq(s, CHOOSE i \in inner : \A j \in inner : i <= j, CHOOSE i \in inner : \A j \in inner : i >= j)

----------------------------------------------------------------------------
(* Parameters of the collector, as floating-point bytes.                   *)

CONSTANT MAX_LMEM
RECURSIVE luaO_ceillog2(_)
luaO_ceillog2(x) == IF x <= 1 THEN 0 ELSE 1 + luaO_ceillog2((x + 1) \div 2)
luaO_codeparam(p) ==
  LET q == (p * 128 + 99) \div 100
      log == luaO_ceillog2(q + 1) - 5
  IN IF p >= 31 * 2^7 * 100 THEN 255
     ELSE IF q < 16 THEN q ELSE (q \div 2^log - 16) + (log + 1) * 16
(* Mutant: multiplied first, however large.                                *)
ShiftedFirst(m, e, x) == IF x < MAX_LMEM THEN (x * m) \div 2^e ELSE MAX_LMEM
Shifted(m, e, x) ==
  IF x < MAX_LMEM \div 31 THEN (x * m) \div 2^e
  ELSE IF x \div 2^e < MAX_LMEM \div 31 THEN (x \div 2^e) * m ELSE MAX_LMEM
luaO_applyparam(p, x) ==
  LET bits == p \div 16
      m == IF bits > 0 THEN (p % 16) + 16 ELSE p % 16
      e == (IF bits > 0 THEN bits - 1 ELSE 0) - 7
  IN IF e < 0 THEN Shifted(m, -e, x)
     ELSE IF x < (MAX_LMEM \div 31) \div 2^e THEN (x * m) * 2^e ELSE MAX_LMEM

(* The parameter is kept to within a sixteenth, and applied to within      *)
(* another, or the result is as large as sizes get.                        *)
ParameterKept(p, x) ==
  LET y == luaO_applyparam(luaO_codeparam(p), x)
  IN /\ y \in 0..MAX_LMEM
     /\ y # MAX_LMEM => 100 * y <= (p + 1) * x
     /\ y # MAX_LMEM /\ p < 31 * 2^7 * 100 => 100 * 17 * (y + 32) >= 15 * p * x
     /\ y = MAX_LMEM => (p * (x \div 100)) * 2 >= MAX_LMEM \div 31
=============================================================================
