---------------------------- MODULE DataLibrary -----------------------------
(***************************************************************************)
(* The table library, src/luavm/src/ltablib.c: sort with whatever order it *)
(* is given, and the functions that move and visit elements by integer     *)
(* indices, which wrap around as all integers do.                          *)
(***************************************************************************)
EXTENDS Numbers
LOCAL INSTANCE Bitwise

CONSTANTS RANLIMIT, IMBALANCE   \* 100 and 128 in the code

ASSUME RANLIMIT >= 4 /\ IMBALANCE > 0

----------------------------------------------------------------------------
(* sort.  The order is any relation, as the function given may be anything.*)
(* A state of the sort has the array, whether it failed, and what indices  *)
(* were used.                                                              *)

SortStart(a) == [a |-> a, failed |-> FALSE, used |-> {}]
Use(st, i) == [st EXCEPT !.used = @ \cup {i}]
set2(st, i, j) == [st EXCEPT !.a[i] = st.a[j], !.a[j] = st.a[i], !.used = @ \cup {i, j}]
SortError(st) == [st EXCEPT !.failed = TRUE]
SwapIf(st, less, i, j) == IF <<st.a[i], st.a[j]>> \in less THEN set2(st, i, j) ELSE Use(Use(st, i), j)

RECURSIVE GoUp(_, _, _, _, _), GoDown(_, _, _, _, _), partition(_, _, _, _, _)
(* Up to the first element that is not before the pivot, and down to the   *)
(* first that is not after it; an index out of the part proves the order   *)
(* wrong.                                                                  *)
GoUp(st, less, pivot, i, up) ==
  IF <<st.a[i], pivot>> \notin less THEN [st |-> Use(st, i), at |-> i]
  ELSE IF i = up - 1 THEN [st |-> SortError(Use(st, i)), at |-> i]
  ELSE GoUp(Use(st, i), less, pivot, i + 1, up)
GoDown(st, less, pivot, j, i) ==
  IF <<pivot, st.a[j]>> \notin less THEN [st |-> Use(st, j), at |-> j]
  ELSE IF j < i THEN [st |-> SortError(Use(st, j)), at |-> j]
  ELSE GoDown(Use(st, j), less, pivot, j - 1, i)
partition(st, less, i, j, up) ==
  LET pivot == st.a[up - 1]
      u == GoUp(st, less, pivot, i + 1, up)
      d == GoDown(u.st, less, pivot, j - 1, u.at)
  IN IF u.st.failed THEN u
     ELSE IF d.st.failed THEN d
     ELSE IF d.at < u.at THEN [st |-> set2(d.st, up - 1, u.at), at |-> u.at]
     ELSE partition(set2(d.st, u.at, d.at), less, u.at, d.at, up)

choosePivot(lo, up, rnd) == LET r4 == (up - lo) \div 4 IN (((rnd ^^ lo) ^^ up) % (r4 * 2)) + lo + r4
Pivot(lo, up, rnd) == IF up - lo < RANLIMIT \/ rnd = 0 THEN (lo + up) \div 2 ELSE choosePivot(lo, up, rnd)
(* a[lo], a[p] and a[up] are put in order.                                 *)
(* Mutant: the last is compared to the first once only.                    *)
MedianOfTwo(st, less, lo, p, up) == SwapIf(st, less, p, lo)
Median(st, less, lo, p, up) ==
  IF <<st.a[p], st.a[lo]>> \in less THEN set2(st, p, lo) ELSE SwapIf(st, less, up, p)

RECURSIVE auxsort(_, _, _, _, _, _)
auxsort(st, less, lo, up, rnd, seed) ==
  IF lo >= up \/ st.failed THEN st
  ELSE LET ends == SwapIf(st, less, up, lo)
           p == Pivot(lo, up, rnd)
           three == Median(ends, less, lo, p, up)
           cut == partition(set2(three, p, up - 1), less, lo, up - 1, up)
           Reseed(size, rest) == IF rest \div IMBALANCE > size THEN seed ELSE rnd
       IN IF up - lo = 1 THEN ends
          ELSE IF up - lo = 2 THEN three
          ELSE IF cut.st.failed THEN cut.st
          ELSE IF cut.at - lo < up - cut.at
          THEN auxsort(auxsort(cut.st, less, lo, cut.at - 1, rnd, seed), less, cut.at + 1, up,
                       Reseed(cut.at - lo, up - cut.at - 1), seed)
          ELSE auxsort(auxsort(cut.st, less, cut.at + 1, up, rnd, seed), less, lo, cut.at - 1,
                       Reseed(up - cut.at, cut.at - 1 - lo), seed)
sort(a, less, seed) == auxsort(SortStart(a), less, 1, Len(a), 0, seed)

----------------------------------------------------------------------------
(* Tables that are functions on integers; Hole where there is nothing.      *)

CONSTANT Hole
seti(t, i, v) == [t EXCEPT ![i] = v]
ArgError == <<>>

RECURSIVE MoveUp(_, _, _), MoveDown(_, _, _)
MoveUp(t, i, pos) == IF i <= pos THEN t ELSE MoveUp(seti(t, i, t[i - 1]), i - 1, pos)
tinsert(t, n, pos, v) ==
  LET e == Signed(n + 1)
  IN IF Unsigned(pos - 1) >= Unsigned(e) THEN ArgError ELSE seti(MoveUp(t, e, pos), pos, v)
MoveDown(t, pos, n) == IF pos >= n THEN seti(t, pos, Hole) ELSE MoveDown(seti(t, pos, t[pos + 1]), pos + 1, n)
tremove(t, n, pos) ==
  IF pos # n /\ Unsigned(pos - 1) > Unsigned(n) THEN ArgError ELSE MoveDown(t, pos, n)

(* Within one table, the order depends on how the ranges overlap.          *)
RECURSIVE Copy(_, _, _, _)
Copy(t, f, to, is) == IF is = <<>> THEN t ELSE Copy(seti(t, to + Head(is), t[f + Head(is)]), f, to, Tail(is))
(* Mutant: upwards when the destination is above.                          *)
ForwardAbove(f, e, to) == to >= f
Forward(f, e, to) == to > e \/ to <= f
tmove(t, f, e, to) ==
  LET n == e - f + 1
      forward == [i \in 1..n |-> i - 1]
  IN IF e < f THEN t
     ELSE IF ~(f > 0 \/ e < Signed(MAXINT + f)) THEN ArgError
     ELSE IF to > MAXINT - n + 1 THEN ArgError
     ELSE Copy(t, f, to, IF Forward(f, e, to) THEN forward ELSE Reverse(forward))

(* The indices visited: concat and unpack stop at the last by equality, as *)
(* it may be the largest integer.                                          *)
RECURSIVE Visit(_, _)
Visit(i, last) == IF i < last THEN <<i>> \o Visit(Signed(i + 1), last) ELSE IF i = last THEN <<i>> ELSE <<>>
tconcat(i, last) == Visit(i, last)
tunpack(i, e, INT_MAX) ==
  IF i > e THEN <<>> ELSE IF Unsigned(e - i) >= INT_MAX THEN ArgError ELSE Visit(i, e)

----------------------------------------------------------------------------
(* What they should do.                                                    *)

IsOrder(less, a) ==         \* a strict weak order of the elements
  LET V == ToSet(a)
  IN /\ \A x \in V : <<x, x>> \notin less
     /\ \A x, y, z \in V : <<x, y>> \in less /\ <<y, z>> \in less => <<x, z>> \in less
     /\ \A x, y, z \in V : <<x, y>> \in less => <<x, z>> \in less \/ <<z, y>> \in less
Permuted(a, b) ==
  Len(a) = Len(b) /\ \A x \in ToSet(a) \cup ToSet(b) :
    Cardinality({i \in DOMAIN a : a[i] = x}) = Cardinality({i \in DOMAIN b : b[i] = x})
(* Whatever the order, the elements are all there and no index is outside; *)
(* of a true order there is no complaint, and the array is sorted.         *)
SortIsRight(a, less, st) ==
  /\ Permuted(a, st.a)
  /\ st.used \subseteq DOMAIN a
  /\ IsOrder(less, a) =>
       ~st.failed /\ \A i, j \in DOMAIN a : i < j => <<st.a[j], st.a[i]>> \notin less

Visited(i, last) == [n \in 1..(last - i + 1) |-> i + n - 1]
VisitsAll(i, last, INT_MAX) ==
  /\ tconcat(i, last) = Visited(i, last)
  /\ tunpack(i, last, INT_MAX) = IF last - i >= INT_MAX THEN ArgError ELSE Visited(i, last)
Moved(t, f, e, to) ==
  IF e < f THEN t
  ELSE IF e - f + 1 > MAXINT \/ to + (e - f) > MAXINT THEN ArgError
  ELSE [i \in DOMAIN t |-> IF i \in to..(to + e - f) THEN t[f + (i - to)] ELSE t[i]]
Inserted(t, n, pos, v) ==
  IF pos \notin 1..(n + 1) THEN ArgError
  ELSE [i \in DOMAIN t |-> IF i = pos THEN v ELSE IF i \in (pos + 1)..(n + 1) THEN t[i - 1] ELSE t[i]]
Removed(t, n, pos) ==
  IF pos \notin 1..(n + 1) /\ ~(n = 0 /\ pos = 0) THEN ArgError
  ELSE [i \in DOMAIN t |-> IF i = Max({pos, n}) THEN Hole ELSE IF i \in pos..(n - 1) THEN t[i + 1] ELSE t[i]]

----------------------------------------------------------------------------
(***************************************************************************)
(* string.pack, string.packsize and string.unpack of                       *)
(* src/luavm/src/lstrlib.c.                                                *)
(*                                                                         *)
(* A format is a sequence of options [k, n]: the letter, and the number    *)
(* written after it (Default when there is none).  A byte has NB bits and  *)
(* a lua_Integer SZINT bytes.  The machine is little-endian; the bytes of  *)
(* a float are given as it has them.                                       *)
(***************************************************************************)

CONSTANTS NB, SZINT, MAXINTSIZE, MAX_SIZE, SIZEOF_INT, SIZEOF_FLOAT, MaxAlign

ASSUME NB > 0 /\ SZINT > 0 /\ SZINT < MAXINTSIZE /\ SIZEOF_INT \in 1..MAXINTSIZE /\ MAX_SIZE \in Nat

MC == 2^NB - 1
IntModulus == 2^(NB * SZINT)
ToUnsigned(n) == n % IntModulus
ToSigned(n) == IF ToUnsigned(n) >= IntModulus \div 2 THEN ToUnsigned(n) - IntModulus ELSE ToUnsigned(n)
Default == -1
Pad == 0
Bad == <<"error">>                  \* in the place of a value
BadBytes == <<-1>>                  \* in the place of bytes, or of a size
IntArg(n) == <<"int", n>>
StrArg(s) == <<"str", s>>
FltArg(bytes) == <<"float", bytes>>

----------------------------------------------------------------------------
(* Options.  A state h has islittle and maxalign.                          *)

initheader == [islittle |-> TRUE, maxalign |-> 1]
Sized(k, size) == [k |-> k, size |-> size]
BadOption == Sized("bad", 0)
getnumlimit(k, n, df) == LET sz == IF n = Default THEN df ELSE n IN IF sz \in 1..MAXINTSIZE THEN Sized(k, sz) ELSE BadOption
getoption(o) ==
  CASE o.k = "b" -> Sized("Kint", 1)
    [] o.k = "B" -> Sized("Kuint", 1)
    [] o.k = "j" -> Sized("Kint", SZINT)
    [] o.k = "i" -> getnumlimit("Kint", o.n, SIZEOF_INT)
    [] o.k = "I" -> getnumlimit("Kuint", o.n, SIZEOF_INT)
    [] o.k = "s" -> getnumlimit("Kstring", o.n, SZINT)
    [] o.k = "c" -> IF o.n = Default THEN BadOption ELSE Sized("Kchar", o.n)
    [] o.k = "d" -> Sized("Kdouble", SIZEOF_FLOAT)
    [] o.k = "z" -> Sized("Kzstr", 0)
    [] o.k = "x" -> Sized("Kpadding", 1)
    [] o.k = "X" -> Sized("Kpaddalign", 0)
    [] o.k = "!" -> LET m == getnumlimit("Knop", o.n, MaxAlign) IN IF m = BadOption THEN m ELSE Sized("Knop", 0)
    [] OTHER -> Sized("Knop", 0)
Header(h, o) ==
  CASE o.k = "<" -> [h EXCEPT !.islittle = TRUE]
    [] o.k = ">" -> [h EXCEPT !.islittle = FALSE]
    [] o.k = "!" -> [h EXCEPT !.maxalign = IF o.n = Default THEN MaxAlign ELSE o.n]
    [] OTHER -> h

(* The next option, the bytes before it that align it after totalsize      *)
(* bytes, and the rest of the format; "X" takes the alignment, and no      *)
(* more, of the option that follows.                                       *)
ispow2(n) == \E e \in 0..n : n = 2^e
(* Mutant: the largest alignment does not bound the others.                *)
AlignmentAny(h, size) == size
Alignment(h, size) == IF size > h.maxalign THEN h.maxalign ELSE size
Padding(total, align) == (align - (total % align)) % align
Details(h, opt, ntoalign, rest) == [h |-> h, opt |-> opt, ntoalign |-> ntoalign, rest |-> rest]
WithPadding(h, total, opt, align, rest) ==
  IF ispow2(align) THEN Details(h, opt, Padding(total, align), rest) ELSE Details(h, BadOption, 0, <<>>)
(* sizer is the option itself or, for an "X", the one after it.            *)
DetailsOf(h, total, opt, sizer, rest) ==
  IF sizer = BadOption \/ (opt.k = "Kpaddalign" /\ (sizer.k = "Kchar" \/ sizer.size = 0)) THEN Details(h, BadOption, 0, <<>>)
  ELSE IF sizer.size <= 1 \/ opt.k = "Kchar" THEN Details(h, opt, 0, rest)
  ELSE WithPadding(h, total, opt, Alignment(h, sizer.size), rest)
getdetails(h, total, fmt) ==
  IF Head(fmt).k = "X"
  THEN IF Len(fmt) = 1 THEN Details(h, BadOption, 0, <<>>)
       ELSE DetailsOf(Header(h, fmt[2]), total, getoption(Head(fmt)), getoption(fmt[2]), Tail(Tail(fmt)))
  ELSE DetailsOf(Header(h, Head(fmt)), total, getoption(Head(fmt)), getoption(Head(fmt)), Tail(fmt))

----------------------------------------------------------------------------
(* Integers.                                                               *)

Ordered(bytes, islittle) == IF islittle THEN bytes ELSE Reverse(bytes)      \* also copywithendian
(* Mutant: the bytes beyond a lua_Integer are zero.                        *)
packintZero(n, islittle, size, neg) == Ordered([i \in 1..size |-> IF i > SZINT THEN 0 ELSE (n \div 2^(NB * (i - 1))) % (MC + 1)], islittle)
packint(n, islittle, size, neg) ==
  Ordered([i \in 1..size |-> IF i > SZINT THEN (IF neg THEN MC ELSE 0) ELSE (n \div 2^(NB * (i - 1))) % (MC + 1)], islittle)
FitsSigned(n, size) == size >= SZINT \/ n \in (-(2^(size * NB - 1)))..(2^(size * NB - 1) - 1)
FitsUnsigned(n, size) == size >= SZINT \/ ToUnsigned(n) < 2^(size * NB)

LittleEndian(b) == FoldRight(LAMBDA x, a : a * (MC + 1) + x, b, 0)
Narrow(res, size, issigned) ==
  IF issigned /\ size < SZINT /\ res >= 2^(size * NB - 1) THEN res - 2^(size * NB) ELSE ToSigned(res)
unpackordered(b, issigned) ==
  IF Len(b) <= SZINT THEN IntArg(Narrow(LittleEndian(b), Len(b), issigned))
  ELSE LET value == ToSigned(LittleEndian(SubSeq(b, 1, SZINT)))
       IN IF \A i \in (SZINT + 1)..Len(b) : b[i] = (IF issigned /\ value < 0 THEN MC ELSE 0) THEN IntArg(value) ELSE Bad
unpackint(bytes, islittle, issigned) == unpackordered(Ordered(bytes, islittle), issigned)

----------------------------------------------------------------------------
(* Packing: what is added for each option, from the argument if it takes   *)
(* one.                                                                    *)

Takes(opt) == opt.k \notin {"Kpadding", "Kpaddalign", "Knop"}
IsInt(a) == a[1] = "int"
IsStr(a) == a[1] = "str"
Zeros(n) == [i \in 1..n |-> Pad]
Packed(opt, h, a) ==
  CASE opt.k = "Kint" -> IF IsInt(a) /\ FitsSigned(a[2], opt.size) THEN packint(ToUnsigned(a[2]), h.islittle, opt.size, a[2] < 0) ELSE BadBytes
    [] opt.k = "Kuint" -> IF IsInt(a) /\ FitsUnsigned(a[2], opt.size) THEN packint(ToUnsigned(a[2]), h.islittle, opt.size, FALSE) ELSE BadBytes
    [] opt.k = "Kdouble" -> IF a[1] = "float" THEN Ordered(a[2], h.islittle) ELSE BadBytes
    [] opt.k = "Kchar" -> IF IsStr(a) /\ Len(a[2]) <= opt.size THEN a[2] \o Zeros(opt.size - Len(a[2])) ELSE BadBytes
    [] opt.k = "Kstring" -> IF IsStr(a) /\ FitsUnsigned(Len(a[2]), opt.size) THEN packint(Len(a[2]), h.islittle, opt.size, FALSE) \o a[2] ELSE BadBytes
    [] opt.k = "Kzstr" -> IF IsStr(a) /\ \A i \in DOMAIN a[2] : a[2][i] # 0 THEN a[2] \o <<0>> ELSE BadBytes
    [] opt.k = "Kpadding" -> <<Pad>>
    [] OTHER -> <<>>
RECURSIVE pack(_, _, _, _), packTo(_, _, _, _)
packTo(d, out, bytes, args) ==
  IF d.opt = BadOption \/ d.opt.size + d.ntoalign > MAX_SIZE - Len(out) \/ bytes = BadBytes THEN BadBytes
  ELSE pack(d.h, out \o Zeros(d.ntoalign) \o bytes, d.rest, IF Takes(d.opt) THEN Tail(args) ELSE args)
packOne(d, out, args) == packTo(d, out, Packed(d.opt, d.h, IF Takes(d.opt) /\ args # <<>> THEN Head(args) ELSE BadBytes), args)
pack(h, out, fmt, args) == IF fmt = <<>> THEN out ELSE packOne(getdetails(h, Len(out), fmt), out, args)
str_pack(fmt, args) == pack(initheader, <<>>, fmt, args)

RECURSIVE packsize(_, _, _), sizeOne(_, _)
sizeOne(d, total) ==
  IF d.opt.k \in {"bad", "Kstring", "Kzstr"} \/ total > MAX_SIZE - d.opt.size - d.ntoalign THEN BadBytes
  ELSE packsize(d.h, total + d.opt.size + d.ntoalign, d.rest)
packsize(h, total, fmt) == IF fmt = <<>> THEN <<total>> ELSE sizeOne(getdetails(h, total, fmt), total)
str_packsize(fmt) == packsize(initheader, 0, fmt)

(* Unpacking: the values, then the next position.  at counts the bytes     *)
(* before, and a string ends with a zero that is not counted.              *)
ZeroAfter(data, at) ==
  LET zeros == {i \in (at + 1)..Len(data) : data[i] = 0} IN IF zeros = {} THEN Len(data) - at ELSE (CHOOSE i \in zeros : \A j \in zeros : i <= j) - at - 1
Item(value, size) == [value |-> value, size |-> size]
StringFits(len, left) == len <= left
UnpackedString(int, size, data, at) ==
  IF int = Bad THEN Item(Bad, 0)
  ELSE LET len == ToUnsigned(int[2])
       IN IF StringFits(len, Len(data) - at) THEN Item(StrArg(SubSeq(data, at + 1, at + len)), size + len) ELSE Item(Bad, 0)
UnpackedZero(zlen, data, at) ==
  IF at + zlen < Len(data) THEN Item(StrArg(SubSeq(data, at + 1, at + zlen)), zlen + 1) ELSE Item(Bad, 0)
Unpacked(opt, h, data, at) ==
  LET bytes == SubSeq(data, at + 1, at + opt.size)
  IN CASE opt.k \in {"Kint", "Kuint"} -> Item(unpackint(bytes, h.islittle, opt.k = "Kint"), opt.size)
       [] opt.k = "Kdouble" -> Item(FltArg(Ordered(bytes, h.islittle)), opt.size)
       [] opt.k = "Kchar" -> Item(StrArg(bytes), opt.size)
       [] opt.k = "Kstring" -> UnpackedString(unpackint(bytes, h.islittle, FALSE), opt.size, data, at + opt.size)
       [] opt.k = "Kzstr" -> UnpackedZero(ZeroAfter(data, at), data, at)
       [] OTHER -> Item(<<"none">>, opt.size)
BadResults == <<Bad>>
Results(value, rest) == IF rest = BadResults THEN rest ELSE IF value = <<"none">> THEN rest ELSE <<value>> \o rest
RECURSIVE unpack(_, _, _, _), unpackOne(_, _, _), unpackRest(_, _, _, _)
unpackRest(d, data, at, item) ==
  IF item.value = Bad THEN BadResults ELSE Results(item.value, unpack(d.h, data, d.rest, at + item.size))
unpackOne(d, data, at) ==
  IF d.opt = BadOption \/ d.ntoalign + d.opt.size > Len(data) - at THEN BadResults
  ELSE unpackRest(d, data, at + d.ntoalign, Unpacked(d.opt, d.h, data, at + d.ntoalign))
unpack(h, data, fmt, at) == IF fmt = <<>> THEN <<IntArg(at + 1)>> ELSE unpackOne(getdetails(h, at, fmt), data, at)
(* Where pos is in a string (posrelatI), before it is checked.             *)
posrelatI(pos, len) == IF pos > 0 THEN pos ELSE IF pos = 0 \/ pos < -len THEN 1 ELSE len + pos + 1
str_unpack(fmt, data, pos) ==
  LET at == posrelatI(pos, Len(data)) - 1 IN IF at > Len(data) THEN BadResults ELSE unpack(initheader, data, fmt, at)

----------------------------------------------------------------------------
(* What is packed is unpacked as it was, to its end, and packsize knows    *)
(* its size.                                                               *)
Widened(a, o) == IF o.k = "c" /\ a # Bad /\ IsStr(a) THEN StrArg(a[2] \o Zeros(o.n - Len(a[2])))
                 ELSE IF o.k \in {"I", "B"} /\ getoption(o).size < SZINT THEN IntArg(ToUnsigned(a[2])) ELSE a
(* The options of a format that take an argument: the one after "X" does   *)
(* not.                                                                    *)
Taking(fmt) == SelectSeq([i \in DOMAIN fmt |-> i], LAMBDA i : Takes(getoption(fmt[i])) /\ ~(i > 1 /\ fmt[i - 1].k = "X"))
Variable(fmt) == \E i \in DOMAIN fmt : fmt[i].k \in {"s", "z"} /\ ~(i > 1 /\ fmt[i - 1].k = "X")
ReadsBack(fmt, args, s, taking) ==
  /\ str_unpack(fmt, s, 1) = [i \in 1..Len(taking) |-> Widened(args[i], fmt[taking[i]])] \o <<IntArg(Len(s) + 1)>>
  /\ str_packsize(fmt) = IF Variable(fmt) THEN BadBytes ELSE <<Len(s)>>
PackedIsUnpacked(fmt, args) == LET s == str_pack(fmt, args) IN s # BadBytes => ReadsBack(fmt, args, s, Taking(fmt))
(* What is unpacked comes from the data: it ends inside, and packed again  *)
(* it gives the bytes that were read, but for padding.                     *)
ThereAgain(fmt, r, again) ==
  /\ again = BadBytes \/ Len(again) = Last(r)[2] - 1
  /\ again # BadBytes => str_unpack(fmt, again, 1) = r
ThereOnce(fmt, data, r) ==
  r # BadResults => Last(r)[2] \in 1..(Len(data) + 1) /\ ThereAgain(fmt, r, str_pack(fmt, Front(r)))
UnpackedIsThere(fmt, data) == ThereOnce(fmt, data, str_unpack(fmt, data, 1))
(* An aligned option starts at a multiple of its size, or of the largest   *)
(* alignment.                                                              *)
Aligned(fmt, max, size) ==
  LET whole == <<[k |-> "!", n |-> max]>> \o fmt
      d == str_packsize(whole \o <<[k |-> "X", n |-> Default], [k |-> "i", n |-> size]>>)
  IN d # BadBytes => d[1] % (IF size > max THEN max ELSE size) = 0
=============================================================================
