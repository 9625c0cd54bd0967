----------------------------- MODULE MCLibrary -----------------------------
(* What programs call from the core of Lua without leaving it: metatables, *)
(* which have a state, and calculations, each of which is a job of its own.*)
EXTENDS Metatables, DataLibrary, TLC

CONSTANTS MAXCCALLS, LUA_MAXCAPTURES,
          tab1, tab2, fun, other, nil, null

P == INSTANCE Patterns
L == INSTANCE LuaLexer

MCTables == {tab1, tab2}
MCPrograms == {{"__index", "x"}, {"__newindex", "n"}, {"__newindex", "x"}, {"__eq"},
               {"__len"}, {"__gc"}, {"__mode"}, {"__metatable", "__eq"}}
Symmetry == Permutations(Tables)

VARIABLE job        \* topic, and what is asked about it
NoJob == [topic |-> "none"]

Strings(A, n) == UNION {[1..k -> A] : k \in 0..n}
Topics == {"pattern", "sort", "move", "compare", "arithmetic", "loop", "numeral",
           "parameter", "encode", "decode", "pack", "unpack", "align", "quote", "lines", "bracket"}

(* Patterns of two items, and of a capture with what comes after it.       *)
Repeated == {P!One(set, rep) : set \in {"a", ".", "not a"}, rep \in {"", "*", "+", "?", "-"}}
Items == Repeated \cup {P!Item(k) : k \in {"open", "close", "pos", "balance", "end"}} \cup {P!Ref(1), P!FrontierOf("not a")}
Captured == {<<P!Item("open"), x, P!Item("close"), y>> : x, y \in Items}
            \cup {<<P!Item("open"), x, P!Item("close"), P!Ref(1), y>> : x, y \in Repeated}
Pattern ==
  \E p \in {q \in Strings(Items, 2) \cup Captured : P!WellFormed(q)}, s \in Strings({"a", "b"}, 3) :
    job' = [topic |-> "pattern", p |-> p, s |-> s]

(* Arrays with any relation for an order, and a table of four elements.    *)
Line == {<<x, y>> \in (1..3) \X (1..3) : x < y}
T == [i \in (MININT - 1)..(MAXINT + 1) |-> IF i \in 1..4 THEN i ELSE Hole]
Near == (MININT..(MININT + 2)) \cup (-2..6) \cup ((MAXINT - 4)..MAXINT)
Sort ==
  \/ \E a \in Strings(1..2, 5), less \in SUBSET ((1..2) \X (1..2)), seed \in 1..2 : job' = [topic |-> "sort", a |-> a, less |-> less, seed |-> seed]
  \/ \E a \in Strings(1..3, 6) : job' = [topic |-> "sort", a |-> a, less |-> Line, seed |-> 3]
  \/ \E a \in Strings(1..3, 4), less \in SUBSET ((1..3) \X (1..3)) :
       <<2, 1>> \in less /\ job' = [topic |-> "sort", a |-> a, less |-> less, seed |-> 3]
Move ==
  \/ \E i, e, to \in Near : job' = [topic |-> "move", f |-> i, e |-> e, to |-> to]
  \/ \E n \in 0..4, pos \in lua_Integers : job' = [topic |-> "insert", n |-> n, pos |-> pos]
  \/ \E i, last \in lua_Integers : job' = [topic |-> "visit", i |-> i, last |-> last]

(* Numbers: the loops leave out a limit that is not a number with a        *)
(* negative step, of which forlimit makes a loop down to MININT.           *)
Ints == {Integer(i) : i \in lua_Integers}
Flts == {Flt(h) : h \in Floats} \cup {NaN}
Bounds == {MININT, MININT + 1, -7, -2, -1, 0, 1, 2, 3, 8, MAXINT - 1, MAXINT}
Limits == {Integer(i) : i \in Bounds}
          \cup {Flt(h) : h \in {-Infinity, Infinity, -1, 1, 3, 2 * MININT, -2 * MININT, 2 * MININT - 8, 20, -24}} \cup {NaN}
Written == {Digit(0), Digit(1), Digit(5), Digit(6), Digit(12), <<"-">>, <<" ">>, <<"x">>}
Compare == \E l \in Ints \cup Flts, r \in Ints \cup Flts : (l.t = "int" \/ r.t = "int") /\ job' = [topic |-> "compare", l |-> l, r |-> r]
Arithmetic == \E op \in {"+", "-", "*", "//", "%", "<<", ">>"}, m, n \in lua_Integers : job' = [topic |-> "arithmetic", op |-> op, m |-> m, n |-> n]
ForLoop == \E i \in lua_Integers, step \in Bounds, limit \in Limits :
          (limit # NaN \/ step > 0) /\ job' = [topic |-> "loop", i |-> i, limit |-> limit, step |-> step]
Numerals == \E s \in Strings(Written, 4) : job' = [topic |-> "numeral", s |-> s]
Parameter ==
  \E p \in (0..1200) \cup {20000, 396799, 396800, 396801, 400000}, x \in {0, 1, 100, 1000, 5000, 516, 517, 7000, 8000} :
    job' = [topic |-> "parameter", p |-> p, x |-> x]

(* Code points around every boundary, and strings of the bytes around them.*)
Codes == (0..2100) \cup UNION {((2^n) - 3)..((2^n) + 3) : n \in {16, 21, 26, 30}}
         \cup (55290..55300) \cup {1114111, 1114112, 2147483646, 2147483647}
Encode == \E c \in Codes : job' = [topic |-> "encode", c |-> c]
Decode ==
  \/ \E s \in Strings({0, 65, 127, 128, 160, 191, 192, 193, 194, 223, 224, 237, 240, 244, 248, 252, 253, 254, 255}, 3) : job' = [topic |-> "decode", s |-> s]
  \/ \E s \in Strings({65, 128, 191, 194, 224, 255}, 5) : job' = [topic |-> "decode", s |-> s]

(* Formats of three options.                                               *)
Option(k, n) == [k |-> k, n |-> n]
Options == {Option(k, Default) : k \in {"b", "B", "j", "s", "c", "d", "z", "x", "X", "!", ">", "<"}}
           \cup {Option("i", 2), Option("i", 3), Option("i", 4), Option("i", 9), Option("I", 4), Option("I", 1),
                 Option("s", 1), Option("s", 4), Option("c", 2), Option("c", 0), Option("!", 2)}
Formats == Strings(Options, 2)
Ending == {g \o <<x>> : g \in {<<Option("!", Default)>> \o h : h \in Formats}, x \in {Option("b", Default), Option("i", 2)}}
Integral == {"b", "B", "i", "I", "j"}
ArgsOf(opt) ==
  IF opt.k \in Integral THEN {IntArg(n) : n \in {-8, -3, -2, -1, 0, 1, 2, 3, 7}}
  ELSE IF opt.k \in {"s", "c", "z"} THEN {StrArg(s) : s \in {<<>>, <<1>>, <<2, 3>>, <<0, 1, 2>>, <<1, 1, 1, 1>>}}
  ELSE {FltArg(<<1, 2>>)}
FewOf(opt) ==
  IF opt.k \in Integral THEN {IntArg(n) : n \in {-8, -1, 1}}
  ELSE IF opt.k \in {"s", "c", "z"} THEN {StrArg(s) : s \in {<<1>>, <<2, 3>>}} ELSE {FltArg(<<1, 2>>)}
ArgLists(fmt, taking) ==
  CASE Len(taking) = 0 -> {<<>>}
    [] Len(taking) = 1 -> {<<a>> : a \in ArgsOf(fmt[taking[1]])}
    [] Len(taking) = 2 -> {<<a, b>> : a \in ArgsOf(fmt[taking[1]]), b \in FewOf(fmt[taking[2]])}
    [] OTHER -> {<<a, b, c>> : a, b \in FewOf(fmt[taking[1]]) \cup FewOf(fmt[taking[2]]), c \in FewOf(fmt[taking[3]])}
Suits(fmt, taking, args) == \A i \in DOMAIN args : args[i] \in ArgsOf(fmt[taking[i]])
Pack == \E fmt \in Formats \cup Ending : \E args \in ArgLists(fmt, Taking(fmt)) :
          Suits(fmt, Taking(fmt), args) /\ job' = [topic |-> "pack", fmt |-> fmt, args |-> args]
Unpack == \E fmt \in Formats, data \in Strings({0, 1, 3}, 3) : job' = [topic |-> "unpack", fmt |-> fmt, data |-> data]
Align == \E fmt \in {g \in Formats : \A i \in DOMAIN g : g[i].k # "!"}, max, size \in 1..4 :
           job' = [topic |-> "align", fmt |-> fmt, max |-> max, size |-> size]

(* Texts of the characters that scanning treats apart.                     *)
Quote == \E s \in Strings({0, 10, 13, 34, 92, 49, 122, 65, 200, 127}, 4) : job' = [topic |-> "quote", s |-> s]
Lines == \E s \in Strings({10, 13, 91, 93, 61, 45, 65, 34, 92}, 4) : job' = [topic |-> "lines", s |-> s]
Bracket == \E s \in Strings({10, 13, 93, 61, 65}, 5), level \in 0..2 : job' = [topic |-> "bracket", s |-> s, level |-> level]

----------------------------------------------------------------------------
MCInit == Init /\ job = NoJob
(* Calculations are asked for before anything else has happened. *)
UseMetatables == job = NoJob /\ Next /\ UNCHANGED job
Fresh == Init /\ program = {"__eq"}
Choose == job = NoJob /\ Fresh /\ \E topic \in Topics : job' = [topic |-> "choose", of |-> topic]
Calculate ==
  /\ job.topic = "choose"
  /\ \/ job.of = "pattern" /\ Pattern
     \/ job.of = "sort" /\ Sort
     \/ job.of = "move" /\ Move
     \/ job.of = "compare" /\ Compare
     \/ job.of = "arithmetic" /\ Arithmetic
     \/ job.of = "loop" /\ ForLoop
     \/ job.of = "numeral" /\ Numerals
     \/ job.of = "parameter" /\ Parameter
     \/ job.of = "encode" /\ Encode
     \/ job.of = "decode" /\ Decode
     \/ job.of = "pack" /\ Pack
     \/ job.of = "unpack" /\ Unpack
     \/ job.of = "align" /\ Align
     \/ job.of = "quote" /\ Quote
     \/ job.of = "lines" /\ Lines
     \/ job.of = "bracket" /\ Bracket
MCNext == UseMetatables \/ ((Choose \/ Calculate) /\ UNCHANGED vars)
MCSpec == MCInit /\ [][MCNext]_<<vars, job>>

----------------------------------------------------------------------------
(* Calculations, each compared to what it is for.                          *)

(* A pattern matches as its items say: backtracking in match finds the     *)
(* leftmost choice of repetitions in their order of preference, captures   *)
(* included, whatever captures were undone on the way.  gmatch visits, and *)
(* gsub replaces, the same matches: they do not overlap, and none is empty *)
(* where the last one ended.                                               *)
Once(p, s, all) == P!gmatch(s, P!Text(p)) = all /\ P!str_gsub(s, P!Text(p), <<"x">>, 9) = P!Replaced(s, all, 1, <<"x">>)
PatternsMatch ==
  job.topic = "pattern" =>
    /\ P!str_find_aux(job.s, P!Text(job.p), 1, FALSE) = P!Leftmost(P!Matched(job.p, job.s))
    /\ Once(job.p, job.s, P!AllMatches(P!Matched(job.p, job.s), 1, 0))

(* table.sort, of any function that is given for an order: no index out of *)
(* the array is used and no element lost; of an order, it is sorted.       *)
(* move, insert and remove put each element where they should, whatever    *)
(* overlaps, or refuse; concat and unpack visit each: no index wraps around*)
(* at the largest integer.                                                 *)
ArraysHold ==
  /\ job.topic = "sort" => SortIsRight(job.a, job.less, sort(job.a, job.less, job.seed))
  /\ job.topic = "move" => tmove(T, job.f, job.e, job.to) = Moved(T, job.f, job.e, job.to)
  /\ job.topic = "insert" => /\ tinsert(T, job.n, job.pos, 9) = Inserted(T, job.n, job.pos, 9)
                             /\ tremove(T, job.n, job.pos) = Removed(T, job.n, job.pos)
  /\ job.topic = "visit" => VisitsAll(job.i, job.last, 12)

(* Integers and floats compare as the numbers they stand for, also where   *)
(* converting either would round.  Integer operations are those of the     *)
(* integers modulo 2^NBITS, and division rounds down, of the least integer *)
(* too.  A numerical loop visits what its bounds say and ends: its counter *)
(* never wraps around, whatever the limit.  A string is converted to the   *)
(* integer it denotes, or to none.  A parameter of the collector survives  *)
(* its coding in one byte.                                                 *)
NumbersExact ==
  /\ job.topic = "compare" => ComparedExactly(job.l, job.r)
  /\ job.topic = "arithmetic" => ArithmeticWraps(job.op, job.m, job.n)
  /\ job.topic = "loop" => LoopVisits(Integer(job.i), job.limit, Integer(job.step))
  /\ job.topic = "numeral" => l_str2int(job.s) = Numeral(Trimmed(job.s))
  /\ job.topic = "parameter" => ParameterKept(job.p, job.x)

(* A code point has one encoding, and only it decodes to it; what decodes  *)
(* is the shortest encoding; len, codepoint, offset and codes see the same *)
(* characters in a string.                                                 *)
CharactersAgree ==
  /\ job.topic = "encode" => L!RoundTrip(job.c)
  /\ job.topic = "decode" => L!OnlyShortest(job.s) /\ \A strict \in BOOLEAN : L!FunctionsAgree(job.s, strict)

(* What pack writes, unpack reads back, and packsize foretells; unpack     *)
(* reads inside of its data only, and padding falls where it should.       *)
PackedReadsBack ==
  /\ job.topic = "pack" => PackedIsUnpacked(job.fmt, job.args)
  /\ job.topic = "unpack" => UnpackedIsThere(job.fmt, job.data)
  /\ job.topic = "align" => Aligned(job.fmt, job.max, job.size)

(* What format("%q") writes is read by the scanner as the same string.     *)
(* Whatever the text, the scanner counts its lines, inside tokens too, and *)
(* a long bracket ends at the first closing bracket of its level.          *)
TextsScanned ==
  /\ job.topic = "quote" => L!QuotedIsRead(job.s)
  /\ job.topic = "lines" => L!LinesCounted(job.s)
  /\ job.topic = "bracket" => L!LongBracketsHold(job.s, job.level)
=============================================================================
