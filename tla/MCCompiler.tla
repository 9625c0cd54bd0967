----------------------------- MODULE MCCompiler ------------------------------
(* Lua programs are compiled by LuaParser and run by LuaMachine; LuaMeaning*)
(* says which of them are legal and what they do.                          *)
EXTENDS LuaParser, LuaMeaning

Nm(n) == <<"name", n>>
I_(n) == <<"int", n>>
S_(s) == <<"str", s>>
Call(f, args) == <<"call", f, args>>
P(args) == <<"stat", Call(Nm("p"), args)>>
Local(names, es) == <<"local", names, [i \in DOMAIN names |-> ""], es>>
Att(name, att, e) == <<"local", <<name>>, <<att>>, <<e>>>>
Let(n, e) == Local(<<n>>, <<e>>)
Fn(ps, va, b) == <<"func", ps, va, b>>
Bin(op, x, y) == <<"bin", op, x, y>>
Not(x) == <<"un", "NOT", x>>
Ret(es) == <<"return", es>>
Assign1(t, e) == <<"assign", <<t>>, <<e>>>>
If(c, x) == <<"if", <<<<c, x>>>>, <<>>>>
IfElse(c, x, y) == <<"if", <<<<c, x>>>>, y>>
Do(b) == <<"do", b>>
Field_(t, n) == <<"field", t, n>>
At(t, k) == <<"index", t, k>>
Items_(es) == <<"cons", [i \in DOMAIN es |-> <<"item", es[i]>>]>>
InFunction(b) == <<<<"localfunc", "f", Fn(<<"a">>, "...", b)>>, P(<<Call(Nm("f"), <<I_(3), I_(4), I_(6)>>), Nm("u"), Nm("g")>>)>>

(* An expression in a place; a is a local, u an upvalue, c a constant, e a *)
(* global that is nil, t a table.                                          *)
Around(b) ==
  <<Let("u", I_(7))>> \o
  InFunction(<<Att("c", "const", I_(5)), Let("t", <<"cons", <<<<"pair", S_("x"), Nm("a")>>>>>>)>> \o b)
Atoms == {I_(2), I_(40), <<"flt", 3>>, S_("s"), Nm("a"), Nm("c"), Nm("u"), Bin("AND", Nm("a"), Nm("g"))}
Operations(op) == {Bin(op, x, y) : x \in Atoms, y \in Atoms}
Singles == Atoms \cup {<<"nil">>, <<"flt", 4>>, <<"dots">>, Field_(Nm("t"), "x"), Not(Nm("a")), Bin("EQ", Nm("a"), I_(3)), <<"true">>, <<"false">>, S_(LongString[2]), <<"un", "UNM", Nm("a")>>, <<"un", "BNOT", I_(2)>>, <<"un", "LEN", Nm("t")>>,
                       Nm("e"), Call(Nm("p"), <<Nm("a"), <<"dots">>>>), <<"paren", <<"dots">>>>, At(Nm("t"), S_("x")),
                       <<"method", Nm("t"), "x", <<>>>>, Field_(Field_(Nm("g"), "x"), LongString[2]), Fn(<<>>, "", <<>>), Bin("ADD", Nm("a"), I_(2))}
Places(e) ==
  {<<Ret(<<e>>)>>, <<Ret(<<e, e>>)>>, <<Let("b", e), P(<<Nm("b"), Nm("a")>>)>>, <<Assign1(Nm("a"), e), P(<<Nm("a")>>)>>,
   <<Assign1(Nm("u"), e)>>, <<Assign1(Nm("g"), e)>>, <<Assign1(Field_(Nm("t"), "x"), e), P(<<Field_(Nm("t"), "x")>>)>>,
   <<Assign1(At(Nm("t"), I_(20)), e), P(<<At(Nm("t"), I_(20))>>)>>, <<Assign1(At(Nm("t"), I_(1)), e), P(<<At(Nm("t"), I_(1))>>)>>,
   <<Assign1(At(Nm("t"), e), I_(8)), P(<<At(Nm("t"), e)>>)>>, <<Let("b", e), Assign1(At(Nm("t"), Nm("b")), e), P(<<At(Nm("t"), Nm("b"))>>)>>,
   <<IfElse(e, <<P(<<I_(1)>>)>>, <<P(<<I_(2)>>)>>)>>, <<IfElse(Not(e), <<P(<<I_(1)>>)>>, <<P(<<I_(2)>>)>>)>>,
   <<<<"while", e, <<P(<<e>>), <<"break">>>>>>>>, <<Att("b", "const", e), P(<<Nm("b")>>), <<"localfunc", "h", Fn(<<>>, "", <<Ret(<<Nm("b")>>)>>)>>, P(<<Call(Nm("h"), <<>>)>>)>>,
   <<Att("b", "close", e), Ret(<<Call(Nm("p"), <<e>>)>>)>>, <<P(<<Items_(<<e, e, I_(1)>>)>>)>>, <<Ret(<<Call(Nm("p"), <<e>>)>>)>>,
   <<Local(<<"b", "c2">>, <<e>>), P(<<Nm("b"), Nm("c2")>>)>>, <<Let("b", Bin("CONCAT", Nm("a"), Bin("CONCAT", e, S_("s")))), P(<<Nm("b")>>)>>}

(* Conditions.                                                             *)
Leaves == {Nm("a"), Bin("LT", Nm("a"), Nm("u")), Not(Nm("e"))}
Pairs(op) == {Bin(op, x, y) : x \in Leaves, y \in Leaves}
Conditions(op, op2) ==
  UNION {{Bin(op2, x, z), Bin(op2, z, x), Bin(op2, Not(x), z)} : x \in Pairs(op), z \in Leaves}
ConditionPlaces(e) ==
  {<<IfElse(e, <<P(<<I_(1)>>)>>, <<P(<<I_(2)>>)>>), Let("b", e), Assign1(Nm("a"), e), Ret(<<Nm("b"), Nm("a"), Not(e)>>)>>}

(* Comparisons with numbers, written as floats or not, alone and at the end*)
(* of an and or an or.  Mixed are those of an integer that comes before a  *)
(* float at such an end: GTI and GEI take the integer for a float, and pass*)
(* it to a metamethod as one (lcode.c 1639-1657).                          *)
Numbers_ == {I_(3), <<"flt", 6>>, <<"flt", 3>>, I_(40), <<"flt", 80>>}
Compounds == {Bin("OR", Nm("t"), x) : x \in Numbers_} \cup {Bin("AND", Nm("t"), <<"flt", 6>>)}
Compares(op) ==
  UNION {{Bin(op, x, y), Bin(op, y, x)} : x \in Numbers_ \cup {Nm("t"), Nm("a")}, y \in Compounds}
Mixed(e) == e[2] \in {"LT", "LE"} /\ e[3] = I_(3) /\ e[4][1] = "bin" /\ e[4][4] \in {<<"flt", 6>>, <<"flt", 80>>}
ComparePlaces(e) == {<<Ret(<<e, I_(1)>>)>>, <<IfElse(e, <<P(<<I_(1)>>)>>, <<P(<<I_(2)>>)>>)>>}

(* Loops around a local x, with two of the things one can do in them, and  *)
(* what is left of the closures after them.                                *)
Keeper(x) == Assign1(At(Nm("fs"), Nm("i")), Fn(<<>>, "", <<Ret(<<Nm(x), Nm("i")>>)>>))
AtTwo(st) == If(Bin("EQ", Nm("i"), I_(2)), <<st>>)
Bits ==
  {Keeper("x"), AtTwo(<<"break">>), AtTwo(<<"goto", "next">>), AtTwo(Ret(<<Nm("x")>>)), Att("y", "close", Bin("ADD", Nm("i"), I_(50))),
   Do(<<Let("w", Nm("i")), Keeper("w"), AtTwo(<<"break">>)>>), Assign1(Nm("x"), I_(0)), <<"local", <<"y", "z">>, <<"const", "">>, <<I_(4)>>>>,
   <<"fornum", "j", <<I_(2), I_(1), <<"un", "UNM", I_(1)>>>>, <<P(<<Nm("j")>>), AtTwo(<<"goto", "next">>)>>>>}
Bits2 == {Keeper("x"), AtTwo(<<"break">>), AtTwo(<<"goto", "next">>), Att("y", "close", Bin("ADD", Nm("i"), I_(50))),
          Do(<<Let("w", Nm("i")), Keeper("w"), AtTwo(<<"break">>)>>)}
Iterator == <<"localfunc", "n", Fn(<<"s", "c">>, "", <<If(Bin("LT", Nm("c"), Nm("s")), <<Ret(<<Bin("ADD", Nm("c"), I_(1)), S_("v")>>)>>)>>)>>
Counted == Assign1(Nm("i"), Bin("ADD", Nm("i"), I_(1)))
LoopsOver(b) ==
  {<<Let("i", I_(0)), <<"while", Bin("LT", Nm("i"), I_(3)), <<Counted>> \o b>>>>,
   <<Let("i", I_(0)), <<"repeat", <<Counted>> \o b, Bin("AND", Bin("GE", Nm("i"), I_(3)), Nm("x"))>>>>,
   <<<<"fornum", "i", <<I_(1), I_(3)>>, b>>>>,
   <<Iterator, <<"forin", <<"i", "v">>, <<Nm("n"), I_(3), I_(0), S_("end")>>, b>>>>}
Ended(b) == b \o <<<<"label", "next">>, P(<<Nm("i"), Nm("x")>>)>>
LeftOver(k) == Bin("AND", At(Nm("fs"), I_(k)), Call(At(Nm("fs"), I_(k)), <<>>))
LoopsWith(bit) ==
  UNION {{<<Let("fs", <<"cons", <<>>>>)>> \o l \o <<P(<<LeftOver(1), LeftOver(2)>>)>>
          : l \in LoopsOver(Ended(<<Let("x", Bin("ADD", Nm("i"), I_(0))), bit, bit2>>))} : bit2 \in Bits2}

(* Labels, gotos and declarations in a row.                                *)
GotoL == If(Call(Nm("p"), <<Nm("a")>>), <<<<"goto", "l">>>>)
GotoM == If(Bin("EQ", Call(Nm("p"), <<Nm("a")>>), I_(3)), <<Assign1(Nm("a"), I_(4)), <<"goto", "m">>>>)
Closed_ == Do(<<Let("z", Nm("a")), <<"localfunc", "h", Fn(<<>>, "", <<Ret(<<Nm("z")>>)>>)>>, GotoL>>)
Row == {<<"label", "l">>, <<"label", "m">>, GotoL, GotoM, Local(<<"x">>, <<Fn(<<>>, "", <<>>)>>), Att("y", "const", I_(1)),
        Closed_, Do(<<GotoL, <<"label", "l">>>>), Att("z", "close", Nm("a"))}
Rows(st) ==
  {Around(<<st, st2, st3>>) : st2 \in Row, st3 \in Row}
  \cup {Around(<<<<"repeat", <<st, st2, st3>>, Nm("a")>>>>) : st2 \in {GotoL, Closed_}, st3 \in {<<"label", "l">>, GotoL, Closed_}}

(* Names and their declarations, used here and in a function.              *)
Declarations_ ==
  {Att("x", "const", I_(1)), Att("x", "const", Nm("g")), Let("x", I_(1)), Att("x", "close", I_(1)), <<"local", <<"x", "y">>, <<"close", "close">>, <<>>>>,
   <<"local", <<"y", "x">>, <<"const", "const">>, <<I_(1), I_(2)>>>>, <<"global", <<"x">>, <<"">>, <<>>>>, <<"global", <<"x", "g">>, <<"const", "const">>, <<>>>>,
   <<"global", <<"y", "x">>, <<"", "">>, <<I_(4), I_(5)>>>>, <<"global", <<"x">>, <<"close">>, <<>>>>, <<"globalall", "">>, <<"globalall", "const">>,
   <<"global", <<"p", "_ENV">>, <<"", "">>, <<>>>>, <<"localfunc", "x", Fn(<<>>, "", <<Ret(<<Nm("x")>>)>>)>>, <<"globalfunc", "x", Fn(<<>>, "", <<Ret(<<Nm("x")>>)>>)>>,
   Let("_ENV", <<"cons", <<<<"pair", S_("p"), Nm("p")>>, <<"pair", S_("x"), I_(6)>>>>>>), Att("x", "fixed", I_(1)), P(<<Nm("g")>>)}
Uses == {<<Assign1(Nm("x"), I_(2)), P(<<Nm("x")>>)>>, <<P(<<Bin("EQ", Nm("x"), Nm("y"))>>)>>, <<<<"function", <<"x">>, "", Fn(<<>>, "", <<>>)>>, P(<<Nm("x")>>)>>,
         <<P(<<Bin("EQ", Nm("x"), I_(1)), Nm("y")>>), <<"assign", <<Nm("x"), Nm("y")>>, <<Nm("y"), Nm("x")>>>>, P(<<Bin("EQ", Nm("x"), Nm("y"))>>)>>}
Declared_ == {d \in Declarations_ : d[1] \in {"global", "globalall", "localfunc"}} \cup {Att("x", "const", I_(1)), Let("x", I_(1)), P(<<Nm("g")>>)}
Names(d) ==
  UNION {{<<d, d2>> \o use : use \in Uses} \cup {<<d, <<"localfunc", "f", Fn(<<>>, "", <<d2>> \o use)>>, <<"stat", Call(Nm("f"), <<>>)>>>> : use \in Uses}
         : d2 \in Declared_}

(* Assignments to several targets.                                         *)
Targets_ == {Nm("i"), Nm("t"), Nm("u"), Nm("ut"), Nm("y"), At(Nm("t"), Nm("i")), Field_(Nm("t"), "x"), Field_(Nm("ut"), "z"), At(Nm("ut"), Nm("u"))}
News == {<<I_(1), S_("b")>>, <<Nm("i"), Nm("t"), Nm("u")>>, <<Bin("ADD", Nm("i"), I_(1)), <<"dots">>>>, <<<<"nil">>, <<"nil">>>>}
Valid(e, n) == e \in {Nm("t"), Nm("ut")} => n \notin {<<I_(1), S_("b")>>, <<<<"nil">>, <<"nil">>>>}
Sightings == <<P(<<Nm("i"), Nm("u"), At(Nm("t2"), I_(8)), Field_(Nm("t2"), "x"), Field_(Nm("ut2"), "z"), At(Nm("ut2"), I_(7)), Nm("y"), Bin("EQ", Nm("t"), Nm("t2"))>>)>>
Assignments_(e) ==
  {<<Let("u", I_(7)), Let("ut", <<"cons", <<>>>>), Let("ut2", Nm("ut"))>> \o
   InFunction(<<Let("i", I_(8)), Let("t", <<"cons", <<<<"pair", S_("x"), I_(1)>>>>>>), Let("t2", Nm("t")), <<"assign", ts, n>>>> \o Sightings)
   : ts \in {<<e, e2>> : e2 \in Targets_ \ {e}} \cup {<<e, e2, e3>> : e2 \in {Nm("i"), Nm("t"), Nm("ut"), Nm("u")} \ {e}, e3 \in {Nm("t")} \ {e}}, n \in News}

(* Constructors by length, and with pairs and open ends.                   *)
Constructors(n) ==
  LET items == [i \in 1..n |-> <<"item", IF i % 3 = 0 THEN Nm("a") ELSE I_(i)>>]
      pair == <<"pair", S_("x"), Call(Nm("p"), <<I_(0)>>)>>
      looks == <<P(<<<<"un", "LEN", Nm("t")>>, At(Nm("t"), I_(1)), At(Nm("t"), I_(n)), Field_(Nm("t"), "x"), At(Nm("t"), Bin("ADD", I_(n), I_(1)))>>)>>
  IN {Around(<<Let("t", <<"cons", fs>>)>> \o looks)
      : fs \in {items, items \o <<<<"item", <<"dots">>>>>>, <<pair>> \o items, items \o <<pair>>, items \o <<<<"item", Call(Nm("p"), <<I_(2), I_(4)>>)>>, pair>>,
                items \o <<<<"item", Call(Nm("p"), <<I_(2), I_(4)>>)>>>>, <<<<"item", <<"dots">>>>>> \o items, items \o <<pair, <<"pair", S_("y"), I_(1)>>, <<"item", <<"paren", <<"dots">>>>>>>>}}

(* Functions: their parameters, what they do with varargs, how they return.*)
VarargUses ==
  {<<>>, <<P(<<<<"dots">>>>)>>, <<P(<<At(Nm("v"), I_(1)), Field_(Nm("v"), "n"), At(Nm("v"), Nm("b"))>>)>>, <<P(<<Field_(Nm("v"), "n")>>), Ret(<<<<"dots">>>>)>>,
   <<Assign1(At(Nm("v"), I_(2)), S_("new")), P(<<<<"dots">>>>)>>, <<Assign1(Field_(Nm("v"), "n"), I_(1)), Ret(<<<<"dots">>>>)>>, <<Assign1(Nm("v"), I_(1))>>,
   <<Let("w", Nm("v")), P(<<At(Nm("w"), I_(2)), <<"dots">>>>)>>, <<<<"localfunc", "h", Fn(<<"q">>, "", <<Ret(<<At(Nm("v"), Nm("q"))>>)>>)>>, Ret(<<Call(Nm("h"), <<I_(1)>>)>>)>>,
   <<<<"localfunc", "h", Fn(<<>>, "", <<Ret(<<<<"dots">>>>)>>)>>>>, <<Ret(<<Call(Nm("p"), <<<<"dots">>>>)>>)>>, <<Ret(<<Nm("b"), Call(Nm("p"), <<I_(1), I_(2)>>)>>)>>,
   <<Att("c", "close", Nm("b")), Ret(<<Call(Nm("p"), <<<<"dots">>>>)>>)>>, <<Do(<<Let("z", Nm("b")), <<"localfunc", "h", Fn(<<>>, "", <<Ret(<<Nm("z")>>)>>)>>, Ret(<<Call(Nm("h"), <<>>)>>)>>)>>,
   <<Ret(<<Bin("AND", Nm("b"), Call(Nm("p"), <<I_(1)>>)), <<"paren", Call(Nm("p"), <<I_(1), I_(2)>>)>>>>)>>, <<Let("w", I_(4)), Ret(<<Nm("w"), Nm("b"), Nm("w")>>)>>}
Functions(va) ==
  UNION {{<<Let("t", Items_(<<I_(5)>>)), <<"function", <<"t", "m">>, k, Fn(<<"b">>, va, use)>>>> \o
          (IF k = "" THEN <<P(<<Call(Field_(Nm("t"), "m"), args), S_("end")>>), P(<<Call(Field_(Nm("t"), "m"), args)>>)>>
           ELSE <<P(<<<<"method", Field_(Nm("t"), "m"), k, args>>>>)>>)
          : k \in {"", "k"}, args \in {<<>>, <<I_(1), I_(2), I_(3)>>, <<S_("s"), <<"dots">>>>}} : use \in VarargUses}

(* Locals that get their nil together, or do not.                          *)
Nils == {Local(<<"x">>, <<>>), Local(<<"y", "z">>, <<>>), If(Nm("a"), <<Assign1(Nm("a"), <<"nil">>)>>),
         Let("b", Bin("AND", Nm("e"), <<"nil">>)), <<"assign", <<Nm("a"), Nm("g")>>, <<<<"nil">>>>>>, <<"label", "l">>}
Used == Do(<<Local(<<"x", "y", "z", "b">>, <<I_(1), I_(2), I_(3), I_(4)>>)>>)
NilRows(st) == {Around(<<Used, st, st2, st3, P(<<Nm("x"), Nm("y"), Nm("a"), Nm("b")>>)>>) : st2 \in Nils, st3 \in Nils}

CONSTANT Subjects
MixedTopics == {<<"mixed", op>> : op \in {"LT", "LE"}}
Topics ==
  {<<"operations", op>> : op \in DOMAIN Symbols} \cup {<<"places", e>> : e \in Singles}
  \cup {<<"conditions", op, op2>> : op \in {"AND", "OR"}, op2 \in {"AND", "OR"}} \cup {<<"loops", bit>> : bit \in Bits}
  \cup {<<"rows", st>> : st \in Row} \cup {<<"names", d>> : d \in Declarations_} \cup {<<"assignments", e>> : e \in Targets_}
  \cup {<<"compares", op>> : op \in {"LT", "LE", "GT", "GE", "EQ", "NE"}} \cup {<<"constructors", n>> : n \in {0, 1, 2, 3, 4, 7, 9}} \cup {<<"functions", va>> : va \in {"", "...", "v"}} \cup {<<"nils", st>> : st \in Nils}
JobsOf(x) ==
  CASE x[1] = "operations" -> {Around(<<Ret(<<e, I_(1)>>)>>) : e \in Operations(x[2])}
    [] x[1] = "places" -> {Around(b) : b \in Places(x[2])}
    [] x[1] = "conditions" -> UNION {{Around(b) : b \in ConditionPlaces(e)} : e \in Conditions(x[2], x[3])}
    [] x[1] = "compares" -> UNION {{Around(b) : b \in ComparePlaces(e)} : e \in {c \in Compares(x[2]) : ~Mixed(c)}}
    [] x[1] = "mixed" -> UNION {{Around(b) : b \in ComparePlaces(e)} : e \in {c \in Compares(x[2]) : Mixed(c)}}
    [] x[1] = "loops" -> LoopsWith(x[2])
    [] x[1] = "rows" -> Rows(x[2])
    [] x[1] = "names" -> Names(x[2])
    [] x[1] = "assignments" -> Assignments_(x[2])
    [] x[1] = "constructors" -> Constructors(x[2])
    [] x[1] = "functions" -> Functions(x[2])
    [] x[1] = "nils" -> NilRows(x[2])

(* A state is one program: a topic is chosen, and then one of its programs *)
(* and the lines its tokens stand on.                                      *)
VARIABLES topic, job, lay
vars == <<topic, job, lay>>
Layouts == <<<<1, 3>>, <<5, 1>>, <<2, 3>>>>
LayoutsOf(x) == IF x[1] = "constructors" THEN Range(Layouts) ELSE {Layouts[3]}
Init == topic \in Subjects /\ job = <<>> /\ lay = Layouts[1]
Next == job = <<>> /\ job' \in JobsOf(topic) /\ lay' \in LayoutsOf(topic) /\ UNCHANGED topic
Spec == Init /\ [][Next]_vars

Args0 == <<I_(11), I_(12)>>
Compiled(stats) == luaY_parser(Program(stats), lay')

(* What the compiler makes of a program it accepts does what the program   *)
(* means, call by call, closed variable by closed variable, up to MaxOut   *)
(* of them; and no lua_assert of the compiler fails on any program.        *)
Ran(x, stats) == x.bad = {} /\ (x.err = "" => Seen(Outcome(x.main, Args0)) = Meaning(stats, Args0))
RunsAsMeant == [][Ran(Compiled(job'), job')]_vars

(* The one pass accepts the legal programs and no others: no goto into the *)
(* scope of a local or to a label that is not seen, no assignment to what  *)
(* is constant in any enclosing function, no global that is not declared.  *)
Accepted(x, stats) == x.err = "" <=> Legal(stats)
JudgedTopics == {"places", "loops", "rows", "names", "assignments", "functions"}
CompilesLegal == [][topic[1] \in JudgedTopics => Accepted(Compiled(job'), job')]_vars

(* The line that the debug information gives for an instruction is the one *)
(* it was compiled for, however lines jump and instructions were removed   *)
(* or given another line, and the search for it starts before it.          *)
RECURSIVE Protos(_)
Protos(f) == {f} \cup UNION {Protos(f.p[i]) : i \in DOMAIN f.p}
LineFound(f, pc) == GoodEstimate(f, pc) /\ luaG_getfuncline(f, pc) = f.lines[pc + 1]
Lined(x) == x.err = "" => \A f \in Protos(x.main) : \A pc \in 0..(Len(f.code) - 1) : LineFound(f, pc)
LinedTopics == {"places", "loops", "constructors", "functions"}
LinesFound == [][topic[1] \in LinedTopics => Lined(Compiled(job'))]_vars
=============================================================================
