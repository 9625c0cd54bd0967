------------------------------ MODULE LuaMeaning -----------------------------
(* What a Lua program means, for the compiler to be measured by: its text, *)
(* which programs are legal, and what a legal one does.  An expression or  *)
(* a statement is a tuple that starts with its kind; constants are as the  *)
(* values.  Nothing here knows of registers, jumps or upvalues: a variable *)
(* is a cell, and a declaration is seen by what stands behind it.          *)
EXTENDS LuaMachine

(* The text, with the parentheses that are needed and no others.           *)
T(k) == <<[k |-> k, v |-> ""]>>
N(name) == <<[k |-> "NAME", v |-> name]>>
Symbols == [ADD |-> "+", SUB |-> "-", MUL |-> "*", MOD |-> "%", DIV |-> "/", IDIV |-> "//", BAND |-> "&", BOR |-> "|",
            SHL |-> "<<", SHR |-> ">>", CONCAT |-> "..", NE |-> "~=", EQ |-> "==", LT |-> "<", LE |-> "<=", GT |-> ">",
            GE |-> ">=", AND |-> "and", OR |-> "or"]
Signs == [NOT |-> "not", UNM |-> "-", BNOT |-> "~", LEN |-> "#"]
Levels == <<{"OR"}, {"AND"}, {"EQ", "NE", "LT", "LE", "GT", "GE"}, {"BOR"}, {"BAND"}, {"SHL", "SHR"}, {"CONCAT"}, {"ADD", "SUB"},
            {"MUL", "MOD", "DIV", "IDIV"}>>
LevelOf(e) ==
  CASE e[1] = "bin" -> CHOOSE i \in DOMAIN Levels : e[2] \in Levels[i]
    [] e[1] = "un" -> Len(Levels) + 1
    [] OTHER -> Len(Levels) + 2
Separate(parts, sep) == FlattenSeq([i \in DOMAIN parts |-> (IF i = 1 THEN <<>> ELSE T(sep)) \o parts[i]])
Tagged(name, att) == N(name) \o (IF att = "" THEN <<>> ELSE T("<") \o N(att) \o T(">"))
NamesWith(names, atts) ==
  IF Len(names) > 1 /\ atts[1] # "" /\ Cardinality(ToSet(atts)) = 1
  THEN T("<") \o N(atts[1]) \o T(">") \o Separate([i \in DOMAIN names |-> N(names[i])], ",")
  ELSE Separate([i \in DOMAIN names |-> Tagged(names[i], atts[i])], ",")

RECURSIVE Text(_)
RECURSIVE Body(_)
InParens(e, yes) == IF yes THEN T("(") \o Text(e) \o T(")") ELSE Text(e)
PrefixText(e) == InParens(e, e[1] \notin {"name", "index", "field", "call", "method", "paren"})
Texts(es) == Separate([i \in DOMAIN es |-> Text(es[i])], ",")
FieldText(f) == IF f[1] = "item" THEN Text(f[2]) ELSE T("[") \o Text(f[2]) \o T("]") \o T("=") \o Text(f[3])
ParamsText(f) ==
  Separate([i \in DOMAIN f[2] |-> N(f[2][i])] \o
           CASE f[3] = "" -> <<>> [] f[3] = "..." -> <<T("...")>> [] OTHER -> <<T("...") \o N(f[3])>>, ",")
FuncText(f) == T("(") \o ParamsText(f) \o T(")") \o Body(f[4]) \o T("end")
Text(e) ==
  CASE e[1] \in {"nil", "true", "false"} -> T(e[1])
    [] e[1] = "int" -> <<[k |-> "INT", v |-> e[2]]>>
    [] e[1] = "flt" -> <<[k |-> "FLT", v |-> e[2]]>>
    [] e[1] = "str" -> <<[k |-> "STR", v |-> e[2]]>>
    [] e[1] = "dots" -> T("...")
    [] e[1] = "name" -> N(e[2])
    [] e[1] = "index" -> PrefixText(e[2]) \o T("[") \o Text(e[3]) \o T("]")
    [] e[1] = "field" -> PrefixText(e[2]) \o T(".") \o N(e[3])
    [] e[1] = "call" -> PrefixText(e[2]) \o T("(") \o Texts(e[3]) \o T(")")
    [] e[1] = "method" -> PrefixText(e[2]) \o T(":") \o N(e[3]) \o T("(") \o Texts(e[4]) \o T(")")
    [] e[1] = "paren" -> T("(") \o Text(e[2]) \o T(")")
    [] e[1] = "un" -> T(Signs[e[2]]) \o InParens(e[3], LevelOf(e[3]) < LevelOf(e))
    [] e[1] = "bin" -> InParens(e[3], LevelOf(e[3]) < LevelOf(e) \/ (e[2] = "CONCAT" /\ LevelOf(e[3]) = LevelOf(e)))
                       \o T(Symbols[e[2]])
                       \o InParens(e[4], LevelOf(e[4]) < LevelOf(e) \/ (e[2] # "CONCAT" /\ LevelOf(e[4]) = LevelOf(e)))
    [] e[1] = "func" -> T("function") \o FuncText(e)
    [] e[1] = "cons" -> T("{") \o Separate([i \in DOMAIN e[2] |-> FieldText(e[2][i])], ",") \o T("}")
RECURSIVE IfText(_, _)
IfText(st, i) ==
  IF i > Len(st[2]) THEN (IF st[3] = <<>> THEN <<>> ELSE T("else") \o Body(st[3])) \o T("end")
  ELSE T(IF i = 1 THEN "if" ELSE "elseif") \o Text(st[2][i][1]) \o T("then") \o Body(st[2][i][2]) \o IfText(st, i + 1)
Inits(es) == IF es = <<>> THEN <<>> ELSE T("=") \o Texts(es)
StatText(st) ==
  CASE st[1] = "local" -> T("local") \o NamesWith(st[2], st[3]) \o Inits(st[4])
    [] st[1] = "global" -> N("global") \o NamesWith(st[2], st[3]) \o Inits(st[4])
    [] st[1] = "globalall" -> N("global") \o (IF st[2] = "" THEN <<>> ELSE T("<") \o N(st[2]) \o T(">")) \o T("*")
    [] st[1] = "localfunc" -> T("local") \o T("function") \o N(st[2]) \o FuncText(st[3])
    [] st[1] = "globalfunc" -> N("global") \o T("function") \o N(st[2]) \o FuncText(st[3])
    [] st[1] = "function" -> T("function") \o Separate([i \in DOMAIN st[2] |-> N(st[2][i])], ".")
                             \o (IF st[3] = "" THEN <<>> ELSE T(":") \o N(st[3])) \o FuncText(st[4])
    [] st[1] = "assign" -> Texts(st[2]) \o T("=") \o Texts(st[3])
    [] st[1] = "stat" -> Text(st[2])
    [] st[1] = "do" -> T("do") \o Body(st[2]) \o T("end")
    [] st[1] = "while" -> T("while") \o Text(st[2]) \o T("do") \o Body(st[3]) \o T("end")
    [] st[1] = "repeat" -> T("repeat") \o Body(st[2]) \o T("until") \o Text(st[3])
    [] st[1] = "if" -> IfText(st, 1)
    [] st[1] = "fornum" -> T("for") \o N(st[2]) \o T("=") \o Texts(st[3]) \o T("do") \o Body(st[4]) \o T("end")
    [] st[1] = "forin" -> T("for") \o Separate([i \in DOMAIN st[2] |-> N(st[2][i])], ",") \o T("in") \o Texts(st[3])
                          \o T("do") \o Body(st[4]) \o T("end")
    [] st[1] = "goto" -> T("goto") \o N(st[2])
    [] st[1] = "label" -> T("::") \o N(st[2]) \o T("::")
    [] st[1] = "break" -> T("break")
    [] st[1] = "return" -> T("return") \o Texts(st[2])
Body(stats) == FlattenSeq([i \in DOMAIN stats |-> StatText(stats[i])])
Program(stats) == Body(stats) \o T("EOS")

(* A function statement is an assignment.                                  *)
PathOf(names) == FoldLeft(LAMBDA e, n : <<"field", e, n>>, <<"name", Head(names)>>, Tail(names))
Plain(st) ==
  IF st[1] # "function" THEN st
  ELSE IF st[3] = "" THEN <<"assign", <<PathOf(st[2])>>, <<st[4]>>>>
  ELSE <<"assign", <<<<"field", PathOf(st[2]), st[3]>>>>, <<[st[4] EXCEPT ![2] = <<"self">> \o @]>>>>
Declares(st) ==
  CASE st[1] \in {"local", "global"} -> Len(st[2])
    [] st[1] \in {"localfunc", "globalfunc", "globalall"} -> 1
    [] OTHER -> 0
RECURSIVE DeclaredIn(_, _, _)
DeclaredIn(stats, i, j) == IF i > j THEN 0 ELSE Declares(stats[i]) + DeclaredIn(stats, i + 1, j)
LastVar(vars, P(_)) == Max({0} \cup {i \in DOMAIN vars : P(vars[i])})
VarNamed(vars, n) == LastVar(vars, LAMBDA d : d.name = n)

(* The legal programs.  A scope se has the declarations that are visible,  *)
(* the labels that are, those a goto reaches, and whether there are varargs*)
(* and a loop.                                                             *)
Decl(name, kind) == [name |-> name, kind |-> kind, c |-> 0]
GlobalKinds == {"global", "const global"}
EnvIsLocal(se) == se.vars[VarNamed(se.vars, "_ENV")].kind \notin GlobalKinds
Collectives(se) == LastVar(se.vars, LAMBDA d : d.name = "*")
LegalGlobal(se) ==
  EnvIsLocal(se) /\ (Collectives(se) # 0 \/ \A i \in DOMAIN se.vars : se.vars[i].kind \notin GlobalKinds)
LegalName(n, se) ==
  LET i == VarNamed(se.vars, n) IN
  IF i = 0 THEN LegalGlobal(se) ELSE se.vars[i].kind \in GlobalKinds => EnvIsLocal(se)
Writable(n, se) ==
  LET i == VarNamed(se.vars, n) IN
  IF i # 0 THEN se.vars[i].kind \in {"", "global"}
  ELSE Collectives(se) # 0 => se.vars[Collectives(se)].kind = "global"
RECURSIVE LegalE(_, _)
RECURSIVE LegalB(_, _, _)
AllLegal(es, se) == \A i \in DOMAIN es : LegalE(es[i], se)
LegalF(f, se) ==
  LegalB(f[4], [vars |-> se.vars \o [i \in DOMAIN f[2] |-> Decl(f[2][i], "")] \o
                         (IF f[3] \in {"", "..."} THEN <<>> ELSE <<Decl(f[3], "const")>>),
                labels |-> {}, reached |-> {}, dots |-> f[3] # "", loop |-> FALSE], FALSE)
LegalE(e, se) ==
  CASE e[1] = "dots" -> se.dots
    [] e[1] = "name" -> LegalName(e[2], se)
    [] e[1] \in {"field", "paren"} -> LegalE(e[2], se)
    [] e[1] = "un" -> LegalE(e[3], se)
    [] e[1] = "index" -> LegalE(e[2], se) /\ LegalE(e[3], se)
    [] e[1] = "bin" -> LegalE(e[3], se) /\ LegalE(e[4], se)
    [] e[1] = "call" -> LegalE(e[2], se) /\ AllLegal(e[3], se)
    [] e[1] = "method" -> LegalE(e[2], se) /\ AllLegal(e[4], se)
    [] e[1] = "func" -> LegalF(e, se)
    [] e[1] = "cons" -> \A i \in DOMAIN e[2] : AllLegal(Tail(e[2][i]), se)
    [] OTHER -> TRUE
LegalTarget(e, se) == LegalE(e, se) /\ (e[1] = "name" => Writable(e[2], se))
More(se, ds) == [se EXCEPT !.vars = @ \o ds]
DeclsOf(st) ==
  CASE st[1] = "local" -> [i \in DOMAIN st[2] |-> Decl(st[2][i], st[3][i])]
    [] st[1] = "localfunc" -> <<Decl(st[2], "")>>
    [] st[1] = "global" -> [i \in DOMAIN st[2] |-> Decl(st[2][i], IF st[3][i] = "const" THEN "const global" ELSE "global")]
    [] st[1] = "globalall" -> <<Decl("*", IF st[2] = "const" THEN "const global" ELSE "global")>>
    [] st[1] = "globalfunc" -> <<Decl(st[2], "global")>>
    [] OTHER -> <<>>
KnownAtt(a) == a \in {"", "const", "close"}
Looping(se) == [se EXCEPT !.loop = TRUE]
LoopVars(se, names) ==
  Looping(More(se, [i \in DOMAIN names |-> Decl(names[i], IF i = 1 THEN "const" ELSE "")]))
RepeatEnd_(stats, se) == More(se, FlattenSeq([i \in DOMAIN stats |-> DeclsOf(stats[i])]))
LegalS(st, se) ==
  CASE st[1] = "local" -> /\ \A i \in DOMAIN st[3] : KnownAtt(st[3][i])
                          /\ Cardinality({i \in DOMAIN st[3] : st[3][i] = "close"}) <= 1
                          /\ AllLegal(st[4], se)
    [] st[1] = "global" -> /\ \A i \in DOMAIN st[3] : st[3][i] \in {"", "const"}
                           /\ AllLegal(st[4], se)
                           /\ st[4] # <<>> => EnvIsLocal(se)
    [] st[1] = "globalall" -> st[2] \in {"", "const"}
    [] st[1] = "localfunc" -> LegalF(st[3], More(se, DeclsOf(st)))
    [] st[1] = "globalfunc" -> EnvIsLocal(More(se, DeclsOf(st))) /\ LegalF(st[3], More(se, DeclsOf(st)))
    [] st[1] = "assign" -> AllLegal(st[2], se) /\ AllLegal(st[3], se) /\ \A i \in DOMAIN st[2] : LegalTarget(st[2][i], se)
    [] st[1] = "stat" -> st[2][1] \in {"call", "method"} /\ LegalE(st[2], se)
    [] st[1] = "do" -> LegalB(st[2], se, FALSE)
    [] st[1] = "while" -> LegalE(st[2], se) /\ LegalB(st[3], Looping(se), FALSE)
    [] st[1] = "repeat" -> LegalB(st[2], Looping(se), TRUE) /\ LegalE(st[3], RepeatEnd_(st[2], se))
    [] st[1] = "if" -> /\ \A i \in DOMAIN st[2] : LegalE(st[2][i][1], se) /\ LegalB(st[2][i][2], se, FALSE)
                       /\ LegalB(st[3], se, FALSE)
    [] st[1] = "fornum" -> AllLegal(st[3], se) /\ LegalB(st[4], LoopVars(se, <<st[2]>>), FALSE)
    [] st[1] = "forin" -> AllLegal(st[3], se) /\ LegalB(st[4], LoopVars(se, st[2]), FALSE)
    [] st[1] = "goto" -> st[2] \in se.reached
    [] st[1] = "label" -> st[2] \notin se.labels
    [] st[1] = "break" -> se.loop
    [] st[1] = "return" -> AllLegal(st[2], se)
IsLabel(st) == st[1] = "label"
LabelsIn(stats, i, j) == {stats[x][2] : x \in {y \in i..j : IsLabel(stats[y])}}
AtBlockEnd(stats, j, inrepeat) == ~inrepeat /\ \A x \in j..Len(stats) : IsLabel(stats[x])
Reaches(stats, i, j, inrepeat) ==
  IsLabel(stats[j]) /\ (j < i \/ AtBlockEnd(stats, j, inrepeat) \/ DeclaredIn(stats, i, j) = 0)
ScopeAt(stats, i, se, inrepeat) ==
  [se EXCEPT !.vars = @ \o FlattenSeq([x \in 1..(i - 1) |-> DeclsOf(stats[x])]),
             !.labels = @ \cup LabelsIn(stats, 1, i - 1),
             !.reached = (@ \ LabelsIn(stats, 1, Len(stats))) \cup
                         {stats[j][2] : j \in {x \in DOMAIN stats : Reaches(stats, i, x, inrepeat)}}]
LegalB(stats, se, inrepeat) == \A i \in DOMAIN stats : LegalS(Plain(stats[i]), ScopeAt(stats, i, se, inrepeat))
MainScope == [vars |-> <<Decl("_ENV", "")>>, labels |-> {}, reached |-> {}, dots |-> TRUE, loop |-> FALSE]
Legal(stats) == LegalB(stats, MainScope, FALSE)

(* What a program does.  The state s has the world, the cells, the         *)
(* closures, the env, which has the declarations that are visible and the  *)
(* varargs, the value just computed and, in sig, why control does not go on*)
(* behind a statement.                                                     *)
EnvTable(s) == s.cells[s.env.vars[VarNamed(s.env.vars, "_ENV")].c]
IsCell(s, n) == VarNamed(s.env.vars, n) # 0 /\ s.env.vars[VarNamed(s.env.vars, n)].c # 0
CellOf(s, n) == s.env.vars[VarNamed(s.env.vars, n)].c
Yield(s, v) == [s EXCEPT !.v = v]
Does(s, w) == [s EXCEPT !.w = w]
Signal(s, sig) == [s EXCEPT !.sig = sig]
Stopped(s) == Len(s.w.out) >= MaxOut
RECURSIVE Value(_, _)
RECURSIVE Values_(_, _)
RECURSIVE Exec(_, _)
RECURSIVE Run(_, _, _, _)

One(s) == Yield(s, Take(s.v, 1)[1])
Alone(s) == Yield(s, <<s.v>>)
Behind(s, got) == Yield(s, got \o s.v)
RECURSIVE ValuesFrom(_, _, _)
Gather(s, es, got) == ValuesFrom(Tail(es), s, Append(got, s.v))
ValuesFrom(es, s, got) ==
  IF es = <<>> THEN Yield(s, got)
  ELSE IF Len(es) = 1 THEN Behind(Values_(es[1], s), got)
  ELSE Gather(Value(es[1], s), es, got)
ValueList(es, s) == ValuesFrom(es, s, <<>>)
Declare(s, names, kinds, vs) ==
  [s EXCEPT !.cells = @ \o vs,
            !.env.vars = @ \o [i \in DOMAIN names |-> [name |-> names[i], kind |-> kinds[i], c |-> Len(s.cells) + i]]]
Plains(names) == [i \in DOMAIN names |-> ""]
(* Leaving a scope closes its variables, the last one first.               *)
RECURSIVE Close(_, _)
ClosedLast(s, d) ==
  LET q == [s EXCEPT !.env.vars = Front(@)] IN
  IF d.kind = "close" /\ ~l_isfalse(s.cells[d.c]) THEN Does(q, Event(q.w, <<"close", s.cells[d.c]>>)) ELSE q
Close(s, level) == IF Len(s.env.vars) <= level THEN s ELSE Close(ClosedLast(s, Last(s.env.vars)), level)
Scope(stats, s) == Close(Run(stats, 1, Len(s.env.vars), s), Len(s.env.vars))

Within(s, cl, args) ==
  LET f == cl.f
      n == Len(f[2])
      extra == SubSeq(args, n + 1, Len(args))
      q == Declare([s EXCEPT !.env = [cl.env EXCEPT !.dots = extra, !.named = 0]], f[2], Plains(f[2]), Take(args, n))
  IN IF f[3] \in {"", "..."} THEN q
     ELSE Declare(Does([q EXCEPT !.env.named = Len(q.cells) + 1], NewVarargs(q.w, extra)), <<f[3]>>, <<"">>,
                  <<LastVarargs(NewVarargs(q.w, extra))>>)
Returned(s, env) ==
  [s EXCEPT !.env = env, !.v = IF s.sig = "return" THEN @ ELSE <<>>, !.sig = IF @ = "stop" THEN @ ELSE ""]
Apply(f, args, s) ==
  CASE Stopped(s) -> Signal(Yield(s, <<>>), "stop")
    [] f[1] = "p" -> Yield(Does(s, Event(s.w, <<"p", args>>)), args)
    [] f[1] = "fun" -> Returned(Scope(s.clos[f[2]].f[4], Within(s, s.clos[f[2]], args)), s.env)
    [] OTHER -> Yield(Does(s, Event(s.w, <<"call", f, args>>)), <<<<"mm", "called", f>>>>)
Closure(f, s) == Yield([s EXCEPT !.clos = Append(@, [f |-> f, env |-> s.env])], <<"fun", Len(s.clos) + 1>>)

CallIt(s, f, before) == Apply(f, before \o s.v, s)
CallWith_(s, args) == CallIt(ValueList(args, s), s.v, <<>>)
MethodWith(s, name, args) == CallIt(ValueList(args, s), Index(s.w, s.v, <<"str", name>>), <<s.v>>)
Values_(e, s) ==
  CASE e[1] = "dots" -> Yield(s, IF s.env.named # 0 THEN Expanded(s.w, s.cells[s.env.named]) ELSE s.env.dots)
    [] e[1] = "call" -> CallWith_(Value(e[2], s), e[3])
    [] e[1] = "method" -> MethodWith(Value(e[2], s), e[3], e[4])
    [] OTHER -> Alone(Value(e, s))
Ordered_(s, op, a, b) == Yield(Does(s, Shown(s.w, op, a, b)), Bool(Comparison(op, a, b)))
Combine(s, op, a, b) ==
  CASE op = "EQ" -> Yield(s, Bool(luaV_rawequal(a, b)))
    [] op = "NE" -> Yield(s, Bool(~luaV_rawequal(a, b)))
    [] op \in {"LT", "LE"} -> Ordered_(s, op, a, b)
    [] op \in {"GT", "GE"} -> Ordered_(s, IF op = "GT" THEN "LT" ELSE "LE", b, a)
    [] op = "CONCAT" -> Yield(s, Concatenation(a, b))
    [] OTHER -> Yield(s, Arith(op, a, b))
CombineWith(s, op, a) == Combine(s, op, a, s.v)
Second(s, e) ==
  CASE e[2] = "AND" -> IF l_isfalse(s.v) THEN s ELSE Value(e[4], s)
    [] e[2] = "OR" -> IF l_isfalse(s.v) THEN Value(e[4], s) ELSE s
    [] OTHER -> CombineWith(Value(e[4], s), e[2], s.v)
Monadic(s, op) ==
  Yield(s, CASE op = "NOT" -> Bool(l_isfalse(s.v)) [] op = "LEN" -> Length(s.w, s.v) [] OTHER -> Unarith(op, s.v))
IndexWith(s, t) == Yield(s, Index(s.w, t, s.v))
IndexBy(s, e) == IndexWith(Value(e, s), s.v)
FieldOf_(s, name) == Yield(s, Index(s.w, s.v, <<"str", name>>))
VariableOf(s, n) == IF IsCell(s, n) THEN s.cells[CellOf(s, n)] ELSE Index(s.w, EnvTable(s), <<"str", n>>)
RECURSIVE Fill(_, _, _, _)
Put_(s, t, k) == Does(s, Store(s.w, t, k, s.v))
Pair(s, e, t) == Put_(Value(e, s), t, s.v)
RECURSIVE PutAll(_, _, _, _)
PutAll(s, t, vs, n) == IF vs = <<>> THEN s ELSE PutAll(Does(s, Store(s.w, t, Int_(n), Head(vs))), t, Tail(vs), n + 1)
PutLast(s, t, n) == PutAll(s, t, s.v, n)
Fill(fs, t, n, s) ==
  IF fs = <<>> THEN Yield(s, t)
  ELSE IF Head(fs)[1] = "pair" THEN Fill(Tail(fs), t, n, Pair(Value(Head(fs)[2], s), Head(fs)[3], t))
  ELSE IF Len(fs) = 1 THEN Yield(PutLast(Values_(fs[1][2], s), t, n), t)
  ELSE Fill(Tail(fs), t, n + 1, Put_(Value(Head(fs)[2], s), t, Int_(n)))
Made(fs, s) == Fill(fs, LastTable(s.w), 1, s)
Value(e, s) ==
  CASE e[1] \in {"nil", "true", "false", "int", "flt", "str"} -> Yield(s, e)
    [] e[1] = "name" -> Yield(s, VariableOf(s, e[2]))
    [] e[1] \in {"dots", "call", "method"} -> One(Values_(e, s))
    [] e[1] = "paren" -> Value(e[2], s)
    [] e[1] = "index" -> IndexBy(Value(e[2], s), e[3])
    [] e[1] = "field" -> FieldOf_(Value(e[2], s), e[3])
    [] e[1] = "un" -> Monadic(Value(e[3], s), e[2])
    [] e[1] = "bin" -> Second(Value(e[3], s), e)
    [] e[1] = "func" -> Closure(e, s)
    [] e[1] = "cons" -> Made(e[2], Does(s, NewTable(s.w)))

(* Assignments: the targets, the values, and then the stores.              *)
RECURSIVE Refs(_, _, _)
RefAt(s, t, k, ts, refs) == Refs(ts, s, Append(refs, <<"at", t, k>>))
RefKey(s, t, ts, refs) == RefAt(s, t, s.v, ts, refs)
RefField(s, name, ts, refs) == RefAt(s, s.v, <<"str", name>>, ts, refs)
RefIndex(s, e, ts, refs) == RefKey(Value(e, s), s.v, ts, refs)
RefName(s, n, ts, refs) ==
  IF IsCell(s, n) THEN Refs(ts, s, Append(refs, <<"cell", CellOf(s, n)>>)) ELSE RefAt(s, EnvTable(s), <<"str", n>>, ts, refs)
RefOf(e, ts, s, refs) ==
  CASE e[1] = "name" -> RefName(s, e[2], ts, refs)
    [] e[1] = "field" -> RefField(Value(e[2], s), e[3], ts, refs)
    [] e[1] = "index" -> RefIndex(Value(e[2], s), e[3], ts, refs)
Refs(ts, s, refs) == IF ts = <<>> THEN Yield(s, refs) ELSE RefOf(Head(ts), Tail(ts), s, refs)
StoreRef(s, ref, v) ==
  IF ref[1] = "cell" THEN [s EXCEPT !.cells[ref[2]] = v] ELSE Does(s, Store(s.w, ref[2], ref[3], v))
RECURSIVE StoreAll(_, _, _)
StoreAll(s, refs, vs) == IF refs = <<>> THEN s ELSE StoreAll(StoreRef(s, Last(refs), Last(vs)), Front(refs), Front(vs))
StoreIn_(s, refs) == StoreAll(s, refs, Take(s.v, Len(refs)))
AssignTo(s, es) == StoreIn_(ValueList(es, s), s.v)

(* Initialised globals must not be there yet.                              *)
CheckFree(s, n) ==
  IF Index(s.w, EnvTable(s), <<"str", n>>) = Nil THEN s
  ELSE Signal(Does(s, Event(s.w, <<"error", "global">>)), "stop")
RECURSIVE Globals_(_, _, _)
Globals_(s, names, vs) ==
  IF names = <<>> THEN s
  ELSE Globals_(StoreRef(CheckFree(s, Last(names)), <<"at", EnvTable(s), <<"str", Last(names)>>>>, Last(vs)), Front(names), Front(vs))
Hide(s, ds) == [s EXCEPT !.env.vars = @ \o ds]
GlobalsFrom(s, names) == Globals_(s, names, Take(s.v, Len(names)))

Broken(s) == IF s.sig = "break" THEN Signal(s, "") ELSE s
RECURSIVE Loop(_, _)
AfterPass(s, st) == IF s.sig = "" THEN Loop(st, s) ELSE Broken(s)
WhileTest(s, st) == IF l_isfalse(s.v) THEN s ELSE AfterPass(Scope(st[3], s), st)
UntilTest(s, st) == IF s.sig = "" /\ l_isfalse(s.v) THEN Loop(st, s) ELSE Broken(s)
RepeatPass(s, st, level) == UntilTest(Close(IF s.sig = "" THEN Value(st[3], s) ELSE s, level), st)
Loop(st, s) ==
  IF Stopped(s) THEN Signal(s, "stop")
  ELSE IF st[1] = "while" THEN WhileTest(Value(st[2], s), st)
  ELSE RepeatPass(Run(st[2], 1, Len(s.env.vars), s), st, Len(s.env.vars))
Pass(st, s, names, vs) == Close(Scope(st[4], Declare(s, names, Plains(names), vs)), Len(s.env.vars))
RECURSIVE Count(_, _, _, _, _)
CountOn(s, st, i, limit, step) == IF s.sig = "" THEN Count(s, st, i, limit, step) ELSE Broken(s)
Count(s, st, i, limit, step) ==
  IF Stopped(s) THEN Signal(s, "stop")
  ELSE IF (step > 0 /\ i > limit) \/ (step < 0 /\ i < limit) THEN s
  ELSE CountOn(Pass(st, s, <<st[2]>>, <<Int_(i)>>), st, i + step, limit, step)
CountFrom(s, st) ==
  LET vs == IF Len(s.v) = 2 THEN s.v \o <<Int_(1)>> ELSE s.v IN Count(s, st, vs[1][2], vs[2][2], vs[3][2])
RECURSIVE Iterate(_, _, _, _, _)
IterateOn(s, st, f, state, control) == IF s.sig = "" THEN Iterate(s, st, f, state, control) ELSE Broken(s)
IteratePass(s, st, f, state, vs) ==
  IF s.sig = "stop" \/ vs[1] = Nil THEN s ELSE IterateOn(Pass(st, s, st[2], vs), st, f, state, vs[1])
Iterated(s, st, f, state) == IteratePass(s, st, f, state, Take(s.v, Len(st[2])))
Iterate(s, st, f, state, control) == Iterated(Apply(f, <<state, control>>, s), st, f, state)
IterateOver(s, st, vs) ==
  Close(Iterate(Declare(s, <<"(to close)">>, <<"close">>, <<vs[4]>>), st, vs[1], vs[2], vs[3]), Len(s.env.vars))
IterateFrom(s, st) == IterateOver(s, st, Take(s.v, 4))
RECURSIVE Choose_(_, _, _)
Chosen(s, st, i) == IF l_isfalse(s.v) THEN Choose_(s, st, i + 1) ELSE Scope(st[2][i][2], s)
Choose_(s, st, i) == IF i > Len(st[2]) THEN Scope(st[3], s) ELSE Chosen(Value(st[2][i][1], s), st, i)

SetCell(s) == [s EXCEPT !.cells[Last(s.env.vars).c] = s.v]
DeclareAll(s, st) == Declare(s, st[2], st[3], Take(s.v, Len(st[2])))
Return(s) == IF s.sig = "stop" THEN s ELSE Signal(s, "return")
Exec(st, s) ==
  CASE st[1] = "local" -> DeclareAll(ValueList(st[4], s), st)
    [] st[1] = "global" -> Hide(IF st[4] = <<>> THEN s ELSE GlobalsFrom(ValueList(st[4], s), st[2]), DeclsOf(st))
    [] st[1] = "globalall" -> Hide(s, DeclsOf(st))
    [] st[1] = "localfunc" -> SetCell(Closure(st[3], Declare(s, <<st[2]>>, <<"">>, <<Nil>>)))
    [] st[1] = "globalfunc" -> GlobalsFrom(Alone(Closure(st[3], Hide(s, DeclsOf(st)))), <<st[2]>>)
    [] st[1] = "assign" -> AssignTo(Refs(st[2], s, <<>>), st[3])
    [] st[1] = "stat" -> Values_(st[2], s)
    [] st[1] = "do" -> Scope(st[2], s)
    [] st[1] \in {"while", "repeat"} -> Loop(st, s)
    [] st[1] = "if" -> Choose_(s, st, 1)
    [] st[1] = "fornum" -> CountFrom(ValueList(st[3], s), st)
    [] st[1] = "forin" -> IterateFrom(ValueList(st[3], s), st)
    [] st[1] = "goto" -> [s EXCEPT !.sig = "goto", !.label = st[2]]
    [] st[1] = "label" -> s
    [] st[1] = "break" -> Signal(s, "break")
    [] st[1] = "return" -> Return(ValueList(st[2], s))
(* A goto goes on at its label, in the innermost block around it that has  *)
(* it, without what was declared behind the label.                         *)
LabelAt(stats, l) == {j \in DOMAIN stats : stats[j] = <<"label", l>>}
GoOn(stats, j, level, s) ==
  Run(stats, j + 1, level, Signal(Close(s, level + DeclaredIn(stats, 1, j)), IF Stopped(s) THEN "stop" ELSE ""))
Run(stats, i, level, s) ==
  IF s.sig = "goto" /\ LabelAt(stats, s.label) # {} THEN GoOn(stats, Min(LabelAt(stats, s.label)), level, s)
  ELSE IF s.sig # "" \/ i > Len(stats) THEN s
  ELSE Run(stats, i + 1, level, Exec(Plain(stats[i]), s))

Beginning(args) ==
  [w |-> World0, cells |-> <<<<"tab", 1>>>>, clos |-> <<[f |-> <<>>]>>, sig |-> "", label |-> "", v |-> <<>>,
   env |-> [vars |-> <<[name |-> "_ENV", kind |-> "", c |-> 1]>>, dots |-> args, named |-> 0]]
(* What can be seen of it, as far as one looks.                            *)
Seen(out) ==
  LET ends == {i \in DOMAIN out : out[i][1] = "error"} IN
  SubSeq(out, 1, Min({MaxOut, Len(out)} \cup ends))
Meaning(stats, args) == Seen(Scope(stats, Beginning(args)).w.out)
=============================================================================
