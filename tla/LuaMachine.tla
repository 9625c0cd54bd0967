----------------------------- MODULE LuaMachine -----------------------------
(* The instructions of the virtual machine, lvm.c, as far as the compiled  *)
(* code of the model needs them.  A value is a tuple that starts with its  *)
(* type; what calls metamethods in the program is a symbolic value         *)
(* <<"mm", event, operands>>, or an event in out, and never an error.      *)
(* The world, w, has the tables, those of varargs apart, and what the      *)
(* program did that can be seen.                                           *)
EXTENDS LuaCode

CONSTANTS Registers, MaxOut, MaxSteps

Nil == <<"nil">>
True == <<"true">>
False == <<"false">>
Int_(n) == <<"int", n>>
Bool(x) == IF x THEN True ELSE False
l_isfalse(v) == v[1] \in {"nil", "false"}
KeyOf(k) == IF k[1] = "flt" /\ k[2] % 2 = 0 THEN Int_(k[2] \div 2) ELSE k
ContentsOf(w, t) == IF t[1] = "tab" THEN w.tabs[t[2]] ELSE w.vats[t[2]]
IsTable(t) == t[1] \in {"tab", "vat"}
GetFrom(c, k) == IF k \in DOMAIN c THEN c[k] ELSE Nil
Index(w, t, k) == IF IsTable(t) THEN GetFrom(ContentsOf(w, t), KeyOf(k)) ELSE <<"mm", "index", t, k>>
Put(c, k, v) ==
  IF v # Nil THEN (k :> v) @@ c ELSE IF k \in DOMAIN c THEN [x \in DOMAIN c \ {k} |-> c[x]] ELSE c
Event(w, e) == [w EXCEPT !.out = Append(@, e)]
Store(w, t, k, v) ==
  CASE t[1] = "tab" -> [w EXCEPT !.tabs[t[2]] = Put(@, KeyOf(k), v)]
    [] t[1] = "vat" -> [w EXCEPT !.vats[t[2]] = Put(@, KeyOf(k), v)]
    [] OTHER -> Event(w, <<"set", t, k, v>>)
NewTable(w) == [w EXCEPT !.tabs = Append(@, <<>>)]
LastTable(w) == <<"tab", Len(w.tabs)>>
VarargTable(vs) ==
  [k \in {Int_(i) : i \in {j \in DOMAIN vs : vs[j] # Nil}} \cup {<<"str", "n">>} |->
     IF k[1] = "str" THEN Int_(Len(vs)) ELSE vs[k[2]]]
NewVarargs(w, vs) == [w EXCEPT !.vats = Append(@, VarargTable(vs))]
LastVarargs(w) == <<"vat", Len(w.vats)>>
Expanded(w, t) == [i \in 1..Index(w, t, <<"str", "n">>)[2] |-> Index(w, t, Int_(i))]
Length(w, t) ==
  IF IsTable(t) THEN Int_(Max({0} \cup {k[2] : k \in {x \in DOMAIN ContentsOf(w, t) : x[1] = "int"}})) ELSE <<"mm", "LEN", t>>
Arith(op, a, b) == IF IsNumber(a) /\ IsNumber(b) THEN luaO_rawarith(op, a, b) ELSE <<"mm", op, a, b>>
Unarith(op, a) == IF IsNumber(a) THEN luaO_rawarith(op, a, Int_(0)) ELSE <<"mm", op, a>>
Concatenation(a, b) == <<"mm", "CONCAT", a, b>>
luaV_rawequal(a, b) == IF IsNumber(a) /\ IsNumber(b) THEN Halves(a) = Halves(b) ELSE a = b
Comparison(op, a, b) ==     \* of an order: what is not a number is smaller, and it shows
  IF IsNumber(a) /\ IsNumber(b) THEN IF op = "LT" THEN Halves(a) < Halves(b) ELSE Halves(a) <= Halves(b) ELSE TRUE
Shown(w, op, a, b) == IF IsNumber(a) /\ IsNumber(b) THEN w ELSE Event(w, <<"order", op, a, b>>)
Take(vs, n) == [i \in 1..n |-> IF i <= Len(vs) THEN vs[i] ELSE Nil]

(* The machine m: the world, closures, the cells of upvalues, frames.      *)
Fr(m) == Last(m.fr)
R(m, x) == Last(m.fr).regs[x + 1]
K(m, x) == Last(m.fr).p.k[x + 1]
RK(m, i) == IF i.k = 1 THEN K(m, i.c) ELSE R(m, i.c)
Set(m, x, v) == [m EXCEPT !.fr[Len(m.fr)].regs[x + 1] = v]
Skip(m, n) == [m EXCEPT !.fr[Len(m.fr)].pc = @ + n]
SetMany(m, x, vs) ==
  [m EXCEPT !.fr[Len(m.fr)].regs = SubSeq(@, 1, x) \o vs \o SubSeq(@, x + Len(vs) + 1, Registers),
            !.fr[Len(m.fr)].top = x + Len(vs)]
RegsFrom(m, x, n) == [i \in 1..n |-> R(m, x + i - 1)]
World(m, w) == [m EXCEPT !.w = w]
Bad(m, what) == [m EXCEPT !.w = Event(@, <<"bad", what>>), !.done = TRUE]

CellValue(m, c) == IF m.cells[c].lv = 0 THEN m.cells[c].v ELSE m.fr[m.cells[c].lv].regs[m.cells[c].reg + 1]
UpValue(m, u) == CellValue(m, m.clos[Fr(m).fn].ups[u + 1])
SetUp(m, u, v) ==
  LET c == m.clos[Fr(m).fn].ups[u + 1] IN
  IF m.cells[c].lv = 0 THEN [m EXCEPT !.cells[c].v = v] ELSE [m EXCEPT !.fr[m.cells[c].lv].regs[m.cells[c].reg + 1] = v]
OpenAt(m, level) == {c \in DOMAIN m.cells : m.cells[c].lv = Len(m.fr) /\ m.cells[c].reg >= level}
CloseUpvals(m, level) ==
  IF OpenAt(m, level) = {} THEN m
  ELSE [m EXCEPT !.cells = <<>> \o [c \in DOMAIN @ |-> IF c \in OpenAt(m, level) THEN [lv |-> 0, reg |-> 0, v |-> CellValue(m, c)] ELSE @[c]]]
RECURSIVE CloseTbc(_, _)
CloseTbc(m, level) ==
  LET tbc == Fr(m).tbc IN
  IF tbc = <<>> \/ Last(tbc) < level THEN m
  ELSE CloseTbc([m EXCEPT !.w = Event(@, <<"close", R(m, Last(tbc))>>), !.fr[Len(m.fr)].tbc = Front(@)], level)
luaF_close(m, level) == CloseUpvals(CloseTbc(m, level), level)
newtbcupval(m, reg) == IF l_isfalse(R(m, reg)) THEN m ELSE [m EXCEPT !.fr[Len(m.fr)].tbc = Append(@, reg)]

(* The cell of a local for a new closure: the open one it has, or a new one. *)
CellsOf(m, p) ==
  LET open(u) == {c \in DOMAIN m.cells : m.cells[c].lv = Len(m.fr) /\ m.cells[c].reg = u.idx}
      fresh == {x \in DOMAIN p.ups : p.ups[x].instack /\ open(p.ups[x]) = {}}
      place(x) == Len(m.cells) + Cardinality({y \in fresh : y <= x})
  IN [ups |-> [x \in DOMAIN p.ups |->
                 IF ~p.ups[x].instack THEN m.clos[Fr(m).fn].ups[p.ups[x].idx + 1]
                 ELSE IF x \in fresh THEN place(x) ELSE CHOOSE c \in open(p.ups[x]) : TRUE],
      new |-> SetToSortSeq(fresh, <)]
PushClosure(m, ra, p, cs) ==
  Set([m EXCEPT !.cells = @ \o [x \in DOMAIN cs.new |-> [lv |-> Len(m.fr), reg |-> p.ups[cs.new[x]].idx, v |-> Nil]],
                !.clos = Append(@, [p |-> p, ups |-> cs.ups])], ra, <<"fun", Len(m.clos) + 1>>)

Frame(fn, p, args, ret, nres) ==
  [fn |-> fn, p |-> p, pc |-> 0, regs |-> Take(args, p.numparams) \o [x \in 1..(Registers - p.numparams) |-> Nil],
   extra |-> SubSeq(args, p.numparams + 1, Len(args)), hidden |-> FALSE, tbc |-> <<>>, top |-> 0, ret |-> ret, nres |-> nres]
Results(m, ret, vs, nres) ==
  IF m.fr = <<>> THEN [m EXCEPT !.done = TRUE] ELSE SetMany(m, ret, IF nres = -1 THEN vs ELSE Take(vs, nres))
Called_(m, f, args, ret, nres) ==
  CASE f[1] = "fun" -> [m EXCEPT !.fr = Append(@, Frame(f[2], m.clos[f[2]].p, args, ret, nres))]
    [] f[1] = "p" -> Results(World(m, Event(m.w, <<"p", args>>)), ret, args, nres)
    [] OTHER -> Results(World(m, Event(m.w, <<"call", f, args>>)), ret, <<<<"mm", "called", f>>>>, nres)
ArgsOf(m, a, b) == RegsFrom(m, a + 1, IF b = 0 THEN Fr(m).top - a - 1 ELSE b - 1)
Popped(m) == [m EXCEPT !.fr = Front(@)]
LeavesOpen(m, i) == i.k = 0 /\ (OpenAt(m, 0) # {} \/ Fr(m).tbc # <<>>)
Frees(m, i) == (i.c > 0) = Fr(m).hidden /\ (Fr(m).hidden => i.c = Fr(m).p.numparams + 1)
DoReturn(m, i, vs) ==
  IF LeavesOpen(m, i) \/ ~Frees(m, i) THEN Bad(m, "return")
  ELSE Results(Popped(luaF_close(m, 0)), Fr(m).ret, vs, Fr(m).nres)
TailCalled(m, i) ==
  IF LeavesOpen(m, i) \/ ~Frees(m, i) \/ Fr(m).tbc # <<>> THEN Bad(m, "tail call")
  ELSE LET f == R(m, i.a)
           args == ArgsOf(m, i.a, i.b)
           q == Popped(CloseUpvals(m, 0))
       IN IF f[1] = "fun" \/ q.fr # <<>> THEN Called_(q, f, args, Fr(m).ret, Fr(m).nres)
          ELSE [World(q, Event(q.w, IF f[1] = "p" THEN <<"p", args>> ELSE <<"call", f, args>>)) EXCEPT !.done = TRUE]

CondJump(m, holds, k) == IF holds = (k = 1) THEN m ELSE Skip(m, 1)
Ordered(m, i, op, a, b) == CondJump(World(m, Shown(m.w, op, a, b)), Comparison(op, a, b), i.k)
Immediate(i) == IF i.c = 1 THEN <<"flt", 2 * (i.b - OFFSET_sC)>> ELSE Int_(i.b - OFFSET_sC)
(* The metamethod, if it comes to it, is called by the next instruction.   *)
Computed(m, i, op, a, b) ==
  IF IsNumber(a) /\ IsNumber(b) /\ (op \in BitOps => IsInteger(a) /\ IsInteger(b))
  THEN Skip(Set(m, i.a, luaO_rawarith(op, a, b)), 1) ELSE m
MMResult(m, op, a, b, flip) ==
  Set(m, Fr(m).p.code[Fr(m).pc - 1].a, IF flip = 1 THEN <<"mm", op, b, a>> ELSE <<"mm", op, a, b>>)
RECURSIVE ConcatFrom(_, _, _)
ConcatFrom(m, x, n) == IF n = 1 THEN R(m, x) ELSE Concatenation(R(m, x), ConcatFrom(m, x + 1, n - 1))
OfK(op) == CHOOSE x \in DOMAIN KOp : KOp[x] = op
KOps == {KOp[x] : x \in DOMAIN KOp}

ForPrepared(m, i) ==
  LET init == R(m, i.a)[2]
      limit == R(m, i.a + 1)[2]
      step == R(m, i.a + 2)[2]
  IN IF \E x \in 0..2 : R(m, i.a + x)[1] # "int" THEN Bad(m, "for")
     ELSE IF (step > 0 /\ init > limit) \/ (step < 0 /\ init < limit) THEN Skip(m, i.b + 1)
     ELSE SetMany(m, i.a, <<Int_(IF step > 0 THEN (limit - init) \div step ELSE (init - limit) \div (-step)), Int_(step), Int_(init)>>)
ForLooped(m, i) ==
  IF R(m, i.a)[2] > 0
  THEN Skip(SetMany(m, i.a, <<Int_(R(m, i.a)[2] - 1), R(m, i.a + 1), Int_(R(m, i.a + 2)[2] + R(m, i.a + 1)[2])>>), -i.b)
  ELSE m
Varargs(m, i) ==
  IF i.k = 1 THEN Expanded(m.w, R(m, i.b)) ELSE Fr(m).extra
GetVararg(m, k) == GetFrom(VarargTable(Fr(m).extra), KeyOf(k))
SetListed(m, i, extra) ==
  LET n == IF i.b = 0 THEN Fr(m).top - i.a - 1 ELSE i.b
      from == i.c + extra * (MAXARG_vC + 1)
      t == R(m, i.a)
      Full[x \in 0..n] == IF x = 0 THEN m.w ELSE Store(Full[x - 1], t, Int_(from + x), R(m, i.a + x))
  IN World(m, Full[n])

(* One instruction, i; the pc of m is already that of the next one, x.     *)
Loads(m, i, x) ==
  CASE i.op = "MOVE" -> Set(m, i.a, R(m, i.b))
    [] i.op = "LOADI" -> Set(m, i.a, Int_(i.b))
    [] i.op = "LOADF" -> Set(m, i.a, <<"flt", 2 * i.b>>)
    [] i.op = "LOADK" -> Set(m, i.a, K(m, i.b))
    [] i.op = "LOADKX" -> Skip(Set(m, i.a, K(m, x.a)), 1)
    [] i.op = "LOADFALSE" -> Set(m, i.a, False)
    [] i.op = "LFALSESKIP" -> Skip(Set(m, i.a, False), 1)
    [] i.op = "LOADTRUE" -> Set(m, i.a, True)
    [] i.op = "LOADNIL" -> SetMany(m, i.a, Take(<<>>, i.b + 1))
    [] i.op = "GETUPVAL" -> Set(m, i.a, UpValue(m, i.b))
    [] i.op = "SETUPVAL" -> SetUp(m, i.b, R(m, i.a))
Tables_(m, i, x) ==
  CASE i.op = "GETTABUP" -> Set(m, i.a, Index(m.w, UpValue(m, i.b), K(m, i.c)))
    [] i.op = "GETTABLE" -> Set(m, i.a, Index(m.w, R(m, i.b), R(m, i.c)))
    [] i.op = "GETI" -> Set(m, i.a, Index(m.w, R(m, i.b), Int_(i.c)))
    [] i.op = "GETFIELD" -> Set(m, i.a, Index(m.w, R(m, i.b), K(m, i.c)))
    [] i.op = "SETTABUP" -> World(m, Store(m.w, UpValue(m, i.a), K(m, i.b), RK(m, i)))
    [] i.op = "SETTABLE" -> World(m, Store(m.w, R(m, i.a), R(m, i.b), RK(m, i)))
    [] i.op = "SETI" -> World(m, Store(m.w, R(m, i.a), Int_(i.b), RK(m, i)))
    [] i.op = "SETFIELD" -> World(m, Store(m.w, R(m, i.a), K(m, i.b), RK(m, i)))
    [] i.op = "NEWTABLE" -> Skip(Set(World(m, NewTable(m.w)), i.a, LastTable(NewTable(m.w))), 1)
    [] i.op = "SELF" -> SetMany(m, i.a, <<Index(m.w, R(m, i.b), K(m, i.c)), R(m, i.b)>>)
    [] i.op = "SETLIST" -> IF i.k = 1 THEN Skip(SetListed(m, i, x.a), 1) ELSE SetListed(m, i, 0)
Operators(m, i) ==
  CASE i.op = "ADDI" -> Computed(m, i, "ADD", R(m, i.b), Int_(i.c - OFFSET_sC))
    [] i.op = "SHRI" -> Computed(m, i, "SHR", R(m, i.b), Int_(i.c - OFFSET_sC))
    [] i.op = "SHLI" -> Computed(m, i, "SHL", Int_(i.c - OFFSET_sC), R(m, i.b))
    [] i.op \in KOps -> Computed(m, i, OfK(i.op), R(m, i.b), K(m, i.c))
    [] i.op \in Arithmetics -> Computed(m, i, i.op, R(m, i.b), R(m, i.c))
    [] i.op = "MMBIN" -> MMResult(m, i.c, R(m, i.a), R(m, i.b), i.k)
    [] i.op = "MMBINI" -> MMResult(m, i.c, R(m, i.a), Int_(i.b - OFFSET_sC), i.k)
    [] i.op = "MMBINK" -> MMResult(m, i.c, R(m, i.a), K(m, i.b), i.k)
    [] i.op \in {"UNM", "BNOT"} -> Set(m, i.a, Unarith(i.op, R(m, i.b)))
    [] i.op = "NOT" -> Set(m, i.a, Bool(l_isfalse(R(m, i.b))))
    [] i.op = "LEN" -> Set(m, i.a, Length(m.w, R(m, i.b)))
    [] i.op = "CONCAT" -> Set(m, i.a, ConcatFrom(m, i.a, i.b))
Control(m, i) ==
  CASE i.op = "CLOSE" -> luaF_close(m, i.a)
    [] i.op = "TBC" -> newtbcupval(m, i.a)
    [] i.op = "JMP" -> Skip(m, i.b)
    [] i.op = "EQ" -> CondJump(m, luaV_rawequal(R(m, i.a), R(m, i.b)), i.k)
    [] i.op = "EQK" -> CondJump(m, luaV_rawequal(R(m, i.a), K(m, i.b)), i.k)
    [] i.op = "EQI" -> CondJump(m, luaV_rawequal(R(m, i.a), Immediate(i)), i.k)
    [] i.op \in {"LT", "LE"} -> Ordered(m, i, i.op, R(m, i.a), R(m, i.b))
    [] i.op \in {"LTI", "LEI"} -> Ordered(m, i, IF i.op = "LTI" THEN "LT" ELSE "LE", R(m, i.a), Immediate(i))
    [] i.op \in {"GTI", "GEI"} -> Ordered(m, i, IF i.op = "GTI" THEN "LT" ELSE "LE", Immediate(i), R(m, i.a))
    [] i.op = "TEST" -> CondJump(m, ~l_isfalse(R(m, i.a)), i.k)
    [] i.op = "TESTSET" -> IF l_isfalse(R(m, i.b)) = (i.k = 1) THEN Skip(m, 1) ELSE Set(m, i.a, R(m, i.b))
    [] i.op = "FORPREP" -> ForPrepared(m, i)
    [] i.op = "FORLOOP" -> ForLooped(m, i)
    [] i.op = "TFORPREP" ->
         Skip(newtbcupval(SetMany(m, i.a + 2, <<R(m, i.a + 3), R(m, i.a + 2)>>), i.a + 2), i.b)
    [] i.op = "TFORCALL" -> Called_(m, R(m, i.a), <<R(m, i.a + 1), R(m, i.a + 3)>>, i.a + 3, i.c)
    [] i.op = "TFORLOOP" -> IF R(m, i.a + 3) = Nil THEN m ELSE Skip(m, -i.b)
Functions_(m, i) ==
  CASE i.op = "CALL" -> Called_(m, R(m, i.a), ArgsOf(m, i.a, i.b), i.a, i.c - 1)
    [] i.op = "TAILCALL" -> TailCalled(m, i)
    [] i.op \in {"RETURN", "RETURN0", "RETURN1"} ->
         DoReturn(m, i, RegsFrom(m, i.a, IF i.b = 0 THEN Fr(m).top - i.a ELSE i.b - 1))
    [] i.op = "CLOSURE" -> PushClosure(m, i.a, Fr(m).p.p[i.b + 1], CellsOf(m, Fr(m).p.p[i.b + 1]))
    [] i.op = "VARARG" -> IF (i.k = 1) = Fr(m).hidden THEN Bad(m, "vararg")
                          ELSE SetMany(m, i.a, IF i.c = 0 THEN Varargs(m, i) ELSE Take(Varargs(m, i), i.c - 1))
    [] i.op = "GETVARG" -> IF Fr(m).hidden THEN Set(m, i.a, GetVararg(m, R(m, i.c))) ELSE Bad(m, "vararg")
    [] i.op = "ERRNNIL" -> IF R(m, i.a) = Nil THEN m ELSE [m EXCEPT !.w = Event(@, <<"error", "global">>), !.done = TRUE]
    [] i.op = "VARARGPREP" ->
         IF Fr(m).p.vatab THEN Set(World(m, NewVarargs(m.w, Fr(m).extra)), Fr(m).p.numparams, LastVarargs(NewVarargs(m.w, Fr(m).extra)))
         ELSE [Set(m, Fr(m).p.numparams, Nil) EXCEPT !.fr[Len(m.fr)].hidden = TRUE]

LoadOps == {"MOVE", "LOADI", "LOADF", "LOADK", "LOADKX", "LOADFALSE", "LFALSESKIP", "LOADTRUE", "LOADNIL", "GETUPVAL", "SETUPVAL"}
TableOps == {"GETTABUP", "GETTABLE", "GETI", "GETFIELD", "SETTABUP", "SETTABLE", "SETI", "SETFIELD", "NEWTABLE", "SELF", "SETLIST"}
ControlOps == {"CLOSE", "TBC", "JMP", "FORPREP", "FORLOOP", "TFORPREP", "TFORCALL", "TFORLOOP"} \cup Tests
FunctionOps == {"CALL", "TAILCALL", "RETURN", "RETURN0", "RETURN1", "CLOSURE", "VARARG", "GETVARG", "ERRNNIL", "VARARGPREP"}
Instruct(m, i, x) ==
  CASE i.op \in LoadOps -> Loads(m, i, x)
    [] i.op \in TableOps -> Tables_(m, i, x)
    [] i.op \in ControlOps -> Control(m, i)
    [] i.op \in FunctionOps -> Functions_(m, i)
    [] i.op = "EXTRAARG" -> Bad(m, "extra argument")
    [] OTHER -> Operators(m, i)
luaV_execute1(m) ==
  IF Fr(m).pc \notin 0..(Len(Fr(m).p.code) - 1) THEN Bad(m, "pc")
  ELSE Instruct(Skip(m, 1), Fr(m).p.code[Fr(m).pc + 1], Fr(m).p.code[IF Fr(m).pc + 2 <= Len(Fr(m).p.code) THEN Fr(m).pc + 2 ELSE 1])
RECURSIVE luaV_execute(_, _)
luaV_execute(m, steps) ==
  IF m.done \/ Len(m.w.out) >= MaxOut THEN m
  ELSE IF steps = MaxSteps THEN Bad(m, "steps") ELSE luaV_execute(luaV_execute1(m), steps + 1)

(* The line of an instruction, from the nearest base line before it.       *)
getbaseline(f, pc) ==
  IF f.abslineinfo = <<>> \/ pc < f.abslineinfo[1].pc THEN [pc |-> -1, line |-> f.linedefined]
  ELSE f.abslineinfo[Max({i \in DOMAIN f.abslineinfo : f.abslineinfo[i].pc <= pc})]
GoodEstimate(f, pc) ==      \* what getbaseline asserts of the place where it starts to look
  LET i == pc \div MAXIWTHABS IN
  f.abslineinfo # <<>> /\ pc >= f.abslineinfo[1].pc /\ i >= 1 => i <= Len(f.abslineinfo) /\ f.abslineinfo[i].pc <= pc
luaG_getfuncline(f, pc) ==
  LET base == getbaseline(f, pc) IN base.line + FoldLeft(LAMBDA a, b : a + b, 0, SubSeq(f.lineinfo, base.pc + 2, pc + 1))

(* A program starts with the table of its globals and its arguments.       *)
Globals0 == [k \in {<<"str", "p">>, <<"str", "g">>} |-> IF k[2] = "p" THEN <<"p">> ELSE Int_(1)]
World0 == [tabs |-> <<Globals0>>, vats |-> <<>>, out |-> <<>>]
Started(p, args) ==
  [w |-> World0, clos |-> <<[p |-> p, ups |-> <<1>>]>>, cells |-> <<[lv |-> 0, reg |-> 0, v |-> <<"tab", 1>>]>>,
   fr |-> <<Frame(1, p, args, 0, 0)>>, done |-> FALSE]
Outcome(p, args) == luaV_execute(Started(p, args), 0).w.out
=============================================================================
