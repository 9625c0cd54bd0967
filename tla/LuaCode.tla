------------------------------ MODULE LuaCode -------------------------------
(* The code generator of the Lua compiler, lcode.c: what it does to the    *)
(* code of a function and to the descriptors of the expressions being      *)
(* compiled.  The state r of the compiler is one record:                   *)
(*   s, i, lay   the tokens, the current one, the lines they stand on;     *)
(*   fs          the functions being compiled, the innermost last;         *)
(*   vars, n     dyd.actvar, of which n declarations are active;           *)
(*   gts, labels dyd.gt and dyd.label;                                     *)
(*   e, o        the expression at hand, and the other one of an operation;*)
(*   lhs         the targets of the assignments being compiled;            *)
(*   err, bad    the first error, and the assertions that failed.          *)
(* An instruction is [op, a, b, c, k]; the offset of a JMP is its b.  Its  *)
(* pc counts from 0.  A constant is a tuple that starts with its type, and *)
(* a float <<"flt", h>> is h halves.                                       *)
EXTENDS Integers, FiniteSets, SequencesExt

CONSTANTS MAXARG_C,       \* the largest index in GETI, twice the largest immediate operand
          MAXINDEXRK,     \* the largest index of a constant in an operand
          MAXARG_Bx,      \* the largest constant of a LOADK
          MAXARG_vC,      \* the items SETLIST counts without an extra argument
          MAX_FSTACK,     \* the registers of a function
          LIMLINEDIFF, MAXIWTHABS   \* how far lines go without an absolute one

NO_JUMP == -1
NO_REG == 1000
LUA_MULTRET == -1
ABSLINEINFO == -1000
OFFSET_sC == MAXARG_C \div 2
OFFSET_sBx == MAXARG_Bx \div 2
LongString == <<"str", "a string too long for a short one">>
int2sC(i) == i + OFFSET_sC

Instruction(op, a, b, c, k) == [op |-> op, a |-> a, b |-> b, c |-> c, k |-> k]
init_exp(k, i) == [k |-> k, info |-> i, vidx |-> 0, v |-> <<"nil">>, tab |-> 0, idx |-> 0, keystr |-> -1, ro |-> 0,
                   t |-> NO_JUMP, f |-> NO_JUMP]
Valued(k, v) == [init_exp(k, 0) EXCEPT !.v = v]
hasjumps(e) == e.t # e.f

Top(r) == Len(r.fs)
Fs(r) == r.fs[Len(r.fs)]
Pc(r) == Len(Fs(r).code)
CodeAt(r, pc) == Fs(r).code[pc + 1]
Swap(r) == [r EXCEPT !.e = r.o, !.o = r.e]
Other(Do(_), r) == Swap(Do(Swap(r)))
SetE(r, e) == [r EXCEPT !.e = e]

lua_assert(r, what, holds) == IF r.err # "" \/ holds THEN r ELSE [r EXCEPT !.bad = @ \cup {what}]
Err(r, what) == [r EXCEPT !.err = IF @ = "" THEN what ELSE @, !.i = Len(r.s), !.e = init_exp("VNIL", 0)]
luaY_checklimit(r, v, l, what) == IF v > l THEN Err(r, what) ELSE r

(* Lines: token i stands on a line that the layout of the job gives.       *)
LineAt(r, i) == 1 + (i * r.lay[1]) \div r.lay[2]
linenumber(r) == LineAt(r, r.i)
lastline(r) == LineAt(r, r.i - 1)
Distance(a, b) == IF a < b THEN b - a ELSE a - b

savelineinfo(f, line) ==
  LET far == Distance(line, f.previousline) >= LIMLINEDIFF \/ f.iwthabs >= MAXIWTHABS IN
  [f EXCEPT !.abslineinfo = IF far THEN Append(@, [pc |-> Len(f.code) - 1, line |-> line]) ELSE @,
            !.lineinfo = Append(@, IF far THEN ABSLINEINFO ELSE line - f.previousline),
            !.iwthabs = IF far THEN 1 ELSE @ + 1,
            !.previousline = line,
            !.lines = Append(@, line)]
(* Mutant: the instruction after a removed absolute line may be relative.  *)
removelastlineinfoRelative(f) ==
  LET d == Last(f.lineinfo) IN
  [f EXCEPT !.previousline = IF d = ABSLINEINFO THEN @ ELSE @ - d, !.lineinfo = Front(@), !.lines = Front(@),
            !.iwthabs = @ - 1, !.abslineinfo = IF d = ABSLINEINFO THEN Front(@) ELSE @]
removelastlineinfo(f) ==
  LET d == Last(f.lineinfo) IN
  IF d # ABSLINEINFO
  THEN [f EXCEPT !.previousline = @ - d, !.iwthabs = @ - 1, !.lineinfo = Front(@), !.lines = Front(@)]
  ELSE [f EXCEPT !.abslineinfo = Front(@), !.iwthabs = MAXIWTHABS + 1, !.lineinfo = Front(@), !.lines = Front(@)]
removelastinstruction(r) == [r EXCEPT !.fs[Len(r.fs)] = [removelastlineinfo(@) EXCEPT !.code = Front(@)]]
luaK_fixline(r, line) ==
  IF r.err # "" THEN r ELSE
  lua_assert([r EXCEPT !.fs[Len(r.fs)] = savelineinfo(removelastlineinfo(@), line)], "last absolute line",
             Last(Fs(r).lineinfo) = ABSLINEINFO => Last(Fs(r).abslineinfo).pc = Pc(r) - 1)

luaK_code(r, i) ==
  [r EXCEPT !.fs[Len(r.fs)] = savelineinfo([@ EXCEPT !.code = Append(@, i)], lastline(r))]
luaK_codeABCk(r, op, a, b, c, k) == luaK_code(r, Instruction(op, a, b, c, k))
luaK_codeABC(r, op, a, b, c) == luaK_codeABCk(r, op, a, b, c, 0)
luaK_codek(r, reg, k) ==
  IF k <= MAXARG_Bx THEN luaK_codeABC(r, "LOADK", reg, k, 0)
  ELSE luaK_codeABC(luaK_codeABC(r, "LOADKX", reg, 0, 0), "EXTRAARG", k, 0, 0)
(* Mutant: an instruction that is jumped to still belongs to the one before.*)
previousinstructionAny(r) == IF Pc(r) > 0 THEN CodeAt(r, Pc(r) - 1) ELSE Instruction("none", 0, 0, 0, 0)
previousinstruction(r) ==
  IF Pc(r) > Fs(r).lasttarget THEN CodeAt(r, Pc(r) - 1) ELSE Instruction("none", 0, 0, 0, 0)

(* Registers.                                                              *)
reglevel(r, nvar) ==
  LET first == Fs(r).firstlocal
      regs == {i \in 1..nvar : r.vars[first + i].kind \in {"VDKREG", "RDKCONST", "RDKVAVAR", "RDKTOCLOSE"}}
  IN IF regs = {} THEN 0 ELSE r.vars[first + Max(regs)].ridx + 1
luaY_nvarstack(r) == reglevel(r, Fs(r).nactvar)
luaK_checkstack(r, n) ==
  LET size == Fs(r).freereg + n IN
  IF size <= Fs(r).maxstack THEN r
  ELSE luaY_checklimit([r EXCEPT !.fs[Len(r.fs)].maxstack = size], size, MAX_FSTACK, "limit")
luaK_reserveregs(r, n) == [luaK_checkstack(r, n) EXCEPT !.fs[Len(r.fs)].freereg = @ + n]
freereg(r, reg) ==
  IF reg < luaY_nvarstack(r) THEN r
  ELSE lua_assert([r EXCEPT !.fs[Len(r.fs)].freereg = @ - 1], "registers are freed in order", reg = Fs(r).freereg - 1)
freeregs(r, r1, r2) == IF r1 > r2 THEN freereg(freereg(r, r1), r2) ELSE freereg(freereg(r, r2), r1)
freeexp(r) == IF r.e.k = "VNONRELOC" THEN freereg(r, r.e.info) ELSE r
RegisterOf(e) == IF e.k = "VNONRELOC" THEN e.info ELSE -1
freeexps(r) == freeregs(r, RegisterOf(r.e), RegisterOf(r.o))

(* LOADNIL joins the one before it when no jump comes in between.          *)
luaK_nil(r, from, n) ==
  LET last == from + n - 1
      p == previousinstruction(r)
      pl == p.a + p.b
      meets == p.op = "LOADNIL" /\ (p.a \in (from - (pl - p.a) - 1)..from \/ p.a \in from..(last + 1))
      low == IF p.a < from THEN p.a ELSE from
      high == IF pl > last THEN pl ELSE last
  IN IF meets THEN [r EXCEPT !.fs[Len(r.fs)].code[Pc(r)] = Instruction("LOADNIL", low, high - low, 0, 0)]
     ELSE luaK_codeABC(r, "LOADNIL", from, n - 1, 0)

(* Jumps wait in lists, threaded through their own offsets.                *)
luaK_getlabel(r) == [r EXCEPT !.fs[Len(r.fs)].lasttarget = Pc(r)]
luaK_jump(r) == luaK_codeABC(r, "JMP", 0, NO_JUMP, 0)
condjump(r, op, a, b, c, k) == luaK_jump(luaK_codeABCk(r, op, a, b, c, k))
getjump(code, pc) == IF code[pc + 1].b = NO_JUMP THEN NO_JUMP ELSE pc + 1 + code[pc + 1].b
RECURSIVE JumpList(_, _)
JumpList(code, list) == IF list = NO_JUMP THEN <<>> ELSE <<list>> \o JumpList(code, getjump(code, list))
fixjump(r, pc, dest) ==
  lua_assert([r EXCEPT !.fs[Len(r.fs)].code[pc + 1].b = dest - (pc + 1)], "jumps are fixed to a place",
             dest # NO_JUMP /\ CodeAt(r, pc).op = "JMP")
luaK_concat(r, l1, l2) ==
  IF l1 = NO_JUMP \/ l2 = NO_JUMP THEN r ELSE fixjump(r, Last(JumpList(Fs(r).code, l1)), l2)
Joined(l1, l2) == IF l1 = NO_JUMP THEN l2 ELSE l1

Tests == {"EQ", "LT", "LE", "EQK", "EQI", "LTI", "LEI", "GTI", "GEI", "TEST", "TESTSET"}
getjumpcontrol(code, pc) == IF pc >= 1 /\ code[pc].op \in Tests THEN pc - 1 ELSE pc
patchtestreg(i, reg) ==
  IF reg # NO_REG /\ reg # i.b THEN [i EXCEPT !.a = reg] ELSE Instruction("TEST", i.b, 0, 0, i.k)
Patched(code, nodes, vtarget, reg, dtarget) ==
  LET produces(pc) == code[getjumpcontrol(code, pc) + 1].op = "TESTSET" IN
  <<>> \o [x \in DOMAIN code |->
     IF x - 1 \in nodes THEN [code[x] EXCEPT !.b = (IF produces(x - 1) THEN vtarget ELSE dtarget) - x]
     ELSE IF x \in nodes /\ code[x].op = "TESTSET" THEN patchtestreg(code[x], reg)
     ELSE code[x]]
patchlistaux(r, list, vtarget, reg, dtarget) ==
  IF list = NO_JUMP THEN r
  ELSE LET code == Fs(r).code
           nodes == ToSet(JumpList(code, list))
       IN lua_assert([r EXCEPT !.fs[Len(r.fs)].code = Patched(code, nodes, vtarget, reg, dtarget)], "jumps are fixed to a place",
            \A pc \in nodes : /\ code[pc + 1].op = "JMP"
                              /\ dtarget = NO_JUMP => code[getjumpcontrol(code, pc) + 1].op = "TESTSET")
luaK_patchlist(r, list, target) ==
  lua_assert(patchlistaux(r, list, target, NO_REG, target), "targets exist", target <= Pc(r))
luaK_patchtohere(r, list) == luaK_patchlist(luaK_getlabel(r), list, Pc(r))
removevalues(r, list) ==
  LET code == Fs(r).code
      controls == {pc + 1 : pc \in {getjumpcontrol(code, n) : n \in ToSet(JumpList(code, list))}}
  IN IF list = NO_JUMP THEN r
     ELSE [r EXCEPT !.fs[Len(r.fs)].code = <<>> \o [x \in DOMAIN code |->
             IF x \in controls /\ code[x].op = "TESTSET" THEN patchtestreg(code[x], NO_REG) ELSE code[x]]]
need_value(code, list) == \E pc \in ToSet(JumpList(code, list)) : code[getjumpcontrol(code, pc) + 1].op # "TESTSET"

(* Constants.                                                              *)
tonumeral(e) == ~hasjumps(e) /\ e.k \in {"VKINT", "VKFLT"}
const2val(r, e) == r.vars[e.info + 1].v
IsConstant(e) == ~hasjumps(e) /\ e.k \in {"VFALSE", "VTRUE", "VNIL", "VKSTR", "VCONST", "VKINT", "VKFLT"}
luaK_exp2const(r, e) ==
  CASE e.k = "VFALSE" -> <<"false">>
    [] e.k = "VTRUE" -> <<"true">>
    [] e.k = "VNIL" -> <<"nil">>
    [] e.k = "VCONST" -> const2val(r, e)
    [] OTHER -> e.v
const2exp(v) ==
  CASE v[1] = "int" -> Valued("VKINT", v)
    [] v[1] = "flt" -> Valued("VKFLT", v)
    [] v[1] = "str" -> Valued("VKSTR", v)
    [] v[1] = "nil" -> Valued("VNIL", v)
    [] v[1] = "true" -> Valued("VTRUE", v)
    [] v[1] = "false" -> Valued("VFALSE", v)
k2proto(r, v) == IF Contains(Fs(r).k, v) THEN r ELSE [r EXCEPT !.fs[Len(r.fs)].k = Append(@, v)]
KIndex(r, v) == IF Contains(Fs(r).k, v) THEN SelectInSeq(Fs(r).k, LAMBDA x : x = v) - 1 ELSE Len(Fs(r).k)
fitsC(i) == -OFFSET_sC <= i /\ i <= MAXARG_C - OFFSET_sC
fitsBx(i) == -OFFSET_sBx <= i /\ i <= MAXARG_Bx - OFFSET_sBx
luaK_int(r, reg, i) ==
  IF fitsBx(i) THEN luaK_codeABC(r, "LOADI", reg, i, 0)
  ELSE luaK_codek(k2proto(r, <<"int", i>>), reg, KIndex(r, <<"int", i>>))
luaK_float(r, reg, h) ==
  IF h % 2 = 0 /\ fitsBx(h \div 2) THEN luaK_codeABC(r, "LOADF", reg, h \div 2, 0)
  ELSE luaK_codek(k2proto(r, <<"flt", h>>), reg, KIndex(r, <<"flt", h>>))
str2K(r) == [k2proto(r, r.e.v) EXCEPT !.e.k = "VK", !.e.info = KIndex(r, r.e.v)]

(* Expressions take their way to a register by what they are.              *)
luaK_setreturns(r, n) ==
  IF r.e.k = "VCALL" THEN [r EXCEPT !.fs[Len(r.fs)].code[r.e.info + 1].c = n + 1]
  ELSE lua_assert(luaK_reserveregs([r EXCEPT !.fs[Len(r.fs)].code[r.e.info + 1].c = n + 1,
                                             !.fs[Len(r.fs)].code[r.e.info + 1].a = Fs(r).freereg], 1),
                  "many results", r.e.k = "VVARARG")
luaK_setmultret(r) == luaK_setreturns(r, LUA_MULTRET)
luaK_setoneret(r) ==
  IF r.e.k = "VCALL"
  THEN lua_assert([r EXCEPT !.e.k = "VNONRELOC", !.e.info = CodeAt(r, r.e.info).a], "one result", CodeAt(r, r.e.info).c = 2)
  ELSE IF r.e.k = "VVARARG" THEN [r EXCEPT !.fs[Len(r.fs)].code[r.e.info + 1].c = 2, !.e.k = "VRELOC"]
  ELSE r
Relocated(r) == [r EXCEPT !.e.k = "VRELOC", !.e.info = Pc(r) - 1]
needvatab(r, lv) == [r EXCEPT !.fs[lv].vatab = TRUE]
luaK_vapar2local(r, lv) == [needvatab(r, lv) EXCEPT !.e.k = "VLOCAL"]

luaK_dischargevars(r) ==
  LET e == r.e IN
  CASE e.k = "VCONST" -> [r EXCEPT !.e = [const2exp(const2val(r, e)) EXCEPT !.t = e.t, !.f = e.f]]
    [] e.k = "VVARGVAR" -> [luaK_vapar2local(r, Top(r)) EXCEPT !.e.k = "VNONRELOC"]
    [] e.k = "VLOCAL" -> [r EXCEPT !.e.k = "VNONRELOC"]
    [] e.k = "VUPVAL" -> Relocated(luaK_codeABC(r, "GETUPVAL", 0, e.info, 0))
    [] e.k = "VINDEXUP" -> Relocated(luaK_codeABC(r, "GETTABUP", 0, e.tab, e.idx))
    [] e.k = "VINDEXI" -> Relocated(luaK_codeABC(freereg(r, e.tab), "GETI", 0, e.tab, e.idx))
    [] e.k = "VINDEXSTR" -> Relocated(luaK_codeABC(freereg(r, e.tab), "GETFIELD", 0, e.tab, e.idx))
    [] e.k = "VINDEXED" -> Relocated(luaK_codeABC(freeregs(r, e.tab, e.idx), "GETTABLE", 0, e.tab, e.idx))
    [] e.k = "VVARGIND" -> Relocated(luaK_codeABC(freeregs(r, e.tab, e.idx), "GETVARG", 0, e.tab, e.idx))
    [] e.k \in {"VVARARG", "VCALL"} -> luaK_setoneret(r)
    [] OTHER -> r

Loaded(r, reg) ==
  LET e == r.e IN
  CASE e.k = "VNIL" -> luaK_nil(r, reg, 1)
    [] e.k = "VFALSE" -> luaK_codeABC(r, "LOADFALSE", reg, 0, 0)
    [] e.k = "VTRUE" -> luaK_codeABC(r, "LOADTRUE", reg, 0, 0)
    [] e.k = "VKSTR" -> luaK_codek(str2K(r), reg, KIndex(r, e.v))
    [] e.k = "VK" -> luaK_codek(r, reg, e.info)
    [] e.k = "VKFLT" -> luaK_float(r, reg, e.v[2])
    [] e.k = "VKINT" -> luaK_int(r, reg, e.v[2])
    [] e.k = "VRELOC" -> [r EXCEPT !.fs[Len(r.fs)].code[e.info + 1].a = reg]
    [] e.k = "VNONRELOC" -> IF reg # e.info THEN luaK_codeABC(r, "MOVE", reg, e.info, 0) ELSE r
    [] OTHER -> lua_assert(r, "a value goes to a register", e.k = "VJMP")
Settled(r, reg) == IF r.e.k = "VJMP" THEN r ELSE [Loaded(r, reg) EXCEPT !.e.k = "VNONRELOC", !.e.info = reg]
discharge2reg(r, reg) == Settled(luaK_dischargevars(r), reg)
Reserved(r) == discharge2reg(r, Fs(r).freereg - 1)
discharge2anyreg(r) == IF r.e.k = "VNONRELOC" THEN r ELSE Reserved(luaK_reserveregs(r, 1))

(* A condition that must be a value: its jumps that bring none are sent to *)
(* two loads behind the expression, which the expression itself jumps over.*)
code_loadbool(r, reg, op) == luaK_codeABC(luaK_getlabel(r), op, reg, 0, 0)
BoolLoads(r, reg) == code_loadbool(code_loadbool(r, reg, "LFALSESKIP"), reg, "LOADTRUE")
TrueJump(r) ==
  IF r.e.k = "VJMP" THEN [luaK_concat(r, r.e.t, r.e.info) EXCEPT !.e.t = Joined(r.e.t, r.e.info)] ELSE r
PatchValues(r, reg, loads) ==
  LET false == IF loads THEN Pc(r) - 2 ELSE NO_JUMP
      true == IF loads THEN Pc(r) - 1 ELSE NO_JUMP
  IN patchlistaux(patchlistaux(luaK_getlabel(r), r.e.f, Pc(r), reg, false), r.e.t, Pc(r), reg, true)
MakeValue(r, reg) ==
  IF ~hasjumps(r.e) THEN r
  ELSE IF ~(need_value(Fs(r).code, r.e.t) \/ need_value(Fs(r).code, r.e.f)) THEN PatchValues(r, reg, FALSE)
  ELSE IF r.e.k = "VJMP" THEN PatchValues(luaK_patchtohere(BoolLoads(r, reg), NO_JUMP), reg, TRUE)
  ELSE PatchValues(luaK_patchtohere(BoolLoads(luaK_jump(r), reg), Pc(r)), reg, TRUE)
exp2reg(r, reg) == SetE(MakeValue(TrueJump(discharge2reg(r, reg)), reg), init_exp("VNONRELOC", reg))

NextReg(r) == exp2reg(r, Fs(r).freereg - 1)
luaK_exp2nextreg1(r) == NextReg(luaK_reserveregs(freeexp(r), 1))
luaK_exp2nextreg(r) == luaK_exp2nextreg1(luaK_dischargevars(r))
AnyReg(r) ==
  IF r.e.k = "VNONRELOC" /\ ~hasjumps(r.e) THEN r
  ELSE IF r.e.k = "VNONRELOC" /\ r.e.info >= luaY_nvarstack(r) THEN exp2reg(r, r.e.info)
  ELSE luaK_exp2nextreg(r)
luaK_exp2anyreg(r) == AnyReg(luaK_dischargevars(r))
luaK_exp2anyregup(r) == IF r.e.k \notin {"VUPVAL", "VVARGVAR"} \/ hasjumps(r.e) THEN luaK_exp2anyreg(r) ELSE r
luaK_exp2val(r) == IF r.e.k = "VJMP" \/ hasjumps(r.e) THEN luaK_exp2anyreg(r) ELSE luaK_dischargevars(r)

(* Operands that are constants; what is in the table of constants stays.   *)
KValued == {"VTRUE", "VFALSE", "VNIL", "VKINT", "VKFLT", "VKSTR"}
EnterK(r) == IF ~hasjumps(r.e) /\ r.e.k \in KValued THEN k2proto(r, luaK_exp2const(r, r.e)) ELSE r
KOf(r) == IF hasjumps(r.e) THEN -1
          ELSE IF r.e.k \in KValued THEN KIndex(r, luaK_exp2const(r, r.e))
          ELSE IF r.e.k = "VK" THEN r.e.info ELSE -1
AsK(r) == IF KOf(r) \in 0..MAXINDEXRK THEN [r EXCEPT !.e.k = "VK", !.e.info = KOf(r)] ELSE r
luaK_exp2K(r) == AsK(EnterK(r))
IsK(e) == e.k = "VK" /\ ~hasjumps(e) /\ e.info <= MAXINDEXRK
OrReg(r) == IF IsK(r.e) THEN r ELSE luaK_exp2anyreg(r)
exp2RK(r) == OrReg(luaK_exp2K(r))
codeABRK1(r, op, a, b) == luaK_codeABCk(r, op, a, b, r.e.info, IF r.e.k = "VK" THEN 1 ELSE 0)
codeABRK(r, op, a, b) == codeABRK1(exp2RK(r), op, a, b)

(* The variable is o, its new value e.                                     *)
SetUpval(r) == luaK_codeABC(r, "SETUPVAL", r.e.info, r.o.info, 0)
luaK_storevar(r) ==
  LET var == r.o IN
  CASE var.k = "VLOCAL" -> exp2reg(freeexp(r), var.info)
    [] var.k = "VUPVAL" -> freeexp(SetUpval(luaK_exp2anyreg(r)))
    [] var.k = "VINDEXUP" -> freeexp(codeABRK(r, "SETTABUP", var.tab, var.idx))
    [] var.k = "VINDEXI" -> freeexp(codeABRK(r, "SETI", var.tab, var.idx))
    [] var.k = "VINDEXSTR" -> freeexp(codeABRK(r, "SETFIELD", var.tab, var.idx))
    [] var.k = "VVARGIND" -> freeexp(codeABRK(needvatab(r, Top(r)), "SETTABLE", var.tab, var.idx))
    [] var.k = "VINDEXED" -> freeexp(codeABRK(r, "SETTABLE", var.tab, var.idx))
    [] OTHER -> lua_assert(r, "only variables are stored", FALSE)

(* Conditions.                                                             *)
negatecondition(r) ==
  LET c == getjumpcontrol(Fs(r).code, r.e.info) IN
  lua_assert([r EXCEPT !.fs[Len(r.fs)].code[c + 1].k = 1 - @], "only comparisons are negated",
             CodeAt(r, c).op \in Tests \ {"TEST", "TESTSET"})
TestSet(r, cond) == condjump(freeexp(r), "TESTSET", NO_REG, r.e.info, 0, cond)
jumponcond(r, cond) ==
  IF r.e.k = "VRELOC" /\ CodeAt(r, r.e.info).op = "NOT"
  THEN condjump(removelastinstruction(r), "TEST", CodeAt(r, r.e.info).b, 0, 0, 1 - cond)
  ELSE TestSet(discharge2anyreg(r), cond)
LinkFalse(r, pc) == [luaK_patchtohere(luaK_concat(r, r.e.f, pc), r.e.t) EXCEPT !.e.f = Joined(r.e.f, pc), !.e.t = NO_JUMP]
LinkTrue(r, pc) == [luaK_patchtohere(luaK_concat(r, r.e.t, pc), r.e.f) EXCEPT !.e.t = Joined(r.e.t, pc), !.e.f = NO_JUMP]
LastJump(r) == Pc(r) - 1
LinkFalseLast(r) == LinkFalse(r, LastJump(r))
LinkTrueLast(r) == LinkTrue(r, LastJump(r))
goiftrue(r) ==
  IF r.e.k = "VJMP" THEN LinkFalse(negatecondition(r), r.e.info)
  ELSE IF r.e.k \in {"VK", "VKFLT", "VKINT", "VKSTR", "VTRUE"} THEN LinkFalse(r, NO_JUMP)
  ELSE LinkFalseLast(jumponcond(r, 0))
luaK_goiftrue(r) == goiftrue(luaK_dischargevars(r))
goiffalse(r) ==
  IF r.e.k = "VJMP" THEN LinkTrue(r, r.e.info)
  ELSE IF r.e.k \in {"VNIL", "VFALSE"} THEN LinkTrue(r, NO_JUMP)
  ELSE LinkTrueLast(jumponcond(r, 1))
luaK_goiffalse(r) == goiffalse(luaK_dischargevars(r))

NotReg(r) == Relocated(luaK_codeABC(freeexp(r), "NOT", 0, r.e.info, 0))
Negated(r) ==
  CASE r.e.k \in {"VNIL", "VFALSE"} -> [r EXCEPT !.e.k = "VTRUE"]
    [] r.e.k \in {"VK", "VKFLT", "VKINT", "VKSTR", "VTRUE"} -> [r EXCEPT !.e.k = "VFALSE"]
    [] r.e.k = "VJMP" -> negatecondition(r)
    [] r.e.k \in {"VRELOC", "VNONRELOC"} -> NotReg(discharge2anyreg(r))
    [] OTHER -> lua_assert(r, "not of a value", FALSE)
Exchanged(r) == removevalues(removevalues([r EXCEPT !.e.t = r.e.f, !.e.f = r.e.t], r.e.t), r.e.f)
codenot(r) == Exchanged(Negated(r))

(* Methods and indexes: the table is e, the key is o.                      *)
IsShortK(v) == v[1] = "str" /\ v # LongString
isKstr(r, e) == e.k = "VK" /\ ~hasjumps(e) /\ e.info <= MAXINDEXRK /\ IsShortK(Fs(r).k[e.info + 1])
isKint(e) == e.k = "VKINT" /\ ~hasjumps(e)
isCint(e) == isKint(e) /\ e.v[2] \in 0..MAXARG_C
isSCint(e) == isKint(e) /\ fitsC(e.v[2])
NumberOf(e) == IF e.k = "VKFLT" THEN e.v[2] \div 2 ELSE e.v[2]
isSCnumber(e) ==
  ~hasjumps(e) /\ (e.k = "VKINT" \/ (e.k = "VKFLT" /\ e.v[2] % 2 = 0)) /\ fitsC(NumberOf(e))

SelfBase(r) == luaK_reserveregs([freeexp(r) EXCEPT !.e = init_exp("VNONRELOC", Fs(freeexp(r)).freereg)], 2)
SelfByReg(r, base, obj) ==
  freeexp(luaK_codeABC(luaK_codeABC(r, "MOVE", base + 1, obj, 0), "GETTABLE", base, obj, r.e.info))
SelfKey(r, obj) ==      \* e the key, o the base
  IF IsK(r.e) THEN luaK_codeABC(r, "SELF", r.o.info, obj, r.e.info) ELSE SelfByReg(luaK_exp2anyreg(r), r.o.info, obj)
ShortKey(r) == IF IsShortK(r.e.v) THEN luaK_exp2K(r) ELSE r
Self(r) == Swap(SelfKey(ShortKey(Swap(SelfBase(r))), r.e.info))
luaK_self(r) == Self(luaK_exp2anyreg(r))

Indexed(r, k, tab, idx, keystr) ==
  [r EXCEPT !.e = [init_exp(k, 0) EXCEPT !.tab = tab, !.idx = idx, !.keystr = keystr]]
ByReg(r, k, keystr) == Indexed(r, k, r.e.info, r.o.info, keystr)
IndexedBy(r, keystr) ==
  IF r.e.k = "VUPVAL" THEN Indexed(r, "VINDEXUP", r.e.info, r.o.info, keystr)
  ELSE IF r.e.k = "VVARGVAR" THEN lua_assert(ByReg(Other(luaK_exp2anyreg, r), "VVARGIND", keystr),
                                             "the vararg table follows the parameters", r.e.info = Fs(r).numparams)
  ELSE IF isKstr(r, r.o) THEN Indexed(r, "VINDEXSTR", r.e.info, r.o.info, keystr)
  ELSE IF isCint(r.o) THEN Indexed(r, "VINDEXI", r.e.info, r.o.v[2], keystr)
  ELSE ByReg(Other(luaK_exp2anyreg, r), "VINDEXED", keystr)
TableReady(r) == IF r.e.k = "VUPVAL" /\ ~isKstr(r, r.o) THEN luaK_exp2anyreg(r) ELSE r
IndexedStr(r) == IndexedBy(TableReady(r), r.o.info)
luaK_indexed(r) ==
  lua_assert(IF r.o.k = "VKSTR" THEN IndexedStr(Other(str2K, r)) ELSE IndexedBy(TableReady(r), -1), "what is indexed",
             ~hasjumps(r.e) /\ r.e.k \in {"VLOCAL", "VVARGVAR", "VNONRELOC", "VUPVAL"})

(* Arithmetic on numbers, as the machine has it and as it is folded.       *)
IsNumber(v) == v[1] \in {"int", "flt"}
Halves(v) == IF v[1] = "int" THEN 2 * v[2] ELSE v[2]
IsInteger(v) == IsNumber(v) /\ Halves(v) % 2 = 0
IntOf(v) == Halves(v) \div 2
RECURSIVE BitAnd(_, _)
BitAnd(a, b) == IF a = 0 \/ b = 0 THEN 0 ELSE IF a = -1 THEN b ELSE IF b = -1 THEN a
                ELSE 2 * BitAnd(a \div 2, b \div 2) + (a % 2) * (b % 2)
Shl(a, n) == IF n > 15 \/ n < -15 THEN 0 ELSE IF n >= 0 THEN a * 2 ^ n ELSE a \div 2 ^ (-n)
FloorDiv(a, b) == IF b > 0 THEN a \div b ELSE (-a) \div (-b)
FloorMod(a, b) == a - b * FloorDiv(a, b)
BitOps == {"BAND", "BOR", "SHL", "SHR", "BNOT"}
luaO_rawarith(op, v, w) ==
  LET ints == v[1] = "int" /\ w[1] = "int"
      a == Halves(v)
      b == Halves(w)
  IN CASE op = "ADD" -> IF ints THEN <<"int", v[2] + w[2]>> ELSE <<"flt", a + b>>
       [] op = "SUB" -> IF ints THEN <<"int", v[2] - w[2]>> ELSE <<"flt", a - b>>
       [] op = "MUL" -> IF ints THEN <<"int", v[2] * w[2]>> ELSE IF (a * b) % 2 = 0 THEN <<"flt", (a * b) \div 2>> ELSE <<"mm", op, v, w>>
       [] op = "DIV" -> IF b # 0 /\ FloorMod(2 * a, b) = 0 THEN <<"flt", FloorDiv(2 * a, b)>> ELSE <<"mm", op, v, w>>
       [] op = "IDIV" -> IF b = 0 THEN <<"mm", op, v, w>> ELSE IF ints THEN <<"int", FloorDiv(v[2], w[2])>> ELSE <<"flt", 2 * FloorDiv(a, b)>>
       [] op = "MOD" -> IF b = 0 THEN <<"mm", op, v, w>> ELSE IF ints THEN <<"int", FloorMod(v[2], w[2])>> ELSE <<"flt", FloorMod(a, b)>>
       [] op = "UNM" -> IF ints THEN <<"int", -v[2]>> ELSE <<"flt", -a>>
       [] op \in BitOps /\ ~(IsInteger(v) /\ IsInteger(w)) -> <<"mm", op, v, w>>
       [] op = "BAND" -> <<"int", BitAnd(IntOf(v), IntOf(w))>>
       [] op = "BOR" -> <<"int", -1 - BitAnd(-1 - IntOf(v), -1 - IntOf(w))>>
       [] op = "SHL" -> <<"int", Shl(IntOf(v), IntOf(w))>>
       [] op = "SHR" -> <<"int", Shl(IntOf(v), -IntOf(w))>>
       [] op = "BNOT" -> <<"int", -1 - IntOf(v)>>
validop(op, v, w) ==
  CASE op \in BitOps -> IsInteger(v) /\ IsInteger(w)
    [] op \in {"DIV", "IDIV", "MOD"} -> Halves(w) # 0
    [] OTHER -> TRUE
Folded(op, e, e2) == luaO_rawarith(op, e.v, e2.v)
constfolding(op, e, e2) ==
  /\ tonumeral(e) /\ tonumeral(e2) /\ validop(op, e.v, e2.v)
  /\ \/ Folded(op, e, e2)[1] = "int"
     \/ Folded(op, e, e2)[1] = "flt" /\ Folded(op, e, e2)[2] # 0
FoldedExp(op, e, e2) == [const2exp(Folded(op, e, e2)) EXCEPT !.t = e.t, !.f = e.f]

(* Operators: e is the first operand and then the result, o the second.    *)
Unary(r, op, line) == luaK_fixline(Relocated(luaK_codeABC(freeexp(r), op, 0, r.e.info, 0)), line)
codeunexpval(r, op, line) == Unary(luaK_exp2anyreg(r), op, line)
BinOp(r, op, v2, flip, line, mmop, event, b) ==
  luaK_fixline(luaK_codeABCk(luaK_fixline(Relocated(freeexps(luaK_codeABC(r, op, 0, r.e.info, v2))), line),
                             mmop, r.e.info, b, event, flip), line)
finishbinexpval(r, op, v2, flip, line, mmop, event, b) == BinOp(luaK_exp2anyreg(r), op, v2, flip, line, mmop, event, b)
codebinexpval1(r, op, line) == finishbinexpval(r, op, r.o.info, 0, line, "MMBIN", op, r.o.info)
codebinexpval(r, op, line) ==
  lua_assert(codebinexpval1(Other(luaK_exp2anyreg, r), op, line), "the first operand has its value",
             r.e.k \in {"VNIL", "VTRUE", "VFALSE", "VK", "VKFLT", "VKINT", "VKSTR", "VNONRELOC", "VRELOC"})
codebini(r, op, flip, line, event) ==
  finishbinexpval(r, op, int2sC(r.o.v[2]), flip, line, "MMBINI", event, int2sC(r.o.v[2]))
KOp == [ADD |-> "ADDK", SUB |-> "SUBK", MUL |-> "MULK", DIV |-> "DIVK", IDIV |-> "IDIVK", MOD |-> "MODK",
        BAND |-> "BANDK", BOR |-> "BORK"]
codebinK(r, op, flip, line) == finishbinexpval(r, KOp[op], r.o.info, flip, line, "MMBINK", op, r.o.info)
NegFits(e) == isKint(e) /\ fitsC(e.v[2]) /\ fitsC(-e.v[2])
finishbinexpneg(r, op, line, event) ==
  finishbinexpval(r, op, int2sC(-r.o.v[2]), 0, line, "MMBINI", event, int2sC(r.o.v[2]))
codebinNoK(r, op, flip, line) == codebinexpval(IF flip = 1 THEN Swap(r) ELSE r, op, line)
ArithK(r, op, flip, line) == IF IsK(r.o) THEN codebinK(r, op, flip, line) ELSE codebinNoK(r, op, flip, line)
codearith(r, op, flip, line) ==
  IF tonumeral(r.o) THEN ArithK(Other(luaK_exp2K, r), op, flip, line) ELSE codebinNoK(r, op, flip, line)
Commutes(r, op, flip, line) ==
  IF op = "ADD" /\ isSCint(r.o) THEN codebini(r, "ADDI", flip, line, "ADD") ELSE codearith(r, op, flip, line)
codecommutative(r, op, line) == IF tonumeral(r.e) THEN Commutes(Swap(r), op, 1, line) ELSE Commutes(r, op, 0, line)
Bitwise(r, op, flip, line) ==
  IF r.o.k = "VKINT" THEN ArithK(Other(luaK_exp2K, r), op, flip, line) ELSE codebinNoK(r, op, flip, line)
codebitwise(r, op, line) == IF r.e.k = "VKINT" THEN Bitwise(Swap(r), op, 1, line) ELSE Bitwise(r, op, 0, line)

(* isSCnumber says of an integral float that it is one (1305) before it    *)
(* finds whether it fits; codeorder and codeeq keep what was said of the   *)
(* operands they asked about.  C says of an immediate operand that it was  *)
(* written as a float; the instructions on registers do not read it.       *)
saysfloat(e) == e.k = "VKFLT" /\ e.v[2] % 2 = 0
isfloat(es) == IF \E e \in es : saysfloat(e) THEN 1 ELSE 0
Compared(r, op, r1, r2, c, k) ==
  [condjump(freeexps(r), op, r1, r2, c, k) EXCEPT !.e = init_exp("VJMP", Pc(r) + 1)]
OrderImmediate(r, op, c) == Compared(r, op, r.e.info, int2sC(NumberOf(r.o)), c, 1)
OrderSwapped(r, op, c) == Compared(r, op, r.o.info, int2sC(NumberOf(r.e)), c, 1)
OrderRegisters(r, op, c) == Compared(r, op, r.e.info, r.o.info, c, 1)
codeorder(r, op) ==
  IF isSCnumber(r.o) THEN OrderImmediate(luaK_exp2anyreg(r), IF op = "LT" THEN "LTI" ELSE "LEI", isfloat({r.o}))
  ELSE IF isSCnumber(r.e)
  THEN OrderSwapped(Other(luaK_exp2anyreg, r), IF op = "LT" THEN "GTI" ELSE "GEI", isfloat({r.o, r.e}))
  ELSE OrderRegisters(Other(luaK_exp2anyreg, luaK_exp2anyreg(r)), IF op = "LT" THEN "LT" ELSE "LE", isfloat({r.o, r.e}))
EqK(r, c, k) == Compared(r, IF IsK(r.o) THEN "EQK" ELSE "EQ", r.e.info, r.o.info, c, k)
Equals(r, c, k) ==
  IF isSCnumber(r.o) THEN Compared(r, "EQI", r.e.info, int2sC(NumberOf(r.o)), c, k)
  ELSE EqK(Other(exp2RK, r), c, k)
EqualsTo(r, k) == Equals(luaK_exp2anyreg(r), isfloat({r.o}), k)
codeeq(r, k) ==
  IF r.e.k = "VNONRELOC" THEN EqualsTo(r, k)
  ELSE lua_assert(EqualsTo(Swap(r), k), "a constant first operand", r.e.k \in {"VK", "VKINT", "VKFLT"})

Prefix(r, op, line) ==
  IF op = "NOT" THEN codenot(r)
  ELSE IF op # "LEN" /\ constfolding(op, r.e, Valued("VKINT", <<"int", 0>>))
  THEN SetE(r, FoldedExp(op, r.e, Valued("VKINT", <<"int", 0>>)))
  ELSE codeunexpval(r, op, line)
luaK_prefix(r, op, line) == Prefix(luaK_dischargevars(r), op, line)

Infix(r, op) ==
  CASE op = "AND" -> luaK_goiftrue(r)
    [] op = "OR" -> luaK_goiffalse(r)
    [] op = "CONCAT" -> luaK_exp2nextreg(r)
    [] op \in {"EQ", "NE"} -> IF tonumeral(r.e) THEN r ELSE exp2RK(r)
    [] op \in {"LT", "LE", "GT", "GE"} -> IF isSCnumber(r.e) THEN r ELSE luaK_exp2anyreg(r)
    [] OTHER -> IF tonumeral(r.e) THEN r ELSE luaK_exp2anyreg(r)
luaK_infix(r, op) == Infix(luaK_dischargevars(r), op)

codeconcat(r, line) ==      \* both operands are in registers, the second on top
  LET p == previousinstruction(r) IN
  IF p.op = "CONCAT"
  THEN lua_assert([Swap(freeexp(Swap(r))) EXCEPT !.fs[Len(r.fs)].code[Pc(r)] = [p EXCEPT !.a = r.e.info, !.b = @ + 1]],
                  "concatenations join", r.e.info + 1 = p.a)
  ELSE luaK_fixline(Swap(freeexp(Swap(luaK_codeABC(r, "CONCAT", r.e.info, 2, 0)))), line)

Arithmetics == {"ADD", "SUB", "MUL", "DIV", "IDIV", "MOD", "BAND", "BOR", "SHL", "SHR"}
AndThen(r) == lua_assert([luaK_concat(r, r.o.f, r.e.f) EXCEPT !.e = [r.o EXCEPT !.f = Joined(r.o.f, r.e.f)]], "and", r.e.t = NO_JUMP)
OrElse(r) == lua_assert([luaK_concat(r, r.o.t, r.e.t) EXCEPT !.e = [r.o EXCEPT !.t = Joined(r.o.t, r.e.t)]], "or", r.e.f = NO_JUMP)
Posfix(r, op, line) ==
  CASE op \in Arithmetics /\ constfolding(op, r.e, r.o) -> SetE(r, FoldedExp(op, r.e, r.o))
    [] op = "AND" -> AndThen(r)
    [] op = "OR" -> OrElse(r)
    [] op = "CONCAT" -> codeconcat(Other(luaK_exp2nextreg, r), line)
    [] op \in {"ADD", "MUL"} -> codecommutative(r, op, line)
    [] op = "SUB" -> IF NegFits(r.o) THEN finishbinexpneg(r, "ADDI", line, "SUB") ELSE codearith(r, op, 0, line)
    [] op \in {"DIV", "IDIV", "MOD"} -> codearith(r, op, 0, line)
    [] op \in {"BAND", "BOR"} -> codebitwise(r, op, line)
    [] op = "SHL" -> IF isSCint(r.e) THEN codebini(Swap(r), "SHLI", 1, line, "SHL")
                     ELSE IF NegFits(r.o) THEN finishbinexpneg(r, "SHRI", line, "SHL")
                     ELSE codebinexpval(r, op, line)
    [] op = "SHR" -> IF isSCint(r.o) THEN codebini(r, "SHRI", 0, line, "SHR") ELSE codebinexpval(r, op, line)
    [] op = "EQ" -> codeeq(r, 1)
    [] op = "NE" -> codeeq(r, 0)
    [] op = "GT" -> codeorder(Swap(r), "LT")
    [] op = "GE" -> codeorder(Swap(r), "LE")
    [] OTHER -> codeorder(r, op)
luaK_posfix(r, op, line) == Posfix(Other(luaK_dischargevars, r), op, line)

luaK_codecheckglobal1(r, k, line) ==
  freeexp(luaK_fixline(luaK_codeABC(luaK_fixline(r, line), "ERRNNIL", r.e.info, IF k >= MAXARG_Bx THEN 0 ELSE k + 1, 0), line))
luaK_codecheckglobal(r, k, line) == luaK_codecheckglobal1(luaK_exp2anyreg(r), k, line)

luaK_ret(r, first, nret) ==
  luaK_codeABC(r, IF nret = 0 THEN "RETURN0" ELSE IF nret = 1 THEN "RETURN1" ELSE "RETURN", first, nret + 1, 0)
CeilLog2(n) == CHOOSE x \in 0..n : 2 ^ x >= n /\ \A y \in 0..(x - 1) : 2 ^ y < n
luaK_settablesize(r, pc, ra, asize, hsize) ==
  LET extra == asize \div (MAXARG_vC + 1) IN
  [r EXCEPT !.fs[Len(r.fs)].code[pc + 1] = Instruction("NEWTABLE", ra, IF hsize = 0 THEN 0 ELSE CeilLog2(hsize) + 1,
                                                       asize % (MAXARG_vC + 1), IF extra > 0 THEN 1 ELSE 0),
            !.fs[Len(r.fs)].code[pc + 2] = Instruction("EXTRAARG", extra, 0, 0, 0)]
SetList(r, base, nelems, tostore) ==
  IF nelems <= MAXARG_vC THEN luaK_codeABC(r, "SETLIST", base, tostore, nelems)
  ELSE luaK_codeABC(luaK_codeABCk(r, "SETLIST", base, tostore, nelems % (MAXARG_vC + 1), 1), "EXTRAARG", nelems \div (MAXARG_vC + 1), 0, 0)
luaK_setlist(r, base, nelems, tostore) ==
  lua_assert([SetList(r, base, nelems, IF tostore = LUA_MULTRET THEN 0 ELSE tostore) EXCEPT !.fs[Len(r.fs)].freereg = base + 1],
             "something to store", tostore # 0)

(* The last pass over a function: returns that close and that give hidden  *)
(* arguments back, the vararg table, and jumps to jumps.                   *)
RECURSIVE finaltarget(_, _, _)
finaltarget(code, i, count) ==
  IF count = 100 \/ code[i + 1].op # "JMP" THEN i ELSE finaltarget(code, i + code[i + 1].b + 1, count + 1)
Finished(f, vahid, x) ==
  LET i == f.code[x] IN
  CASE i.op \in {"RETURN0", "RETURN1"} /\ ~(f.needclose \/ vahid) -> i
    [] i.op \in {"RETURN0", "RETURN1", "RETURN", "TAILCALL"} ->
         [i EXCEPT !.op = IF @ = "TAILCALL" THEN @ ELSE "RETURN", !.k = IF f.needclose THEN 1 ELSE @,
                   !.c = IF vahid THEN f.numparams + 1 ELSE @]
    [] i.op = "GETVARG" -> [i EXCEPT !.op = IF f.vatab THEN "GETTABLE" ELSE @]
    [] i.op = "VARARG" -> [i EXCEPT !.k = IF f.vatab THEN 1 ELSE @]
    [] i.op = "JMP" -> [i EXCEPT !.b = finaltarget(f.code, x - 1, 0) - x]
    [] OTHER -> i
luaK_finish(f) ==
  LET vahid == f.vahid /\ ~f.vatab IN
  [f EXCEPT !.vahid = vahid, !.code = <<>> \o [x \in DOMAIN f.code |-> Finished(f, vahid, x)]]
=============================================================================
