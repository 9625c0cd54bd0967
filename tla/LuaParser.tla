----------------------------- MODULE LuaParser ------------------------------
(* The parser of Lua, lparser.c, which compiles what it reads as it reads  *)
(* it: one operator per function, from a state of the compiler to the next.*)
(* A token is [k, v].  The longjmp of an error is an operator that leaves  *)
(* the state as it is; the tokens are at their end then, and loops end.    *)
EXTENDS LuaCode

CONSTANTS MAXVARS, MAXUPVAL, Lots, Some, Batch    \* limits, and the steps of maxtostore

Tok(r) == r.s[r.i].k
Val(r) == r.s[r.i].v
luaX_lookahead(r) == r.s[r.i + 1].k
luaX_next(r) == IF r.i < Len(r.s) THEN [r EXCEPT !.i = @ + 1] ELSE r
checknext(r, c) == IF Tok(r) = c THEN luaX_next(r) ELSE Err(r, "syntax")
check_match(r, what) == checknext(r, what)
checkname(r) == IF Tok(r) = "NAME" THEN r ELSE Err(r, "syntax")
hasmultret(e) == e.k \in {"VCALL", "VVARARG"}
vkisindexed(e) == e.k \in {"VINDEXED", "VVARGIND", "VINDEXUP", "VINDEXI", "VINDEXSTR"}
vkisvar(e) == vkisindexed(e) \/ e.k \in {"VLOCAL", "VVARGVAR", "VGLOBAL", "VUPVAL", "VCONST"}
block_follow(r, withuntil) == Tok(r) \in {"else", "elseif", "end", "EOS"} \/ (withuntil /\ Tok(r) = "until")
Str(name) == Valued("VKSTR", <<"str", name>>)

(* Declarations.                                                           *)
VarAt(r, lv, vidx) == r.vars[r.fs[lv].firstlocal + vidx + 1]
new_varkind(r, name, kind) ==
  [r EXCEPT !.vars = Append(SubSeq(@, 1, r.n), [name |-> name, kind |-> kind, ridx |-> 0, v |-> <<"nil">>]), !.n = @ + 1]
new_localvar(r, name) == new_varkind(r, name, "VDKREG")
Active(r, nvars, level) ==
  LET first == Fs(r).firstlocal + Fs(r).nactvar IN
  [r EXCEPT !.fs[Len(r.fs)].nactvar = @ + nvars,
            !.vars = <<>> \o [x \in DOMAIN @ |-> IF x - first \in 1..nvars THEN [@[x] EXCEPT !.ridx = level + (x - first) - 1] ELSE @[x]]]
adjustlocalvars(r, nvars) ==
  luaY_checklimit(Active(r, nvars, luaY_nvarstack(r)), luaY_nvarstack(r) + nvars, MAXVARS, "limit")
removevars(r, level) ==
  [r EXCEPT !.n = @ - (Fs(r).nactvar - level), !.fs[Len(r.fs)].nactvar = level]

(* The search for a name goes out through the functions; the search of one *)
(* leaves in info what it saw of declarations of globals.                  *)
Globals == {"GDKREG", "GDKCONST"}
Matches(r, lv, i, n) == VarAt(r, lv, i).name = n
AfterSeen(r, lv, seen) ==
  LET all == {i \in seen : VarAt(r, lv, i).kind \in Globals /\ VarAt(r, lv, i).name = "*"}
      named == {i \in seen : VarAt(r, lv, i).kind \in Globals /\ VarAt(r, lv, i).name # "*"}
  IN IF r.e.info >= 0 THEN r
     ELSE IF all # {} THEN [r EXCEPT !.e.info = r.fs[lv].firstlocal + Max(all)]
     ELSE IF named # {} /\ r.e.info = -1 THEN [r EXCEPT !.e.info = -2]
     ELSE r
Found(r, lv, i) ==
  LET vd == VarAt(r, lv, i) IN
  CASE vd.kind \in Globals -> SetE(r, init_exp("VGLOBAL", r.fs[lv].firstlocal + i))
    [] vd.kind = "RDKCTC" -> SetE(r, init_exp("VCONST", r.fs[lv].firstlocal + i))
    [] OTHER -> SetE(r, [init_exp(IF vd.kind = "RDKVAVAR" THEN "VVARGVAR" ELSE "VLOCAL", vd.ridx) EXCEPT !.vidx = i])
Declared(r, lv, n) == {i \in 0..(r.fs[lv].nactvar - 1) : Matches(r, lv, i, n)}
searchvar(r, lv, n) ==
  IF Declared(r, lv, n) = {} THEN AfterSeen(r, lv, 0..(r.fs[lv].nactvar - 1)) ELSE Found(r, lv, Max(Declared(r, lv, n)))
markupval(r, lv, level) ==
  LET bl == Max({b \in DOMAIN r.fs[lv].bl : r.fs[lv].bl[b].nactvar <= level}) IN
  [r EXCEPT !.fs[lv].bl[bl].upval = TRUE, !.fs[lv].needclose = TRUE]
marktobeclosed(r) ==
  LET b == Len(Fs(r).bl) IN
  [r EXCEPT !.fs[Len(r.fs)].bl[b].upval = TRUE, !.fs[Len(r.fs)].bl[b].insidetbc = TRUE, !.fs[Len(r.fs)].needclose = TRUE]
searchupvalue(r, lv, n) == SelectInSeq(r.fs[lv].ups, LAMBDA u : u.name = n) - 1
newupvalue(r, lv, n) ==
  LET local == r.e.k = "VLOCAL"
      kind == IF local THEN VarAt(r, lv - 1, r.e.vidx).kind ELSE r.fs[lv - 1].ups[r.e.info + 1].kind
      q == [r EXCEPT !.fs[lv].ups = Append(@, [name |-> n, instack |-> local, idx |-> r.e.info, kind |-> kind]),
                     !.e = init_exp("VUPVAL", Len(r.fs[lv].ups))]
  IN luaY_checklimit(q, Len(r.fs[lv].ups) + 1, MAXUPVAL, "limit")
Captured(r, lv) == IF r.e.k = "VLOCAL" THEN markupval(r, lv, r.e.vidx) ELSE r
Escaped(r, lv) == Captured(IF r.e.k = "VVARGVAR" THEN luaK_vapar2local(r, lv) ELSE r, lv)
RECURSIVE singlevaraux(_, _, _, _)
Outer(r, lv, n) == IF r.e.k \in {"VLOCAL", "VUPVAL"} THEN newupvalue(r, lv, n) ELSE r
AsUpvalue(r, lv, n) ==
  IF searchupvalue(r, lv, n) >= 0 THEN SetE(r, init_exp("VUPVAL", searchupvalue(r, lv, n)))
  ELSE IF lv = 1 THEN r
  ELSE Outer(singlevaraux(r, lv - 1, n, FALSE), lv, n)
singlevaraux(r, lv, n, base) ==
  IF Declared(r, lv, n) = {} THEN AsUpvalue(searchvar(r, lv, n), lv, n)
  ELSE IF base THEN searchvar(r, lv, n) ELSE Escaped(searchvar(r, lv, n), lv)
Search(r, n) == singlevaraux(SetE(r, init_exp("VGLOBAL", -1)), Top(r), n, TRUE)
FieldOf(r, key) == luaK_indexed([r EXCEPT !.o = key])
InEnv(r, name) ==
  IF r.e.k = "VGLOBAL" THEN Err(r, "_ENV is global") ELSE FieldOf(luaK_exp2anyregup(r), Str(name))
buildglobal(r, name) == InEnv(Search(r, "_ENV"), name)
ReadOnly(r, info) ==
  IF info # -1 /\ r.err = "" /\ r.vars[info + 1].kind = "GDKCONST" THEN [r EXCEPT !.e.ro = 1] ELSE r
Global(r, name, info) == IF info = -2 THEN Err(r, "not declared") ELSE ReadOnly(buildglobal(r, name), info)
Resolved(r, name) == IF r.e.k = "VGLOBAL" THEN Global(r, name, r.e.info) ELSE r
buildvar(r, name) == Resolved(Search(r, name), name)
singlevar(r) == IF Tok(r) = "NAME" THEN buildvar(luaX_next(r), Val(r)) ELSE Err(r, "syntax")

check_readonly(r) ==
  LET e == r.e
      ro == CASE e.k = "VCONST" -> TRUE
              [] e.k \in {"VLOCAL", "VVARGVAR"} -> VarAt(r, Top(r), e.vidx).kind # "VDKREG"
              [] e.k = "VUPVAL" -> Fs(r).ups[e.info + 1].kind # "VDKREG"
              [] OTHER -> e.ro = 1
      q == IF e.k = "VVARGIND" THEN [needvatab(r, Top(r)) EXCEPT !.e.k = "VINDEXED"] ELSE r
  IN IF ro THEN Err(r, "const") ELSE q

AdjustValues(r, nvars, needed) ==
  IF hasmultret(r.e) THEN luaK_setreturns(r, IF needed + 1 < 0 THEN 0 ELSE needed + 1)
  ELSE LET q == IF r.e.k = "VVOID" THEN r ELSE luaK_exp2nextreg(r) IN
       IF needed > 0 THEN luaK_nil(q, Fs(q).freereg, needed) ELSE q
AdjustRegs(r, needed) ==
  IF needed > 0 THEN luaK_reserveregs(r, needed) ELSE [r EXCEPT !.fs[Len(r.fs)].freereg = @ + needed]
adjust_assign(r, nvars, nexps) ==
  AdjustRegs(AdjustValues(luaK_checkstack(r, nvars - nexps), nvars, nvars - nexps), nvars - nexps)

(* Blocks, labels and gotos.  A goto is a jump and a dead CLOSE, which     *)
(* change places if the jump turns out to leave the scope of an upvalue.   *)
enterblock(r, isloop) ==
  LET bls == Fs(r).bl
      bl == [isloop |-> isloop, nactvar |-> Fs(r).nactvar, firstlabel |-> Len(r.labels), firstgoto |-> Len(r.gts),
             upval |-> FALSE, insidetbc |-> bls # <<>> /\ Last(bls).insidetbc]
  IN lua_assert([r EXCEPT !.fs[Len(r.fs)].bl = Append(@, bl)], "a block starts above its variables",
                Fs(r).freereg = luaY_nvarstack(r))
Entry(r, name, pc) == [name |-> name, nactvar |-> Fs(r).nactvar, close |-> FALSE, pc |-> pc]
newgotoentry(r, name) ==
  [luaK_codeABC(luaK_jump(r), "CLOSE", 0, 1, 0) EXCEPT !.gts = Append(@, Entry(r, name, Pc(r)))]
(* Mutant: a label at the end of a block is in the scope of its locals.    *)
createlabelInside(r, name, last) == [luaK_getlabel(r) EXCEPT !.labels = Append(@, Entry(r, name, Pc(r)))]
createlabel(r, name, last) ==
  LET lb == Entry(r, name, Pc(r)) IN
  [luaK_getlabel(r) EXCEPT !.labels = Append(@, IF last THEN [lb EXCEPT !.nactvar = Last(Fs(r).bl).nactvar] ELSE lb)]
Visible(r, name, ilb) == {j \in (ilb + 1)..Len(r.labels) : r.labels[j].name = name}
CloseFirst(r, pc, level) ==
  [r EXCEPT !.fs[Len(r.fs)].code[pc + 2] = CodeAt(r, pc),
            !.fs[Len(r.fs)].code[pc + 1] = Instruction("CLOSE", level, 0, 0, 0)]
closegoto(r, igt, label, bup) ==
  LET gt == r.gts[igt]
      q == [r EXCEPT !.gts = RemoveAt(@, igt)]
  IN IF gt.nactvar < label.nactvar THEN Err(q, "goto into a scope")
     ELSE IF gt.close \/ (label.nactvar < gt.nactvar /\ bup)
     THEN luaK_patchlist(CloseFirst(q, gt.pc, reglevel(r, label.nactvar)), gt.pc + 1, label.pc)
     ELSE luaK_patchlist(q, gt.pc, label.pc)
Outward(r, igt, bl, outlevel) ==
  [r EXCEPT !.gts[igt].close = @ \/ (bl.upval /\ reglevel(r, r.gts[igt].nactvar) > outlevel),
            !.gts[igt].nactvar = bl.nactvar]
RECURSIVE SolveFrom(_, _, _, _)
SolveFrom(r, bl, outlevel, igt) ==
  IF igt > Len(r.gts) THEN r
  ELSE LET lbs == Visible(r, r.gts[igt].name, bl.firstlabel) IN
       IF lbs # {} THEN SolveFrom(closegoto(r, igt, r.labels[Min(lbs)], bl.upval), bl, outlevel, igt)
       ELSE SolveFrom(Outward(r, igt, bl, outlevel), bl, outlevel, igt + 1)
solvegotos(r, bl) ==
  [SolveFrom(r, bl, reglevel(r, bl.nactvar), bl.firstgoto + 1) EXCEPT !.labels = SubSeq(@, 1, bl.firstlabel)]
undefgoto(r, bl) ==
  IF Len(Fs(r).bl) = 1 /\ bl.firstgoto < Len(r.gts)
  THEN lua_assert(Err(r, "no label"), "breaks have their loop", r.gts[bl.firstgoto + 1].name # "break") ELSE r
ClosedBlock(r, bl, level) ==
  IF Len(Fs(r).bl) > 1 /\ bl.upval THEN luaK_codeABC(r, "CLOSE", level, 0, 0) ELSE r
WithoutVars(r, bl, level) == [removevars(r, bl.nactvar) EXCEPT !.fs[Len(r.fs)].freereg = level]
BreakLabel(r, bl) == IF bl.isloop = 2 THEN createlabel(r, "break", FALSE) ELSE r
LeaveBlock(r, bl, level) ==
  [undefgoto(solvegotos(BreakLabel(WithoutVars(ClosedBlock(r, bl, level), bl, level), bl), bl), bl)
     EXCEPT !.fs[Len(r.fs)].bl = Front(@)]
leaveblock(r) == LeaveBlock(r, Last(Fs(r).bl), reglevel(r, Last(Fs(r).bl).nactvar))

(* Functions.                                                              *)
NewFunc(r, line) ==
  [code |-> <<>>, k |-> <<>>, ups |-> <<>>, p |-> <<>>, nactvar |-> 0, firstlocal |-> r.n, firstlabel |-> Len(r.labels),
   bl |-> <<>>, freereg |-> 0, maxstack |-> 2, lasttarget |-> 0, needclose |-> FALSE, numparams |-> 0,
   vahid |-> FALSE, vatab |-> FALSE, lineinfo |-> <<>>, abslineinfo |-> <<>>, lines |-> <<>>,
   linedefined |-> line, previousline |-> line, iwthabs |-> 0]
open_func(r, line) == enterblock([r EXCEPT !.fs = Append(@, NewFunc(r, line))], 0)
PopFunc(r) ==
  IF Top(r) = 1 THEN [r EXCEPT !.fs = <<>>, !.main = luaK_finish(Fs(r))]
  ELSE [r EXCEPT !.fs = [Front(@) EXCEPT ![Top(r) - 1].p = Append(@, luaK_finish(Fs(r)))]]
close_func(r) == IF r.err # "" THEN r ELSE PopFunc(leaveblock(luaK_ret(r, luaY_nvarstack(r), 0)))
(* codeclosure, which touches the enclosing function alone, comes after    *)
(* the function it makes a closure of is closed.                           *)
codeclosure(r) ==
  luaK_exp2nextreg(SetE(luaK_codeABC(r, "CLOSURE", 0, Len(Fs(r).p) - 1, 0), init_exp("VRELOC", Pc(r))))
setvararg(r) == luaK_codeABC([r EXCEPT !.fs[Len(r.fs)].vahid = TRUE], "VARARGPREP", 0, 0, 0)
Vararg(r) ==
  IF Tok(r) = "NAME" THEN new_varkind(luaX_next(r), Val(r), "RDKVAVAR") ELSE new_localvar(r, "(vararg table)")
Params(r, nparams) == LET q == adjustlocalvars(r, nparams) IN [q EXCEPT !.fs[Len(q.fs)].numparams = Fs(q).nactvar]
RegsOfParams(r) == luaK_reserveregs(r, Fs(r).nactvar)
RECURSIVE ParList(_, _)
ParList(r, n) ==
  CASE Tok(r) = "NAME" ->
         LET q == new_localvar(luaX_next(r), Val(r)) IN
         IF Tok(q) = "," THEN ParList(luaX_next(q), n + 1) ELSE RegsOfParams(Params(q, n + 1))
    [] Tok(r) = "..." -> RegsOfParams(adjustlocalvars(setvararg(Params(Vararg(luaX_next(r)), n)), 1))
    [] OTHER -> Err(r, "syntax")
parlist(r) == IF Tok(r) = ")" THEN RegsOfParams(Params(r, 0)) ELSE ParList(r, 0)

(* Expressions.                                                            *)
UnOpr == [x \in {"not", "-", "~", "#"} |-> CASE x = "not" -> "NOT" [] x = "-" -> "UNM" [] x = "~" -> "BNOT" [] x = "#" -> "LEN"]
BinOpr(t) ==
  CASE t = "+" -> "ADD" [] t = "-" -> "SUB" [] t = "*" -> "MUL" [] t = "%" -> "MOD" [] t = "/" -> "DIV" [] t = "//" -> "IDIV"
    [] t = "&" -> "BAND" [] t = "|" -> "BOR" [] t = "<<" -> "SHL" [] t = ">>" -> "SHR" [] t = ".." -> "CONCAT"
    [] t = "~=" -> "NE" [] t = "==" -> "EQ" [] t = "<" -> "LT" [] t = "<=" -> "LE" [] t = ">" -> "GT" [] t = ">=" -> "GE"
    [] t = "and" -> "AND" [] t = "or" -> "OR" [] OTHER -> "none"
Priority(op) ==         \* left and right
  CASE op \in {"ADD", "SUB"} -> <<10, 10>>
    [] op \in {"MUL", "MOD", "DIV", "IDIV"} -> <<11, 11>>
    [] op = "BAND" -> <<6, 6>> [] op = "BOR" -> <<4, 4>>
    [] op \in {"SHL", "SHR"} -> <<7, 7>>
    [] op = "CONCAT" -> <<9, 8>>
    [] op \in {"EQ", "LT", "LE", "NE", "GT", "GE"} -> <<3, 3>>
    [] op = "AND" -> <<2, 2>> [] op = "OR" -> <<1, 1>>
UNARY_PRIORITY == 12

RECURSIVE subexpr(_, _)
RECURSIVE statlist(_)
RECURSIVE SuffixesFrom(_)
expr(r) == subexpr(r, 0)

RECURSIVE ExpTail(_, _)
ExpTail(r, n) == IF r.err = "" /\ Tok(r) = "," THEN ExpTail(expr(luaK_exp2nextreg(luaX_next(r))), n + 1) ELSE [r EXCEPT !.count = n]
explist(r) == ExpTail(expr(r), 1)
yindex(r) == checknext(luaK_exp2val(expr(luaX_next(r))), "]")
NamedField(r) == FieldOf(luaX_next(r), Str(Val(r)))
fieldsel1(r) == IF Tok(r) = "NAME" THEN NamedField(r) ELSE Err(r, "syntax")
fieldsel(r) == fieldsel1(luaX_next(luaK_exp2anyregup(r)))

(* Constructors: cc is [t, nh, na, tostore, max], the pending item is e.   *)
maxtostore(r) ==
  LET free == MAX_FSTACK - Fs(r).freereg IN IF free >= Lots THEN free \div 5 ELSE IF free >= Some THEN Batch ELSE 1
KeyOfField(r) == IF Tok(r) = "NAME" THEN SetE(luaX_next(r), Str(Val(r))) ELSE yindex(r)
IntoTable(r, cc) == luaK_indexed([r EXCEPT !.o = r.e, !.e = init_exp("VNONRELOC", cc.t)])
StoreIn(r, var) == luaK_storevar([r EXCEPT !.o = var])
RecValue(r) == StoreIn(expr(r), r.e)
recfield(r, cc) ==
  [RecValue(IntoTable(checknext(KeyOfField(r), "="), cc)) EXCEPT !.fs[Len(r.fs)].freereg = Fs(r).freereg, !.e = init_exp("VVOID", 0)]
Listed(r, cc) == IF cc.tostore >= cc.max THEN luaK_setlist(r, cc.t, cc.na, cc.tostore) ELSE r
closelistfield(r, cc) ==
  [Listed(lua_assert(luaK_exp2nextreg(r), "a list item", cc.tostore > 0), cc) EXCEPT !.e = init_exp("VVOID", 0)]
Stored(cc) == IF cc.tostore >= cc.max THEN [cc EXCEPT !.na = @ + cc.tostore, !.tostore = 0] ELSE cc
lastlistfield(r, cc) ==
  IF cc.tostore = 0 THEN r
  ELSE IF hasmultret(r.e) THEN luaK_setlist(luaK_setmultret(r), cc.t, cc.na, LUA_MULTRET)
  ELSE luaK_setlist(IF r.e.k = "VVOID" THEN r ELSE luaK_exp2nextreg(r), cc.t, cc.na, cc.tostore)
Items(cc, e) == IF cc.tostore = 0 THEN cc.na ELSE IF hasmultret(e) THEN cc.na + cc.tostore - 1 ELSE cc.na + cc.tostore
EndConstructor(r, pc, cc) ==
  SetE(luaK_settablesize(lastlistfield(check_match(r, "}"), cc), pc, cc.t, Items(cc, r.e), cc.nh), init_exp("VNONRELOC", cc.t))
RECURSIVE Fields(_, _, _)
Separated(r, pc, cc) ==
  IF Tok(r) \in {",", ";"} THEN Fields(luaX_next(r), pc, cc) ELSE EndConstructor(r, pc, cc)
field(r, pc, cc) ==
  IF Tok(r) = "[" \/ (Tok(r) = "NAME" /\ luaX_lookahead(r) = "=")
  THEN Separated(recfield(r, cc), pc, [cc EXCEPT !.nh = @ + 1])
  ELSE Separated(expr(r), pc, [cc EXCEPT !.tostore = @ + 1])
Fields(r, pc, cc) ==
  IF Tok(r) = "}" THEN EndConstructor(r, pc, cc)
  ELSE IF r.e.k = "VVOID" THEN field(r, pc, cc) ELSE field(closelistfield(r, cc), pc, Stored(cc))
Constructor(r, pc, reg) ==
  Fields(SetE(checknext(r, "{"), init_exp("VVOID", 0)), pc, [t |-> reg, nh |-> 0, na |-> 0, tostore |-> 0, max |-> maxtostore(r)])
constructor(r) ==
  Constructor(luaK_reserveregs(luaK_codeABC(luaK_codeABC(r, "NEWTABLE", 0, 0, 0), "EXTRAARG", 0, 0, 0), 1), Pc(r), Fs(r).freereg)

(* Calls and the other suffixes.                                           *)
Called(r, base, nparams, line) ==
  [luaK_fixline(SetE(luaK_codeABC(r, "CALL", base, nparams + 1, 2), init_exp("VCALL", Pc(r))), line)
     EXCEPT !.fs[Len(r.fs)].freereg = base + 1]
CalledFixed(r, base, line) == Called(r, base, Fs(r).freereg - (base + 1), line)
CallWith(r, base, line) ==
  IF r.err # "" THEN r ELSE IF hasmultret(r.e) THEN Called(luaK_setmultret(r), base, LUA_MULTRET, line)
  ELSE CalledFixed(IF r.e.k = "VVOID" THEN r ELSE luaK_exp2nextreg(r), base, line)
Arguments(r) ==
  IF Tok(r) = ")" THEN luaX_next(SetE(r, init_exp("VVOID", 0))) ELSE check_match(explist(r), ")")
Args(r) ==
  CASE Tok(r) = "(" -> Arguments(luaX_next(r))
    [] Tok(r) = "{" -> constructor(r)
    [] Tok(r) = "STR" -> SetE(luaX_next(r), Str(Val(r)))
    [] OTHER -> Err(r, "syntax")
funcargs(r) == CallWith(lua_assert(Args(r), "a function to call", r.e.k = "VNONRELOC"), r.e.info, linenumber(r))
Method(r) ==
  IF Tok(r) = "NAME" THEN funcargs(luaK_self([luaX_next(r) EXCEPT !.o = Str(Val(r))])) ELSE Err(r, "syntax")
KeyedBy(r, t) == luaK_indexed([r EXCEPT !.o = r.e, !.e = t])
Bracketed(r) == KeyedBy(yindex(r), r.e)
SuffixesFrom(r) ==
  CASE Tok(r) = "." -> SuffixesFrom(fieldsel(r))
    [] Tok(r) = "[" -> SuffixesFrom(Bracketed(luaK_exp2anyregup(r)))
    [] Tok(r) = ":" -> SuffixesFrom(Method(luaX_next(r)))
    [] Tok(r) \in {"(", "STR", "{"} -> SuffixesFrom(funcargs(luaK_exp2nextreg(r)))
    [] OTHER -> r
primaryexp(r) ==
  CASE Tok(r) = "(" -> luaK_dischargevars(check_match(expr(luaX_next(r)), ")"))
    [] Tok(r) = "NAME" -> singlevar(r)
    [] OTHER -> Err(r, "syntax")
suffixedexp(r) == SuffixesFrom(primaryexp(r))

MethodSelf(r, ismethod) == IF ismethod THEN adjustlocalvars(new_localvar(r, "self"), 1) ELSE r
EndBody(r) == IF r.err # "" THEN r ELSE codeclosure(close_func(check_match(r, "end")))
body(r, ismethod, line) ==
  EndBody(statlist(checknext(parlist(MethodSelf(checknext(open_func(r, line), "("), ismethod)), ")")))

simpleexp(r) ==
  CASE Tok(r) = "INT" -> luaX_next(SetE(r, Valued("VKINT", <<"int", Val(r)>>)))
    [] Tok(r) = "FLT" -> luaX_next(SetE(r, Valued("VKFLT", <<"flt", Val(r)>>)))
    [] Tok(r) = "STR" -> luaX_next(SetE(r, Str(Val(r))))
    [] Tok(r) = "nil" -> luaX_next(SetE(r, init_exp("VNIL", 0)))
    [] Tok(r) = "true" -> luaX_next(SetE(r, init_exp("VTRUE", 0)))
    [] Tok(r) = "false" -> luaX_next(SetE(r, init_exp("VFALSE", 0)))
    [] Tok(r) = "..." -> IF ~(Fs(r).vahid \/ Fs(r).vatab) THEN Err(r, "... outside a vararg function")
                         ELSE luaX_next(SetE(luaK_codeABC(r, "VARARG", 0, Fs(r).numparams, 1), init_exp("VVARARG", Pc(r))))
    [] Tok(r) = "{" -> constructor(r)
    [] Tok(r) = "function" -> body(luaX_next(r), FALSE, linenumber(luaX_next(r)))
    [] OTHER -> suffixedexp(r)
Paired(r, e1) == [r EXCEPT !.o = r.e, !.e = e1]
SecondOperand(r, op, line) == luaK_posfix(Paired(subexpr(r, Priority(op)[2]), r.e), op, line)
RECURSIVE Binaries(_, _)
Binaries(r, limit) ==
  LET op == BinOpr(Tok(r)) IN
  IF r.err = "" /\ op # "none" /\ Priority(op)[1] > limit
  THEN Binaries(SecondOperand(luaK_infix(luaX_next(r), op), op, linenumber(r)), limit)
  ELSE r
FirstOperand(r) ==
  IF Tok(r) \in DOMAIN UnOpr THEN luaK_prefix(subexpr(luaX_next(r), UNARY_PRIORITY), UnOpr[Tok(r)], linenumber(r)) ELSE simpleexp(r)
subexpr(r, limit) == Binaries(FirstOperand(r), limit)

(* Assignments: the targets wait in lhs until the values are there.        *)
Moved(lh, v, extra) ==
  IF lh.k = "VINDEXUP"
  THEN IF v.k = "VUPVAL" /\ lh.tab = v.info THEN [lh EXCEPT !.k = "VINDEXSTR", !.tab = extra] ELSE lh
  ELSE IF vkisindexed(lh) /\ v.k = "VLOCAL"
  THEN [lh EXCEPT !.tab = IF @ = v.info THEN extra ELSE @, !.idx = IF lh.k = "VINDEXED" /\ @ = v.info THEN extra ELSE @]
  ELSE lh
(* Mutant: the local that an earlier target needs is assigned all the same.*)
check_conflictNever(r, nvars) == r
check_conflict(r, nvars) ==
  LET extra == Fs(r).freereg
      first == Len(r.lhs) - nvars
      lhs == [x \in DOMAIN r.lhs |-> IF x > first THEN Moved(r.lhs[x], r.e, extra) ELSE r.lhs[x]]
  IN IF lhs = r.lhs THEN r
     ELSE luaK_reserveregs(luaK_codeABC([r EXCEPT !.lhs = lhs], IF r.e.k = "VLOCAL" THEN "MOVE" ELSE "GETUPVAL", extra, r.e.info, 0), 1)
Target(r) == [r EXCEPT !.lhs = Append(@, r.e)]
StoreLast(r) == luaK_storevar([r EXCEPT !.o = Last(r.lhs), !.lhs = Front(@)])
storevartop(r) == StoreLast(SetE(r, init_exp("VNONRELOC", Fs(r).freereg - 1)))
RECURSIVE restassign(_, _)
NextTarget(r, nvars) == restassign(IF vkisindexed(r.e) THEN r ELSE check_conflict(r, nvars), nvars + 1)
AssignValues(r, nvars) ==
  IF r.err # "" THEN r ELSE IF r.count # nvars THEN storevartop(adjust_assign(r, nvars, r.count)) ELSE StoreLast(luaK_setoneret(r))
Targets(r, nvars) ==
  IF Tok(r) = "," THEN storevartop(NextTarget(suffixedexp(luaX_next(r)), nvars))
  ELSE AssignValues(explist(checknext(r, "=")), nvars)
restassign(r, nvars) == IF r.err # "" THEN r ELSE Targets(Target(IF vkisvar(r.e) THEN check_readonly(r) ELSE Err(r, "syntax")), nvars)
ExprStat(r) ==
  IF r.err # "" THEN r ELSE IF Tok(r) \in {"=", ","} THEN restassign(r, 1)
  ELSE IF r.e.k = "VCALL" THEN [r EXCEPT !.fs[Len(r.fs)].code[r.e.info + 1].c = 1]
  ELSE Err(r, "syntax")
exprstat(r) == ExprStat(suffixedexp(r))

(* Statements.                                                             *)
EndBlock(r) == IF r.err # "" THEN r ELSE leaveblock(r)
block(r) == EndBlock(statlist(enterblock(r, 0)))
cond1(r) == luaK_goiftrue(IF r.e.k = "VNIL" THEN [r EXCEPT !.e.k = "VFALSE"] ELSE r)
cond(r) == cond1(expr(r))       \* its exits are e.f
luaK_jumpto(r, target) == luaK_patchlist(luaK_jump(r), Pc(r), target)

Loops(r) == {b \in DOMAIN Fs(r).bl : Fs(r).bl[b].isloop # 0}
breakstat(r) ==
  IF Loops(r) = {} THEN Err(r, "break outside a loop")
  ELSE newgotoentry(luaX_next([r EXCEPT !.fs[Len(r.fs)].bl[Max(Loops(r))].isloop = 2]), "break")
gotostat(r) == IF Tok(r) = "NAME" THEN newgotoentry(luaX_next(r), Val(r)) ELSE Err(r, "syntax")
RECURSIVE statement(_)
RECURSIVE VoidStats(_)
VoidStats(r) == IF Tok(r) \in {";", "::"} THEN VoidStats(statement(r)) ELSE r
checkrepeated(r, name) == IF Visible(r, name, Fs(r).firstlabel) # {} THEN Err(r, "label twice") ELSE r
Label(r, name) == createlabel(checkrepeated(r, name), name, block_follow(r, FALSE))
labelstat(r) ==
  IF Tok(r) = "NAME" THEN Label(VoidStats(checknext(luaX_next(r), "::")), Val(r)) ELSE Err(r, "syntax")

WhileEnd(r, init, condexit) ==
  IF r.err # "" THEN r ELSE luaK_patchtohere(leaveblock(check_match(luaK_jumpto(r, init), "end")), condexit)
WhileCond(r, init) == IF r.err # "" THEN r ELSE WhileEnd(block(checknext(enterblock(r, 1), "do")), init, r.e.f)
whilestat(r) == WhileCond(cond(luaK_getlabel(luaX_next(r))), Pc(r))

(* The exit of a repeat that has upvalues to close when it is taken again. *)
CloseAgain(r, condexit, level) ==
  luaK_jump(luaK_codeABC(luaK_patchtohere(luaK_jump(r), condexit), "CLOSE", level, 0, 0))
(* Mutant: what the body has made is not closed before it runs again.      *)
RepeatEndOpen(r, condexit, init, bl) == luaK_patchlist(r, condexit, init)
RepeatEnd(r, condexit, init, bl) ==
  IF bl.upval
  THEN LET q == CloseAgain(r, condexit, reglevel(r, bl.nactvar)) IN
       luaK_patchlist(luaK_patchtohere(q, Pc(r)), Pc(q) - 1, init)
  ELSE luaK_patchlist(r, condexit, init)
RepeatCond(r, init) == IF r.err # "" THEN r ELSE leaveblock(RepeatEnd(leaveblock(r), r.e.f, init, Last(Fs(r).bl)))
RepeatUntil(r) == IF r.err # "" THEN r ELSE cond(check_match(r, "until"))
repeatstat(r) ==
  RepeatCond(RepeatUntil(statlist(luaX_next(enterblock(enterblock(luaK_getlabel(r), 1), 0)))), Pc(r))

exp1(r) == luaK_exp2nextreg(expr(r))
fixforjump(r, pc, dest, back) ==
  LET offset == IF back THEN pc + 1 - dest ELSE dest - (pc + 1) IN
  luaY_checklimit([r EXCEPT !.fs[Len(r.fs)].code[pc + 1].b = offset], offset, MAXARG_Bx, "limit")
ForEnd(r, prep, op, base, line) ==
  luaK_fixline(fixforjump(luaK_codeABC(r, op, base, 0, 0), Pc(r), prep + 1, TRUE), line)
ForCall(r, prep, base, nvars, line, isgen) ==
  IF isgen THEN ForEnd(luaK_fixline(luaK_codeABC(r, "TFORCALL", base, 0, nvars), line), prep, "TFORLOOP", base, line)
  ELSE ForEnd(r, prep, "FORLOOP", base, line)
ForPrep(r, op, base) == [luaK_codeABC(r, op, base, 0, 0) EXCEPT !.fs[Len(r.fs)].freereg = @ - 1]
ForScope(r, nvars) == EndBlock(block(luaK_reserveregs(adjustlocalvars(enterblock(r, 0), nvars), nvars)))
AfterBody(r, prep, base, nvars, line, isgen) ==
  IF r.err # "" THEN r ELSE ForCall(fixforjump(luaK_getlabel(r), prep, Pc(r), FALSE), prep, base, nvars, line, isgen)
ForBody(r, base, line, nvars, isgen) ==
  IF r.err # "" THEN r ELSE AfterBody(ForScope(ForPrep(r, IF isgen THEN "TFORPREP" ELSE "FORPREP", base), nvars), Pc(r), base, nvars, line, isgen)
forbody(r, base, line, nvars, isgen) == ForBody(checknext(r, "do"), base, line, nvars, isgen)
Step(r) == IF Tok(r) = "," THEN exp1(luaX_next(r)) ELSE luaK_reserveregs(luaK_int(r, Fs(r).freereg, 1), 1)
ForStates(r, n) == [x \in 1..n |-> "(for state)"]
RECURSIVE NewVars(_, _)
NewVars(r, names) == IF names = <<>> THEN r ELSE NewVars(new_localvar(r, Head(names)), Tail(names))
fornum(r, name, line) ==
  forbody(adjustlocalvars(Step(exp1(checknext(exp1(checknext(
            new_varkind(NewVars(r, ForStates(r, 2)), name, "RDKCONST"), "=")), ","))), 2), Fs(r).freereg, line, 1, FALSE)
Adjusted(r, nvars) == adjust_assign(r, nvars, r.count)
ForIn(r, base, line, nvars) ==
  forbody(luaK_checkstack(marktobeclosed(adjustlocalvars(Adjusted(explist(r), 4), 3)), 2), base, line, nvars - 3, TRUE)
RECURSIVE ForNames(_, _, _)
ForNames(r, base, nvars) ==
  IF Tok(r) = "," /\ luaX_lookahead(r) = "NAME"
  THEN ForNames(new_localvar(luaX_next(luaX_next(r)), Val(luaX_next(r))), base, nvars + 1)
  ELSE ForIn(checknext(r, "in"), base, linenumber(luaX_next(r)), nvars)
forlist(r, name) == ForNames(new_varkind(NewVars(r, ForStates(r, 3)), name, "RDKCONST"), Fs(r).freereg, 4)
ForKind(r, name, line) ==
  CASE Tok(r) = "=" -> fornum(r, name, line)
    [] Tok(r) \in {",", "in"} -> forlist(r, name)
    [] OTHER -> Err(r, "syntax")
ForName(r, line) == IF Tok(r) = "NAME" THEN ForKind(luaX_next(r), Val(r), line) ELSE Err(r, "syntax")
ForStatEnd(r) == IF r.err # "" THEN r ELSE leaveblock(check_match(r, "end"))
forstat(r) == ForStatEnd(ForName(luaX_next(enterblock(r, 1)), linenumber(r)))

RECURSIVE test_then_block(_, _)
IfEnd(r, escapes) == luaK_patchtohere(check_match(r, "end"), escapes)
ElsePart(r, escapes) ==
  CASE Tok(r) = "elseif" -> test_then_block(r, escapes)
    [] Tok(r) = "else" -> IfEnd(block(luaX_next(r)), escapes)
    [] OTHER -> IfEnd(r, escapes)
AfterThen(r, condtrue, escapes) ==
  IF Tok(r) \in {"else", "elseif"}
  THEN ElsePart(luaK_patchtohere(luaK_concat(luaK_jump(r), escapes, Pc(r)), condtrue), Joined(escapes, Pc(r)))
  ELSE ElsePart(luaK_patchtohere(r, condtrue), escapes)
ThenBlock(r, escapes) == IF r.err # "" THEN r ELSE AfterThen(block(checknext(r, "then")), r.e.f, escapes)
test_then_block(r, escapes) == ThenBlock(cond(luaX_next(r)), escapes)
ifstat(r) == test_then_block(r, NO_JUMP)

LocalFunc(r, name) == body(adjustlocalvars(new_localvar(r, name), 1), FALSE, linenumber(r))
localfunc(r) == IF Tok(r) = "NAME" THEN LocalFunc(luaX_next(r), Val(r)) ELSE Err(r, "syntax")

(* getvarattribute leaves what it read in attr.                            *)
Attributed(r) ==
  checknext(luaX_next(checkname(CASE Val(r) = "const" -> [r EXCEPT !.attr = "RDKCONST"]
                                  [] Val(r) = "close" -> [r EXCEPT !.attr = "RDKTOCLOSE"]
                                  [] OTHER -> Err(r, "attribute"))), ">")
getvarattribute(r, df) == IF Tok(r) = "<" THEN Attributed(checkname(luaX_next(r))) ELSE [r EXCEPT !.attr = df]
checktoclose(r, level) ==
  IF level = -1 THEN r ELSE luaK_codeABC(marktobeclosed(r), "TBC", reglevel(r, level), 0, 0)
CompileTime(r, nvars) ==
  [adjustlocalvars([r EXCEPT !.vars[r.n] = [@ EXCEPT !.kind = "RDKCTC", !.v = luaK_exp2const(r, r.e)]], nvars - 1)
     EXCEPT !.fs[Len(r.fs)].nactvar = Fs(r).nactvar + nvars]
LocalValues(r, nvars, toclose) ==
  IF r.err # "" THEN r ELSE checktoclose(IF nvars = r.count /\ r.vars[r.n].kind = "RDKCONST" /\ IsConstant(r.e) THEN CompileTime(r, nvars)
               ELSE adjustlocalvars(adjust_assign(r, nvars, r.count), nvars), toclose)
Values(r) == IF Tok(r) = "=" THEN explist(luaX_next(r)) ELSE [SetE(r, init_exp("VVOID", 0)) EXCEPT !.count = 0]
RECURSIVE LocalNames(_, _, _, _)
LocalMore(r, defkind, nvars, toclose) ==
  IF Tok(r) = "," THEN LocalNames(luaX_next(r), defkind, nvars, toclose) ELSE LocalValues(Values(r), nvars, toclose)
LocalKind(r, name, defkind, nvars, toclose) ==
  IF r.attr # "RDKTOCLOSE" THEN LocalMore(new_varkind(r, name, r.attr), defkind, nvars + 1, toclose)
  ELSE IF toclose # -1 THEN Err(r, "two to close")
  ELSE LocalMore(new_varkind(r, name, r.attr), defkind, nvars + 1, Fs(r).nactvar + nvars)
LocalNames(r, defkind, nvars, toclose) ==
  IF Tok(r) = "NAME" THEN LocalKind(getvarattribute(luaX_next(r), defkind), Val(r), defkind, nvars, toclose) ELSE Err(r, "syntax")
LocalDefault(r) == LocalNames(r, r.attr, 0, -1)
localstat(r) == LocalDefault(getvarattribute(r, "VDKREG"))

(* Declarations of globals.                                                *)
GlobalKind(r) ==
  CASE r.attr = "RDKTOCLOSE" -> Err(r, "global to close")
    [] r.attr = "RDKCONST" -> [r EXCEPT !.attr = "GDKCONST"]
    [] OTHER -> r
getglobalattribute(r, df) == GlobalKind(getvarattribute(r, df))
CheckGlobal(r, line) == luaK_codecheckglobal(r, r.e.keystr, line)
checkglobal(r, name, line) == CheckGlobal(buildglobal(r, name), line)
StoreTopIn(r, var) == StoreIn(SetE(r, init_exp("VNONRELOC", Fs(r).freereg - 1)), var)
RECURSIVE initglobal(_, _, _, _, _)
InitNext(r, nvars, firstidx, n, line) ==
  StoreTopIn(checkglobal(initglobal(r, nvars, firstidx, n + 1, line), VarAt(r, Top(r), firstidx + n).name, line), r.e)
initglobal(r, nvars, firstidx, n, line) ==
  IF n = nvars THEN Adjusted(explist(r), nvars)
  ELSE InitNext(buildglobal(r, VarAt(r, Top(r), firstidx + n).name), nvars, firstidx, n, line)
InitGlobals(r, nvars) ==
  IF Tok(r) = "=" THEN initglobal(luaX_next(r), nvars, r.n - nvars - Fs(r).firstlocal, 0, linenumber(luaX_next(r))) ELSE r
RECURSIVE globalnames(_, _, _)
NamedGlobal(r, name, defkind, nvars) ==
  LET q == new_varkind(r, name, r.attr) IN
  IF Tok(q) = "," THEN globalnames(luaX_next(q), defkind, nvars + 1)
  ELSE [InitGlobals(q, nvars + 1) EXCEPT !.fs[Len(r.fs)].nactvar = @ + nvars + 1]
globalnames(r, defkind, nvars) ==
  IF Tok(r) = "NAME" THEN NamedGlobal(getglobalattribute(luaX_next(r), defkind), Val(r), defkind, nvars) ELSE Err(r, "syntax")
Collective(r) == [new_varkind(r, "*", r.attr) EXCEPT !.fs[Len(r.fs)].nactvar = @ + 1]
GlobalDefault(r) == IF Tok(r) = "*" THEN Collective(luaX_next(r)) ELSE globalnames(r, r.attr, 0)
globalstat(r) == GlobalDefault(getglobalattribute(r, "GDKREG"))
GlobalBody(r, name, line, var) == luaK_fixline(StoreIn(SetE(checkglobal(r, name, line), r.e), var), line)
GlobalVar(r, name, line) == GlobalBody(body(r, FALSE, linenumber(r)), name, line, r.e)
GlobalFunc(r, name, line) ==
  GlobalVar(buildglobal([new_varkind(r, name, "GDKREG") EXCEPT !.fs[Len(r.fs)].nactvar = @ + 1], name), name, line)
globalfunc(r, line) == IF Tok(r) = "NAME" THEN GlobalFunc(luaX_next(r), Val(r), line) ELSE Err(r, "syntax")
globalstatfunc(r, line) == IF Tok(r) = "function" THEN globalfunc(luaX_next(r), line) ELSE globalstat(r)

FuncBody(r, var, line) == luaK_fixline(StoreIn(r, var), line)
FuncNamed(r, ismethod, line) == FuncBody(body(check_readonly(r), ismethod, line), check_readonly(r).e, line)
RECURSIVE funcname(_, _)
funcname(r, line) ==
  CASE Tok(r) = "." -> funcname(fieldsel(r), line)
    [] Tok(r) = ":" -> FuncNamed(fieldsel(r), TRUE, line)
    [] OTHER -> FuncNamed(r, FALSE, line)
funcstat(r, line) == funcname(singlevar(luaX_next(r)), line)

(* The one value of a return, when it is a call, is a tail call.           *)
TailCall(r, first) ==
  IF r.e.k = "VCALL" /\ r.count = 1 /\ ~Last(Fs(r).bl).insidetbc
  THEN lua_assert([r EXCEPT !.fs[Len(r.fs)].code[r.e.info + 1].op = "TAILCALL"], "a tail call is above the variables",
                  CodeAt(r, r.e.info).a = first)
  ELSE r
ReturnOne(r) == luaK_ret(r, r.e.info, 1)
ReturnMany(r, first) == lua_assert(luaK_ret(r, first, r.count), "what is returned", r.count = Fs(r).freereg - first)
ReturnList(r, first) ==
  IF r.err # "" THEN r ELSE IF hasmultret(r.e) THEN luaK_ret(TailCall(luaK_setmultret(r), first), first, LUA_MULTRET)
  ELSE IF r.count = 1 THEN ReturnOne(luaK_exp2anyreg(r))
  ELSE ReturnMany(luaK_exp2nextreg(r), first)
ReturnValues(r) ==
  IF block_follow(r, TRUE) \/ Tok(r) = ";" THEN luaK_ret(r, luaY_nvarstack(r), 0) ELSE ReturnList(explist(r), luaY_nvarstack(r))
Semicolon(r) == IF Tok(r) = ";" THEN luaX_next(r) ELSE r
retstat(r) == Semicolon(ReturnValues(r))

Statement(r) ==
  CASE Tok(r) = ";" -> luaX_next(r)
    [] Tok(r) = "if" -> ifstat(r)
    [] Tok(r) = "while" -> whilestat(r)
    [] Tok(r) = "do" -> check_match(block(luaX_next(r)), "end")
    [] Tok(r) = "for" -> forstat(r)
    [] Tok(r) = "repeat" -> repeatstat(r)
    [] Tok(r) = "function" -> funcstat(r, linenumber(r))
    [] Tok(r) = "local" -> IF luaX_lookahead(r) = "function" THEN localfunc(luaX_next(luaX_next(r))) ELSE localstat(luaX_next(r))
    [] Tok(r) = "::" -> labelstat(luaX_next(r))
    [] Tok(r) = "return" -> retstat(luaX_next(r))
    [] Tok(r) = "break" -> breakstat(r)
    [] Tok(r) = "goto" -> gotostat(luaX_next(r))
    [] Tok(r) = "NAME" /\ Val(r) = "global" /\ luaX_lookahead(r) \in {"<", "NAME", "*", "function"} ->
         globalstatfunc(luaX_next(r), linenumber(r))
    [] OTHER -> exprstat(r)
Statement1(r) ==
  IF r.err # "" THEN r ELSE
  lua_assert([r EXCEPT !.fs[Len(r.fs)].freereg = luaY_nvarstack(r)], "registers at the end of a statement",
             Fs(r).maxstack >= Fs(r).freereg /\ Fs(r).freereg >= luaY_nvarstack(r))
statement(r) == Statement1(Statement(r))
statlist(r) ==
  IF r.err # "" \/ block_follow(r, TRUE) THEN r ELSE IF Tok(r) = "return" THEN statement(r) ELSE statlist(statement(r))

(* A chunk is a vararg function with one upvalue, _ENV.                    *)
Compiling(s, lay) ==
  [s |-> s, i |-> 1, lay |-> lay, fs |-> <<>>, vars |-> <<>>, n |-> 0, gts |-> <<>>, labels |-> <<>>, lhs |-> <<>>,
   e |-> init_exp("VVOID", 0), o |-> init_exp("VVOID", 0), count |-> 0, attr |-> "", err |-> "", bad |-> {},
   main |-> [code |-> <<>>]]
Env == [name |-> "_ENV", instack |-> TRUE, idx |-> 0, kind |-> "VDKREG"]
AtEnd(r) == IF Tok(r) = "EOS" THEN r ELSE Err(r, "syntax")
mainfunc(r) == close_func(AtEnd(statlist([setvararg(open_func(r, 0)) EXCEPT !.fs[1].ups = <<Env>>])))
luaY_parser1(r) ==
  lua_assert(r, "nothing is left over", Len(r.main.ups) = 1 /\ r.fs = <<>> /\ r.n = 0 /\ r.gts = <<>> /\ r.labels = <<>>)
luaY_parser(s, lay) == luaY_parser1(mainfunc(Compiling(s, lay)))
=============================================================================
