------------------------------- MODULE LuaVM -------------------------------
(***************************************************************************)
(* The part of the Lua 5.5 virtual machine that generated code reaches:    *)
(* luaV_execute (src/luavm/src/lvm.c), calls and returns (ldo.c), hidden   *)
(* arguments (ltm.c).  One action per instruction.  Registers are slots of *)
(* one stack, and a frame is a window on it, so what an instruction writes *)
(* outside its frame is seen by the others.                                *)
(*                                                                         *)
(* _ENV has no metatable.  Collection and reallocation of the stack have   *)
(* no effect on what a program computes and are left out.                  *)
(***************************************************************************)
EXTENDS LuaValues, Sequences

CONSTANTS
  Globals,    \* names a program may look up in _ENV
  LongNames,  \* those longer than LUAI_MAXSHORTLEN
  MAXSTACK    \* stack slots there may be

VARIABLES
  protos,   \* the loaded prototypes, the main one last; not changed here
  stack,
  top,      \* L->top
  frames,   \* CallInfos of Lua functions, the running one last
  env,      \* _ENV
  outputs,  \* values println received
  status    \* "unloaded", "running", "ok" or "error"

vmVars == <<stack, top, frames, env, outputs, status>>

EXTRA_STACK == 5
Slots == 0..(MAXSTACK + EXTRA_STACK)

VMInit ==
  /\ stack = [s \in Slots |-> Nil] /\ top = 1
  /\ frames = <<>>
  /\ env = [g \in Globals |-> IF g = "println" THEN Println ELSE Nil]
  /\ outputs = <<>>
  /\ status = "unloaded"

----------------------------------------------------------------------------
(* The running frame and its instruction.                                  *)

ci == frames[Len(frames)]
proto == protos[ci.proto]
i == proto.code[ci.pc + 1]
base == ci.func + 1
RA == base + i.a
RB == base + i.b
RC == base + i.c
K(n) == proto.constants[n + 1]
KValue(k) == IF k.kind = "int" THEN IntValue(k.int) ELSE FloatValue(k.num, k.den)

Running(ops) == status = "running" /\ i.op \in ops
goto(pc) == frames' = [frames EXCEPT ![Len(frames)].pc = pc]
step(n) == goto(ci.pc + n)
set(slot, v) == stack' = [stack EXCEPT ![slot] = v]

(* docondjump: the next instruction is skipped, or it is a jump to take.   *)
docondjump(cond) ==
  IF cond # (i.k = 1) THEN step(2)
  ELSE goto(ci.pc + 2 + proto.code[ci.pc + 2].b)

(* luaG_runerror under lua_pcall: the frames are gone, and the message is  *)
(* where the function was.                                                 *)
runerror ==
  /\ status' = "error"
  /\ frames' = <<>>
  /\ top' = 2
  /\ set(1, <<"message">>)
  /\ UNCHANGED <<env, outputs>>

----------------------------------------------------------------------------
(* Calls.                                                                  *)

(* luaD_precall of a Lua function with prototype p; missing arguments are  *)
(* nil.  pc is where the caller goes on.                                   *)
precallLua(func, newtop, p, numParams, wanted, callers) ==
  LET fsize == protos[p].maxStack + 2
      narg == newtop - func - 1
      nil == {func + n : n \in narg+1..numParams}
  IN IF newtop + fsize > MAXSTACK THEN runerror
     ELSE /\ stack' = [s \in Slots |-> IF s \in nil THEN Nil ELSE stack[s]]
          /\ top' = IF narg < numParams THEN func + 1 + numParams ELSE newtop
          /\ frames' = Append(callers, [func |-> func, proto |-> p, pc |-> 0,
                        wanted |-> wanted, extra |-> 0, top |-> func + 1 + fsize])
          /\ status' = "running"
          /\ UNCHANGED <<env, outputs>>

(* cangjiePrintln, and luaD_poscall of its no results: only a first        *)
(* argument is recorded.                                                   *)
callPrintln(func, newtop, wanted) ==
  /\ outputs' = IF newtop > func + 1 THEN Append(outputs, RuntimeValue(stack[func + 1]))
                ELSE outputs
  /\ stack' = IF wanted = 1 THEN [stack EXCEPT ![func] = Nil] ELSE stack
  /\ top' = func + wanted
  /\ step(1)
  /\ UNCHANGED <<env, status>>

(* lua_load and lua_pcall(0, 1, 0) of the main function.                   *)
Load ==
  /\ status = "unloaded"
  /\ LET loaded == [stack EXCEPT ![1] = Closure([proto |-> Len(protos), numParams |-> 0])]
         fsize == protos[Len(protos)].maxStack + 2
     IN /\ stack' = loaded
        /\ top' = 2
        /\ frames' = <<[func |-> 1, proto |-> Len(protos), pc |-> 0, wanted |-> 1,
                        extra |-> 0, top |-> 2 + fsize]>>
        /\ status' = "running"
  /\ UNCHANGED <<env, outputs, protos>>

Call ==
  /\ Running({"CALL"})
  /\ LET newtop == IF i.b # 0 THEN RA + i.b ELSE top
         f == stack[RA]
         wanted == i.c - 1
     IN \/ /\ f = Println
           /\ callPrintln(RA, newtop, wanted)
        \/ /\ f[1] = "closure"
           /\ precallLua(RA, newtop, f[2].proto, f[2].numParams, wanted,
                         [frames EXCEPT ![Len(frames)].pc = @ + 1])
        \/ /\ f # Println /\ f[1] # "closure"
           /\ runerror
  /\ UNCHANGED protos

(* Back to the caller, or out of lua_pcall; res values from slot from go   *)
(* where the function is.                                                  *)
ret(func, newstack, newtop) ==
  /\ stack' = newstack
  /\ top' = newtop
  /\ frames' = SubSeq(frames, 1, Len(frames) - 1)
  /\ status' = IF Len(frames) = 1 THEN "ok" ELSE "running"
  /\ UNCHANGED <<env, outputs>>

(* One value (the generator's B is 2), which moveresults keeps if wanted.  *)
(* C > 0: func goes back below the hidden arguments of a vararg function.  *)
Return ==
  /\ Running({"RETURN"})
  /\ LET func == IF i.c > 0 THEN ci.func - (ci.extra + i.c) ELSE ci.func
     IN IF ci.wanted = 0 THEN ret(func, stack, func)
        ELSE ret(func, [stack EXCEPT ![func] = stack[RA]], func + 1)
  /\ UNCHANGED protos

Return0 ==
  /\ Running({"RETURN0"})
  /\ LET func == base - 1
     IN ret(func, [s \in Slots |-> IF s \in func..func + ci.wanted - 1 THEN Nil
                                   ELSE stack[s]], func + ci.wanted)
  /\ UNCHANGED protos

(* buildhiddenargs: the function is copied above its arguments and func    *)
(* moves there.                                                            *)
VarargPrep ==
  /\ Running({"VARARGPREP"})
  /\ LET total == top - ci.func - 1
     IN /\ stack' = [stack EXCEPT ![top] = stack[ci.func], ![top + 1] = Nil]
        /\ top' = top + 1
        /\ frames' = [frames EXCEPT ![Len(frames)] =
             [@ EXCEPT !.func = @ + total + 1, !.top = @ + total + 1,
                       !.extra = total, !.pc = @ + 1]]
  /\ UNCHANGED <<protos, env, outputs, status>>

----------------------------------------------------------------------------
(* The other instructions.                                                 *)

Same == UNCHANGED <<protos, top, outputs, status>>

(* The constant LOADK names, or LOADKX in the 25 bits of its EXTRAARG (Ax, *)
(* of which A is the low byte).                                            *)
index == IF i.op = "LOADK" THEN i.b
         ELSE LET x == proto.code[ci.pc + 2] IN x.a + 256 * x.b
width == IF i.op = "LOADK" THEN 1 ELSE 2

Load1 ==
  /\ \/ Running({"MOVE"}) /\ set(RA, stack[RB]) /\ step(1)
     \/ Running({"LOADI"}) /\ set(RA, IntValue(i.b)) /\ step(1)
     \/ Running({"LOADF"}) /\ set(RA, FloatValue(i.b, 1)) /\ step(1)
     \/ Running({"LOADTRUE", "LOADFALSE"}) /\ set(RA, BoolValue(i.op = "LOADTRUE")) /\ step(1)
     \/ Running({"LOADK", "LOADKX"}) /\ set(RA, KValue(K(index))) /\ step(width)
  /\ Same /\ UNCHANGED env

(* A long string is never found among the short ones.                      *)
GetTabUp ==
  /\ Running({"GETTABUP"})
  /\ LET name == K(i.c).str
     IN set(RA, IF name \in LongNames THEN Nil ELSE env[name])
  /\ step(1)
  /\ Same /\ UNCHANGED env

SetTabUp ==
  /\ Running({"SETTABUP"})
  /\ env' = [env EXCEPT ![K(i.b).str] = stack[RC]]
  /\ step(1)
  /\ Same /\ UNCHANGED stack

NewClosure ==
  /\ Running({"CLOSURE"})
  /\ set(RA, Closure(proto.functions[i.b + 1]))
  /\ step(1)
  /\ Same /\ UNCHANGED env

(* A number result skips the MMBIN; else MMBIN finds no metamethod.        *)
Arithmetic ==
  /\ Running({"ADD", "SUB", "MUL", "DIV"})
  /\ IF CanArith(stack[RB], stack[RC])
     THEN set(RA, Arith(i.op, stack[RB], stack[RC])) /\ step(2)
     ELSE UNCHANGED stack /\ step(1)
  /\ Same /\ UNCHANGED env

MMBin == Running({"MMBIN"}) /\ runerror /\ UNCHANGED protos

Jmp ==
  /\ Running({"JMP"})
  /\ goto(ci.pc + 1 + i.b)
  /\ Same /\ UNCHANGED <<stack, env>>

Test ==
  /\ Running({"TEST"})
  /\ docondjump(~IsFalse(stack[RA]))
  /\ Same /\ UNCHANGED <<stack, env>>

Eq ==
  /\ Running({"EQ"})
  /\ docondjump(EqualObj(stack[RA], stack[RB]))
  /\ Same /\ UNCHANGED <<stack, env>>

Order ==
  /\ Running({"LT", "LE"})
  /\ \/ /\ IsNumber(stack[RA]) /\ IsNumber(stack[RB])
        /\ docondjump(IF i.op = "LT" THEN LessThan(stack[RA], stack[RB])
                                     ELSE LessEqual(stack[RA], stack[RB]))
        /\ Same /\ UNCHANGED <<stack, env>>
     \/ /\ ~(IsNumber(stack[RA]) /\ IsNumber(stack[RB]))
        /\ runerror /\ UNCHANGED protos

VMNext ==
  \/ Load \/ Call \/ Return \/ Return0 \/ VarargPrep
  \/ Load1 \/ GetTabUp \/ SetTabUp \/ NewClosure \/ Arithmetic \/ MMBin
  \/ Jmp \/ Test \/ Eq \/ Order
=============================================================================
