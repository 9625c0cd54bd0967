------------------------------- MODULE Calls --------------------------------
(***************************************************************************)
(* Calls, errors and coroutines of the Lua machine: src/luavm/src/ldo.c    *)
(* with lfunc.c (variables to be closed), lstate.c (threads), lcorolib.c   *)
(* and the calls of lvm.c, lapi.c and lbaselib.c.                          *)
(*                                                                         *)
(* A thread has a list of CallInfos and a stack, of which the model keeps  *)
(* the levels.  All threads share the stack of C: cs, a sequence of        *)
(* activations of C functions, each with the place where it waits.  ret is *)
(* what the activation above returned, or "go".  setjmp is an activation   *)
(* "try"; longjmp cuts the stack of C there.                               *)
(*                                                                         *)
(* What programs do is left open: a Lua function calls anything, captures  *)
(* locals, declares variables to be closed, returns or fails at any time.  *)
(***************************************************************************)
EXTENDS Integers, Sequences, FiniteSets, SequencesExt

CONSTANTS Main, Coroutines,     \* threads
          Programs,             \* what a program uses: functions and
                                \* instructions, methods, and LUAI_MAXSTACK
          ErrorSpace,           \* STACKERRSPACE
          MaxCCalls, ErrCCalls  \* LUAI_MAXCCALLS, and a tenth more

Threads == {Main} \cup Coroutines
FrameSize == 4                  \* registers of a Lua function
MinStack == 2                   \* LUA_MINSTACK
Errors == {"run", "mem", "err"}
FunctionNames == {"lua", "pcall", "xpcall", "cont", "callback", "error", "yield", "yieldk", "tbc", "resume", "wrap", "close"}

ASSUME ThreadsAssumption == Main \notin Coroutines
ASSUME MethodsAssumption == \A p \in Programs : p.methods \subseteq FunctionNames

VARIABLES m,    \* the machine: L (of each thread), cs, ret and asserts
          program
vars == <<m, program>>

----------------------------------------------------------------------------
(* CallInfos, threads and activations.                                     *)

prepCallInfo(fn, func, top, fresh) ==
  [fn |-> fn, func |-> func, top |-> top, fresh |-> fresh, tbc |-> FALSE, clsret |-> FALSE,
   ypcall |-> FALSE, recst |-> "ok", k |-> "junk", old |-> 0, idx |-> 0, op |-> "none", guard |-> FALSE]
base_ci == [prepCallInfo("base", 0, 1 + MinStack, FALSE) EXCEPT !.k = "none"]
isLua(ci) == ci.fn = "lua"
NArgs(fn) == IF fn = "xpcall" THEN 2 ELSE IF fn \in {"pcall", "resume", "wrap", "close", "error", "tbc"} THEN 1 ELSE 0

NewThread(main) ==
  [ci |-> <<base_ci>>, top |-> IF main THEN 1 ELSE 2, open |-> {}, tbc |-> <<>>, errfunc |-> 0,
   nC |-> 0, nny |-> IF main THEN 1 ELSE 0, status |-> "ok", errorJmp |-> <<>>, over |-> FALSE]

Top == Last(m.cs)
Push(mm, f) == [mm EXCEPT !.cs = Append(@, f), !.ret = "go"]
Pop(mm, r) == [mm EXCEPT !.cs = Front(@), !.ret = r]
At(mm, f) == [mm EXCEPT !.cs[Len(mm.cs)] = f, !.ret = "go"]
lua_assert(mm, b) == [mm EXCEPT !.asserts = @ /\ b]
yieldable(L) == L.nny = 0

(* luaD_shrinkstack: the space for errors is given back when not in use.   *)
InUse(L) == Max({L.top} \cup {L.ci[i].top : i \in 1..Len(L.ci)})
shrinkstack(mm, th) == [mm EXCEPT !.L[th].over = @ /\ InUse(mm.L[th]) > program.stack]
CutCI(mm, th, n) == [mm EXCEPT !.L[th].ci = SubSeq(@, 1, n)]
SetTop(mm, th, top) == [mm EXCEPT !.L[th].top = top]

----------------------------------------------------------------------------
(* Errors.                                                                 *)

(* longjmp to the setjmp at p, which gives back what it has saved.         *)
OnlyOf(mm, th, p) == \A i \in p..Len(mm.cs) : mm.cs[i].th = th
(* Mutant: the count of calls that may not yield is not restored.          *)
throwToCounting(mm, th, p, jumps, status) ==
  [mm EXCEPT !.cs = SubSeq(@, 1, p - 1), !.ret = status, !.asserts = @ /\ OnlyOf(mm, th, p),
             !.L[th] = [@ EXCEPT !.errorJmp = jumps, !.nC = mm.cs[p].nC]]
throwTo(mm, th, p, jumps, status) ==
  [mm EXCEPT !.cs = SubSeq(@, 1, p - 1), !.ret = status, !.asserts = @ /\ OnlyOf(mm, th, p),
             !.L[th] = [@ EXCEPT !.errorJmp = jumps, !.nC = mm.cs[p].nC, !.nny = mm.cs[p].nny]]
luaD_throw(mm, th, status) ==
  LET jumps == mm.L[th].errorJmp IN throwTo(mm, th, Last(jumps), Front(jumps), status)
luaD_throwbaselevel(mm, th, status) == throwTo(mm, th, Head(mm.L[th].errorJmp), <<>>, status)
luaG_errormsg(mm, th) == Push(mm, [op |-> "errormsg", th |-> th, pc |-> "start"])
luaD_errerr(mm, th) == luaD_throw(mm, th, "err")

rawrunprotected(mm, th) ==
  [Push(mm, [op |-> "try", th |-> th, nC |-> mm.L[th].nC, nny |-> mm.L[th].nny])
     EXCEPT !.L[th].errorJmp = Append(@, Len(mm.cs) + 1)]

----------------------------------------------------------------------------
(* Calls: the function fn is at level func of the thread.                  *)

growstack(mm, th) ==
  IF mm.L[th].over THEN luaD_errerr(mm, th) ELSE luaG_errormsg([mm EXCEPT !.L[th].over = TRUE], th)
Fits(L, top, n) == top + n <= program.stack + IF L.over THEN ErrorSpace ELSE 0

PushCI(mm, th, c) == [mm EXCEPT !.L[th].ci = Append(@, c)]
(* luaV_execute is called, or goes on with the new function as its ci.     *)
execute(th, ci) == [op |-> "execute", th |-> th, ci |-> ci]
precallLua(mm, th, func, fresh) ==
  LET pushed == PushCI(mm, th, prepCallInfo("lua", func, func + 1 + FrameSize, fresh))
      running == execute(th, Len(pushed.L[th].ci))
  IN IF fresh THEN Push(pushed, running) ELSE At(pushed, running)
precallC(mm, th, func, fn) ==
  LET pushed == PushCI(mm, th, prepCallInfo(fn, func, mm.L[th].top + MinStack, FALSE))
  IN Push(pushed, [op |-> "cfunc", th |-> th, ci |-> Len(pushed.L[th].ci), pc |-> "start", co |-> th])
luaD_precall(mm, th, func, fn, fresh) ==
  LET called == SetTop(mm, th, func + 1 + NArgs(fn))
  IN IF ~Fits(mm.L[th], called.L[th].top, IF fn = "lua" THEN FrameSize ELSE MinStack) THEN growstack(called, th)
     ELSE IF fn = "lua" THEN precallLua(called, th, func, fresh) ELSE precallC(called, th, func, fn)

Counted(mm, th, c, n) == [mm EXCEPT !.L[th].nC = @ + c, !.L[th].nny = @ + n]
checkcstack(mm, th, func, fn) ==
  LET n == mm.L[th].nC
  IN IF n = MaxCCalls THEN luaG_errormsg(mm, th)
     ELSE IF n >= ErrCCalls THEN luaD_errerr(mm, th)
     ELSE luaD_precall(mm, th, func, fn, TRUE)
ccall(mm, th, func, fn, c, n) ==
  checkcstack(Push(Counted(mm, th, c, n), [op |-> "ccall", th |-> th, c |-> c, n |-> n]), th, func, fn)
luaD_call(mm, th, func, fn) == ccall(mm, th, func, fn, 1, 0)
luaD_callnoyield(mm, th, func, fn) == ccall(mm, th, func, fn, 1, 1)

(* lfunc.c: upvalues are closed at once, variables to be closed one by one *)
luaF_close(mm, th, level, status, yy) ==
  Push([mm EXCEPT !.L[th].open = {l \in @ : l < level}],
       [op |-> "close", th |-> th, level |-> level, status |-> status, yy |-> yy])
closeprotected(mm, th, level, status) ==
  Push(mm, [op |-> "closep", th |-> th, level |-> level, status |-> status, ci |-> Len(mm.L[th].ci), pc |-> "start"])
luaD_pcall(mm, th, func, fn, ef) ==
  LET L == mm.L[th]
      called == Push([mm EXCEPT !.L[th].errfunc = ef],
                     [op |-> "pcall", th |-> th, ci |-> Len(L.ci), errfunc |-> L.errfunc, top |-> func, pc |-> "run", status |-> "ok"])
  IN luaD_callnoyield(rawrunprotected(called, th), th, func, fn)

(* The end of a C function (luaD_poscall), where its activation was.       *)
luaD_poscall(th, ci) == [op |-> "poscall", th |-> th, ci |-> ci, pc |-> "start"]
poscall(mm, th) == At(mm, luaD_poscall(th, Last(mm.cs).ci))
Finished(mm, th) ==
  LET n == Last(mm.cs).ci
      c == mm.L[th].ci[n]
  IN lua_assert(SetTop(CutCI(mm, th, n - 1), th, c.func + 1), ~c.ypcall /\ ~c.clsret)

----------------------------------------------------------------------------
(* The steps of the machine of Calls: each is taken by the activation on   *)
(* top of the stack of C.                                                  *)

f == Top
th == f.th
L == m.L[th]
(* Its CallInfo: the one it was called with, or L->ci.                     *)
current == IF f.op \in {"execute", "cfunc", "poscall", "finishCcall"} THEN f.ci ELSE Len(L.ci)
ci == L.ci[current]
SetCI(mm, c) == [mm EXCEPT !.L[th].ci[current] = c]
Unguarded(mm) == [mm EXCEPT !.L[th].ci[current].guard = FALSE]
On(op) == f.op = op
Back == m.ret # "go"            \* the activation above has returned

----------------------------------------------------------------------------
(* lvm.c: what a Lua function does.  op is the instruction it waits in.    *)

Base == ci.func + 1             \* its first register
Waiting(op) == [ci EXCEPT !.op = op]
Running == On("execute") /\ isLua(ci) /\ ~Back /\ ci.op = "none"

OP_CALL(fn) ==
  /\ Running
  /\ m' = luaD_precall(SetCI(m, Waiting("call")), th, Base + 1, fn, FALSE)
(* A metamethod (luaT_callTMres).                                          *)
CallMethod(fn) ==
  /\ Running
  /\ m' = luaD_call(SetTop(SetCI(m, Waiting("meta")), th, Base + FrameSize), th, Base + FrameSize, fn)
(* The first register is captured, and is a variable to be closed.         *)
OP_CLOSURE ==
  /\ Running
  /\ m' = [m EXCEPT !.L[th].open = @ \cup {Base}]
OP_TBC ==
  /\ Running
  /\ Base \notin ToSet(L.tbc)
  /\ m' = [lua_assert(m, L.tbc = <<>> \/ Last(L.tbc) < Base) EXCEPT !.L[th].tbc = Append(@, Base)]
OP_CLOSE ==
  /\ On("execute") /\ isLua(ci) /\ ~Back
  /\ ci.op = "close" \/ (ci.op = "none" /\ L.open \cup ToSet(L.tbc) # {} /\ Max(L.open \cup ToSet(L.tbc)) >= Base)
  /\ m' = luaF_close(SetTop(SetCI(m, Waiting("close")), th, ci.top), th, Base, "ok", TRUE)

Leave(mm) ==
  LET previous == f.ci - 1
      done == SetTop(CutCI(mm, th, previous), th, ci.func + 1)
  IN IF ci.fresh THEN Pop(done, "done")
     ELSE lua_assert([At(done, execute(th, previous)) EXCEPT !.ret = "done"], isLua(Last(done.L[th].ci)))
(* With k: close what may be open first, and return again after a yield.   *)
OP_RETURN ==
  /\ On("execute") /\ isLua(ci) /\ ~Back
  /\ ci.op \in {"none", "return"}
  /\ m' = luaF_close(SetTop(SetCI(m, Waiting("return")), th, ci.top), th, Base, "ktop", TRUE)
OP_RETURN1 ==
  /\ Running
  /\ \A l \in L.open \cup ToSet(L.tbc) : l < Base
  /\ m' = Leave(m)
EndReturn ==
  /\ On("execute") /\ isLua(ci) /\ Back /\ ci.op \in {"return", "tail"}
  /\ m' = Leave(m)

(* The frame is used again by a Lua function; a C function is called and   *)
(* its results are returned.                                               *)
OP_TAILCALL(fn) ==
  /\ Running
  /\ \A l \in ToSet(L.tbc) : l < Base
  /\ LET closed == [m EXCEPT !.L[th].open = {l \in @ : l < Base}]
     IN m' = IF fn # "lua" THEN luaD_precall(SetCI(closed, Waiting("tail")), th, Base + 1, fn, FALSE)
             ELSE [SetTop(SetCI(closed, [ci EXCEPT !.op = "none"]), th, Base) EXCEPT !.ret = "go"]
EndOp ==
  /\ On("execute") /\ isLua(ci) /\ Back /\ ci.op \in {"call", "meta", "close"}
  /\ m' = [SetCI(m, Waiting("none")) EXCEPT !.ret = "go"]
Fail ==
  /\ Running
  /\ m' = luaG_errormsg(SetTop(m, th, ci.top), th)
OutOfMemory ==
  /\ Running
  /\ m' = luaD_throw(SetTop(m, th, ci.top), th, "mem")

----------------------------------------------------------------------------
(* Activations inside the machine.                                         *)

EndCall == On("ccall") /\ Back /\ m' = Pop(Counted(m, th, -f.c, -f.n), "done")
(* Mutant: L->errorJmp is left at the setjmp that has ended.               *)
EndTryLate == On("try") /\ Back /\ m' = [Pop(m, "ok") EXCEPT !.L[th].nC = f.nC, !.L[th].nny = f.nny]
EndTry ==
  /\ On("try") /\ Back
  /\ m' = [Pop(m, "ok") EXCEPT !.L[th].errorJmp = Front(@), !.L[th].nC = f.nC, !.L[th].nny = f.nny]
(* The message handler, if any, is called on the error object.             *)
ErrorMessage ==
  /\ On("errormsg")
  /\ m' = IF L.errfunc # 0 /\ ~Back
          THEN luaD_callnoyield(SetTop(m, th, L.top + 1), th, L.top, "lua")
          ELSE luaD_throw(m, th, "run")

(* The next variable to be closed: its method is called above what is to   *)
(* be kept, or right above the variable and the error object.              *)
ToBeClosed == {l \in ToSet(L.tbc) : l >= f.level}
CallLevel(tbc) == IF f.status = "ok" THEN tbc + 1 ELSE IF f.status = "ktop" THEN L.top ELSE tbc + 2
CloseNext(fn) ==
  /\ On("close")
  /\ ToBeClosed # {}
  /\ LET tbc == Last(L.tbc)
         rest == [m EXCEPT !.L[th].tbc = Front(@), !.L[th].top = CallLevel(tbc)]
     IN m' = IF f.yy THEN luaD_call(rest, th, CallLevel(tbc), fn) ELSE luaD_callnoyield(rest, th, CallLevel(tbc), fn)
EndClose ==
  /\ On("close")
  /\ ToBeClosed = {}
  /\ m' = Pop(m, "done")

(* luaD_closeprotected: again after each error, with the new status.       *)
CloseProtected ==
  /\ On("closep")
  /\ m' = IF m.ret = "ok" THEN Pop(m, f.status)
          ELSE LET status == IF Back THEN m.ret ELSE f.status
                   again == At(CutCI(m, th, f.ci), [f EXCEPT !.status = status])
               IN luaF_close(rawrunprotected(again, th), th, f.level, status, FALSE)
(* luaD_pcall, when what it called has returned or failed.                 *)
ProtectedDone ==
  /\ On("pcall") /\ f.pc = "run" /\ Back
  /\ m' = IF m.ret = "ok" THEN [Pop(m, "ok") EXCEPT !.L[th].errfunc = f.errfunc]
          ELSE closeprotected(At(CutCI(m, th, f.ci), [f EXCEPT !.pc = "closing"]), th, f.top, m.ret)
ProtectedFailed ==
  /\ On("pcall") /\ f.pc = "closing" /\ Back
  /\ m' = [Pop(shrinkstack(SetTop(m, th, f.top + 1), th), m.ret) EXCEPT !.L[th].errfunc = f.errfunc]

(* Mutant: what a C function has marked to be closed is forgotten.         *)
PosCallForgets == On("poscall") /\ m' = Pop(Finished(m, th), "done")
PosCall ==
  /\ On("poscall")
  /\ m' = IF ci.tbc /\ f.pc = "start"
          THEN luaF_close(At(SetCI(m, [ci EXCEPT !.clsret = TRUE]), [f EXCEPT !.pc = "closed"]), th, ci.func, "ktop", TRUE)
          ELSE Pop(Finished(SetCI(m, [ci EXCEPT !.clsret = FALSE]), th), "done")

----------------------------------------------------------------------------
(* Coroutines.                                                             *)

co == f.co
Status(c) ==            \* auxstatus of lcorolib.c
  IF c = th THEN "running"
  ELSE IF m.L[c].status = "yield" THEN "suspended"
  ELSE IF m.L[c].status \in Errors THEN "dead"
  ELSE IF Len(m.L[c].ci) > 1 THEN "normal"
  ELSE IF m.L[c].top = 1 THEN "dead" ELSE "suspended"

CanResume(c) ==
  LET C == m.L[c]
  IN /\ C.status = "ok" => Len(C.ci) = 1 /\ C.top > 1
     /\ C.status \notin Errors
     /\ L.nC < MaxCCalls
lua_resume(mm, from, c) ==
  LET resumed == Push([mm EXCEPT !.L[c].nC = mm.L[from].nC + 1, !.L[c].nny = 0], [op |-> "resumed", th |-> from, co |-> c])
  IN Push(rawrunprotected(resumed, c), [op |-> "resume", th |-> c])

(* Start the body, or finish the function that yielded; then the rest.     *)
Resume ==
  /\ On("resume")
  /\ LET rest == At(m, [op |-> "unroll", th |-> th])
         woken == [rest EXCEPT !.L[th].status = "ok"]
     IN m' = IF L.status = "ok" THEN ccall(rest, th, 1, "lua", 0, 0)
             ELSE lua_assert(Push(woken, IF ci.k = "cont" THEN [op |-> "cfunc", th |-> th, ci |-> Len(L.ci), pc |-> "continued", co |-> th]
                                     ELSE luaD_poscall(th, Len(L.ci))),
                         L.status = "yield" /\ ci.k # "junk")

finishOp(mm) ==
  lua_assert(SetCI(mm, IF ci.op \in {"call", "meta"} THEN Waiting("none") ELSE ci),
         ci.op \in {"call", "meta", "close", "return", "tail"})
ExecuteAgain(mm) == [Push(mm, execute(th, Len(L.ci))) EXCEPT !.ret = IF ci.op = "tail" THEN "done" ELSE "go"]
finishCcall ==
  IF ci.clsret THEN Push(lua_assert(m, ci.tbc), luaD_poscall(th, Len(L.ci)))
  ELSE Push(lua_assert(m, ci.k = "cont" /\ yieldable(L)), [op |-> "finishCcall", th |-> th, ci |-> Len(L.ci), pc |-> "start"])
Unroll ==
  /\ On("unroll")
  /\ m' = IF Len(L.ci) = 1 THEN Pop(m, "done")
          ELSE IF isLua(ci) THEN ExecuteAgain(finishOp(m)) ELSE finishCcall

(* finishpcallk, then the continuation and the end of the function.        *)
(* Mutant: the handler of the call that ends stays.                        *)
RecoveredHandled(mm) == [mm EXCEPT !.L[th].ci[current].ypcall = FALSE, !.L[th].ci[current].recst = "ok"]
(* Mutant: the mark of a call that can recover stays.                      *)
RecoveredMarked(mm) == [mm EXCEPT !.L[th].errfunc = ci.old, !.L[th].ci[current].recst = "ok"]
Recovered(mm) ==
  LET handled == [mm EXCEPT !.L[th].errfunc = ci.old]
  IN [handled EXCEPT !.L[th].ci[current] = [@ EXCEPT !.ypcall = FALSE, !.recst = "ok"]]
FinishCall ==
  /\ On("finishCcall")
  /\ m' = IF ci.ypcall /\ ci.recst # "ok" /\ f.pc = "start"
          THEN luaF_close(At(m, [f EXCEPT !.pc = "closed"]), th, ci.idx, ci.recst, TRUE)
          ELSE LET done == IF ci.ypcall THEN Recovered(m) ELSE m
                   error == f.pc = "closed"
               IN poscall(Unguarded(IF error THEN shrinkstack(SetTop(done, th, ci.idx + 1), th) ELSE done), th)

(* precover: the innermost call that can recover takes the error.          *)
(* Mutant: the search starts at the base.                                  *)
RecoverPointsFirst(C) == {i \in 1..Len(C.ci) : C.ci[i].ypcall /\ \A j \in 1..(i - 1) : ~C.ci[j].ypcall}
RecoverPoints(C) == {i \in 1..Len(C.ci) : C.ci[i].ypcall /\ \A j \in (i + 1)..Len(C.ci) : ~C.ci[j].ypcall}
Recover ==
  /\ On("resumed") /\ m.ret \in Errors
  /\ \E p \in RecoverPoints(m.L[co]) :
       m' = Push(rawrunprotected([CutCI(m, co, p) EXCEPT !.L[co].ci[p].recst = m.ret], co), [op |-> "unroll", th |-> co])
EndResume ==
  /\ On("resumed") /\ Back
  /\ m.ret \in Errors => RecoverPoints(m.L[co]) = {}
  /\ m' = IF m.ret \in Errors THEN Pop([m EXCEPT !.L[co].status = m.ret], m.ret)
          ELSE Pop(lua_assert([m EXCEPT !.L[co].top = IF m.ret = "ok" THEN @ - 1 ELSE @], m.ret = m.L[co].status), m.ret)

(* lua_closethread: everything of the thread is closed at its base.        *)
CloseThread ==
  /\ On("closethread") /\ ~Back
  /\ LET status == IF m.L[co].status = "yield" THEN "ok" ELSE m.L[co].status
         base == [Head(m.L[co].ci) EXCEPT !.k = "none"]
         reset == [m EXCEPT !.L[co] = [@ EXCEPT !.ci = <<base>>, !.status = "ok", !.errfunc = 0, !.nC = L.nC, !.nny = 0]]
     IN m' = closeprotected(reset, co, 1, status)
ThreadClosed ==
  /\ On("closethread") /\ Back
  /\ LET closed == [SetTop(m, co, IF m.ret = "ok" THEN 1 ELSE 2) EXCEPT !.L[co].over = FALSE]
     IN m' = IF co = th THEN luaD_throwbaselevel(closed, th, m.ret) ELSE Pop(closed, m.ret)

----------------------------------------------------------------------------
(* The C functions: lbaselib.c, lcorolib.c, and others that use the API.   *)

Fn(fn, pc) == On("cfunc") /\ ci.fn = fn /\ f.pc = pc /\ (pc # "start" => Back)
Later(mm, pc) == [mm EXCEPT !.cs[Len(mm.cs)].pc = pc]
Of(mm, c) == [mm EXCEPT !.cs[Len(mm.cs)].co = c]
Guarded(mm) == [mm EXCEPT !.L[th].ci[current].guard = TRUE]
Callee == ci.func + 1 + NArgs(ci.fn)    \* where the function to call is put
Handler == IF ci.fn = "xpcall" THEN ci.func + 2 ELSE 0

(* lua_pcallk: with a continuation where the thread may yield.             *)
lua_pcallk ==
  /\ Fn("pcall", "start") \/ Fn("xpcall", "start")
  /\ m' = IF yieldable(L)
          THEN luaD_call(Later([SetCI(m, [ci EXCEPT !.k = "cont", !.idx = Callee, !.old = L.errfunc, !.ypcall = TRUE, !.guard = TRUE])
                                  EXCEPT !.L[th].errfunc = Handler, !.L[th].top = Callee], "called"), th, Callee, "lua")
          ELSE luaD_pcall(Later(SetTop(Guarded(m), th, Callee), "called"), th, Callee, "lua", Handler)
pcallDone ==
  /\ Fn("pcall", "called") \/ Fn("xpcall", "called")
  /\ m' = poscall(Unguarded(IF ci.ypcall THEN Recovered(m) ELSE m), th)

(* Calls without protection: with a continuation (dofile), or without one. *)
lua_callk ==
  \/ /\ Fn("cont", "start")
     /\ m' = IF yieldable(L) THEN luaD_call(Later(SetCI(m, [ci EXCEPT !.k = "cont"]), "called"), th, Callee, "lua")
             ELSE luaD_callnoyield(Later(m, "called"), th, Callee, "lua")
  \/ /\ Fn("callback", "start")
     /\ m' = luaD_callnoyield(Later(m, "called"), th, Callee, "lua")
Returns ==
  /\ \/ Fn("cont", "called") \/ Fn("callback", "called") \/ (On("cfunc") /\ f.pc = "continued")
     \/ Fn("resume", "called") \/ Fn("close", "called") \/ Fn("tbc", "closed")
  /\ m' = poscall(m, th)

lua_error == Fn("error", "start") /\ m' = luaG_errormsg(m, th)
lua_yieldk ==
  /\ Fn("yield", "start") \/ Fn("yieldk", "start")
  /\ m' = IF ~yieldable(L) THEN luaG_errormsg(m, th)
          ELSE luaD_throw([SetCI(m, [ci EXCEPT !.k = IF ci.fn = "yieldk" THEN "cont" ELSE "none"])
                             EXCEPT !.L[th].status = "yield"], th, "yield")

(* A C function with a slot to be closed: it returns, fails, or closes it. *)
lua_toclose ==
  /\ Fn("tbc", "start")
  /\ m' = Later([SetCI(m, [ci EXCEPT !.tbc = TRUE]) EXCEPT !.L[th].tbc = Append(@, ci.func + 1)], "marked")
AfterMark ==
  /\ On("cfunc") /\ f.pc = "marked"
  /\ \/ m' = poscall(m, th)
     \/ m' = luaG_errormsg(m, th)
     \/ m' = luaF_close(Later(m, "closed"), th, ci.func + 1, "ktop", FALSE)

luaB_coresume(c) ==
  /\ Fn("resume", "start") \/ Fn("wrap", "start")
  /\ m' = IF CanResume(c) THEN lua_resume(Of(Later(m, "called"), c), th, c)
          ELSE IF ci.fn = "resume" THEN poscall(m, th) ELSE luaG_errormsg(m, th)
(* What auxwrap does with a failed coroutine: close it and fail.           *)
auxwrap ==
  /\ Fn("wrap", "called")
  /\ m' = IF m.ret \notin Errors THEN poscall(m, th)
          ELSE IF m.L[f.co].status \in Errors THEN Push(Later(m, "closed"), [op |-> "closethread", th |-> th, co |-> f.co])
          ELSE luaG_errormsg(m, th)
auxwrapFails == Fn("wrap", "closed") /\ m' = luaG_errormsg(m, th)
luaB_close(c) ==
  /\ Fn("close", "start")
  /\ m' = IF Status(c) = "normal" \/ c = Main THEN luaG_errormsg(m, th)
          ELSE Push(Later(m, "called"), [op |-> "closethread", th |-> th, co |-> c])

----------------------------------------------------------------------------
(* The host: a protected call, then lua_close.                             *)

Init == /\ m = [L |-> [t \in Threads |-> NewThread(t = Main)], cs |-> <<[op |-> "host", th |-> Main, pc |-> "start"]>>,
                ret |-> "go", asserts |-> TRUE]
        /\ program \in Programs
HostCalls == On("host") /\ f.pc = "start" /\ m' = luaD_pcall(Later(SetTop(m, Main, 1), "called"), Main, 1, "lua", 0)
CloseState ==
  /\ On("host") /\ f.pc = "called" /\ Back
  /\ m' = closeprotected(Later([CutCI(m, Main, 1) EXCEPT !.L[Main].errfunc = 0], "closed"), Main, 1, "ok")

Uses(what) == what \in program.uses
Functions == program.uses \cap FunctionNames
Program ==
  \/ \E fn \in Functions : OP_CALL(fn)
  \/ \E fn \in Functions : Uses("tail") /\ OP_TAILCALL(fn)
  \/ Uses("meta") /\ \E fn \in program.methods : CallMethod(fn)
  \/ \E fn \in program.methods : CloseNext(fn)
  \/ Uses("upvalue") /\ OP_CLOSURE
  \/ Uses("variable") /\ OP_TBC
  \/ Uses("fail") /\ Fail
  \/ Uses("memory") /\ OutOfMemory
  \/ lua_pcallk \/ lua_callk
  \/ OP_CLOSE \/ OP_RETURN \/ OP_RETURN1
  \/ lua_toclose \/ AfterMark \/ lua_error \/ lua_yieldk
  \/ \E c \in Threads : luaB_coresume(c) \/ luaB_close(c)
Machine ==
  \/ EndReturn \/ EndOp \/ EndCall \/ EndTry \/ ErrorMessage \/ EndClose \/ CloseProtected
  \/ ProtectedDone \/ ProtectedFailed \/ PosCall
  \/ Resume \/ Unroll \/ FinishCall \/ Recover \/ EndResume \/ CloseThread \/ ThreadClosed
  \/ pcallDone \/ Returns \/ auxwrapFails \/ auxwrap
  \/ HostCalls \/ CloseState
Next == (Program \/ Machine) /\ UNCHANGED program
Spec == Init /\ [][Next]_vars

----------------------------------------------------------------------------
(* What these steps keep true, whoever fails or yields where.   *)

Frames(t, op) == {i \in 1..Len(m.cs) : m.cs[i].th = t /\ m.cs[i].op = op}

(* The asserts of ldo.c and lvm.c: a function that returns is in no        *)
(* protected call and closes nothing, what a coroutine finishes after a    *)
(* yield has a continuation, a longjmp leaves the activations of no other  *)
(* thread, and a coroutine ends in the status that lua_resume returns.     *)
CallAssertions == m.asserts

(* Whatever was cut or yielded, a thread knows whether it may yield: its  *)
(* counter agrees with the stack of C, but for what lua_closethread is     *)
(* about to cut.                                                           *)
Resets(t) == {i \in 1..Len(m.cs) : m.cs[i].op = "closethread" /\ m.cs[i].co = t /\ (i < Len(m.cs) \/ m.ret # "go")}
CallsCounted ==
  \A t \in Threads : Frames(t, "try") # {} =>
    m.L[t].nny = (IF t = Main THEN 1 ELSE 0)
                 + Cardinality({i \in Frames(t, "ccall") : m.cs[i].n = 1 /\ \A j \in Resets(t) : j < i})

(* The message handler of the innermost protected call of a thread.        *)
Guards(t) == {i \in 1..Len(m.L[t].ci) : m.L[t].ci[i].guard}
HandlerOf(t) ==
  IF Guards(t) = {} THEN 0
  ELSE LET c == m.L[t].ci[Max(Guards(t))] IN IF c.fn = "xpcall" THEN c.func + 2 ELSE 0

(* Nothing leads to what has ended.  errorJmp leads to the setjmps of the  *)
(* thread that are there, all of them and no others; the message handler   *)
(* is the one of the innermost protected call that is still going on;      *)
(* upvalues and variables to be closed belong to a function that is still  *)
(* there, or an activation or a dead coroutine is about to close them.     *)
Room(t, i) == IF i = Len(m.L[t].ci) THEN m.L[t].ci[i].top ELSE m.L[t].ci[i + 1].func
InFrame(t, l) == \E i \in 1..Len(m.L[t].ci) : m.L[t].ci[i].func < l /\ l < Room(t, i)
Closing(t, l) ==
  \/ \E i \in 1..Len(m.cs) : m.cs[i].th = t /\ m.cs[i].op \in {"close", "closep"} /\ m.cs[i].level <= l
  \/ \E i \in 1..Len(m.L[t].ci) : m.L[t].ci[i].recst # "ok" /\ m.L[t].ci[i].idx <= l
  \/ m.ret # "go"
  \/ m.L[t].status \in Errors
JumpsLead == \A t \in Threads : ToSet(m.L[t].errorJmp) = Frames(t, "try")
NothingOutlivesItsFrame ==
  /\ JumpsLead
  /\ On("execute") /\ ci.op = "none" => L.errfunc = HandlerOf(th)
  /\ \A t \in Threads : \A l \in m.L[t].open \cup ToSet(m.L[t].tbc) : InFrame(t, l) \/ Closing(t, l)

(* An error is caught by the innermost protected call of its thread: no    *)
(* protected call is left but by its own end, unless its thread is closed. *)
NoProtectedCallSkipped ==
  [][\A t \in Threads : On("closethread") \/ On("host")
       \/ \A i \in Guards(t) : i <= Len(m'.L[t].ci) \/ (i = Len(m.L[t].ci) /\ On("poscall"))]_vars
=============================================================================
