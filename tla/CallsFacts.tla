---------------------------- MODULE CallsFacts ----------------------------
(***************************************************************************)
(* Theorems about Calls: the stack of C as activations that call each      *)
(* other, and what each thread knows of its part of it.                    *)
(***************************************************************************)
EXTENDS Calls, TLAPS, FiniteSetTheorems, SequenceTheorems

Results == {"done", "ok", "yield", "ktop"} \cup Errors
Statuses == Results \cup {"go"}
Places == {"start", "called", "closed", "marked", "continued", "run", "closing"}
CallInfo ==
  [fn : FunctionNames \cup {"base"}, func : Int, top : Int, fresh : BOOLEAN, tbc : BOOLEAN, clsret : BOOLEAN, ypcall : BOOLEAN,
   recst : Statuses, k : {"none", "junk", "cont"}, old : Int, idx : Int,
   op : {"none", "call", "meta", "close", "return", "tail"}, guard : BOOLEAN]
Thread ==
  [ci : Seq(CallInfo), top : Int, open : SUBSET Int, tbc : Seq(Int), errfunc : Int, nC : Int, nny : Int,
   status : {"ok", "yield"} \cup Errors, errorJmp : Seq(Nat), over : BOOLEAN]
Activation ==
  [op : {"host"}, th : {Main}, pc : Places]
  \cup [op : {"execute"}, th : Threads, ci : Nat]
  \cup [op : {"cfunc"}, th : Threads, ci : Nat, pc : Places, co : Threads]
  \cup [op : {"poscall", "finishCcall"}, th : Threads, ci : Nat, pc : Places]
  \cup [op : {"ccall"}, th : Threads, c : Int, n : {0, 1}]
  \cup [op : {"try"}, th : Threads, nC : Int, nny : Int]
  \cup [op : {"pcall"}, th : Threads, ci : Nat, errfunc : Int, top : Int, pc : Places, status : Statuses]
  \cup [op : {"closep"}, th : Threads, level : Int, status : Results, ci : Nat, pc : Places]
  \cup [op : {"close"}, th : Threads, level : Int, status : Statuses, yy : BOOLEAN]
  \cup [op : {"errormsg"}, th : Threads, pc : Places]
  \cup [op : {"resume", "unroll"}, th : Threads]
  \cup [op : {"resumed", "closethread"}, th : Threads, co : Coroutines]
MachineType == [L : [Threads -> Thread], cs : Seq(Activation), ret : Statuses, asserts : BOOLEAN]

----------------------------------------------------------------------------
(* The stack of C by itself.                                               *)

Waits(a) == a.op \in {"resumed", "closethread"}      \* for a, maybe another thread
Crosses(a) == a.op = "resumed" \/ (a.op = "closethread" /\ a.co # a.th)
Called(a) == IF Waits(a) THEN a.co ELSE a.th
Unyieldable(a) == (a.op = "ccall" /\ a.n = 1) \/ (a.op = "close" /\ ~a.yy)

MayCall(a, b) ==
  /\ b.th = Called(a)
  /\ b.op # "host"
  /\ a.op = "resumed" => b.op = "try"
  /\ a.op = "closethread" => b.op = "closep"
  /\ a.op = "closep" => b.op = "try"
  /\ a.op = "close" /\ ~a.yy => Unyieldable(b) /\ b.op = "ccall"
  /\ b.op = "try" => a.op \in {"resumed", "pcall", "closep"}
  /\ b.op \in {"resume", "unroll"} => a.op = "try"
  /\ b.op = "pcall" => a.op \in {"host", "cfunc", "poscall", "finishCcall"}
  /\ b.op = "closep" => a.op \in {"host", "pcall", "closethread"}
Linked(s) == \A i \in 1..Len(s)-1 : MayCall(s[i], s[i+1])

(* What is called under a setjmp: a coroutine goes on, or no yield can     *)
(* leave it.                                                               *)
MayTry(a, c) == IF a.op = "resumed" THEN c.op \in {"resume", "unroll"} ELSE Unyieldable(c)
Tried(s) == \A i \in 2..Len(s)-1 : s[i].op = "try" => MayTry(s[i-1], s[i+1])

(* A thread that waits is not called again.                                *)
Crossed(s) == \A i \in 1..Len(s) : Crosses(s[i]) => \A j \in 1..i : s[j].th # s[i].co
Convex(s) == \A i, j, k \in 1..Len(s) : i <= j /\ j <= k /\ s[i].th = s[k].th => s[j].th = s[i].th

(* An activation that may fail has a setjmp of its thread below it.        *)
MayFail(a) == a.op \notin {"host", "pcall", "closep", "try"}
Caught(s) == \A i \in 1..Len(s) : MayFail(s[i]) => \E j \in 1..i-1 : s[j].op = "try" /\ s[j].th = s[i].th

(* The calls of t below p that do not yield, but for those lua_closethread *)
(* is about to cut.                                                        *)
ResetsOf(a, t) == a.op = "closethread" /\ a.co = t
Counting(s, t, p) == {i \in 1..p-1 : s[i].op = "ccall" /\ s[i].th = t /\ s[i].n = 1 /\ \A j \in i..p-1 : ~ResetsOf(s[j], t)}
Unyielding(s, t, p) == (IF t = Main THEN 1 ELSE 0) + Cardinality(Counting(s, t, p))
Saved(s) == \A i \in 1..Len(s) : s[i].op = "try" => s[i].nny = Unyielding(s, s[i].th, i)

Hosted(s) == Len(s) >= 1 /\ s[1].op = "host"
Stacked(s) == Hosted(s) /\ Linked(s) /\ Tried(s) /\ Crossed(s) /\ Convex(s) /\ Caught(s) /\ Saved(s)

----------------------------------------------------------------------------
(* The stack of C and the threads.                                         *)

Present(s, t) == \E i \in 1..Len(s) : s[i].th = t
(* What has been done: lua_closethread resets its thread when it begins.   *)
Past(mm) == IF Last(mm.cs).op = "closethread" /\ mm.ret = "go" THEN Len(mm.cs) ELSE Len(mm.cs) + 1

IsTry(s, t, p) == p \in 1..Len(s) /\ s[p].op = "try" /\ s[p].th = t
JumpsOf(s, t, jmp) ==
  /\ \A j, k \in 1..Len(jmp) : j < k => jmp[j] < jmp[k]
  /\ \A j \in 1..Len(jmp) : IsTry(s, t, jmp[j])
  /\ \A p \in 1..Len(s) : IsTry(s, t, p) => \E j \in 1..Len(jmp) : jmp[j] = p
Jumps(mm) == \A t \in Threads : JumpsOf(mm.cs, t, mm.L[t].errorJmp)
Counts(mm) ==
  \A t \in Threads : Present(mm.cs, t) => mm.L[t].nny = Unyielding(mm.cs, t, Past(mm))

(* The CallInfos: what an activation works on is still there, and above it *)
(* is what was called afresh.                                              *)
Owns(a) == a.op \in {"execute", "cfunc", "poscall", "finishCcall"}
Holds(a) == Owns(a) \/ a.op \in {"pcall", "closep"}
Afresh(c) == ~isLua(c) \/ c.fresh
Lives(mm, t, i) == mm.cs[i].th = t /\ \A j \in i..Past(mm)-1 : ~ResetsOf(mm.cs[j], t)
HeldBy(mm, t) == {i \in 1..Len(mm.cs) : Holds(mm.cs[i]) /\ Lives(mm, t, i)}
DepthOf(mm, t, cis) ==
  /\ Len(cis) >= 1
  /\ Len(cis) >= 2 => Afresh(cis[2])
  /\ \A i \in HeldBy(mm, t) : mm.cs[i].ci \in (IF Owns(mm.cs[i]) THEN 2 ELSE 1)..Len(cis)
  /\ \A i, j \in HeldBy(mm, t) : i < j =>
       /\ mm.cs[i].ci <= mm.cs[j].ci
       /\ Owns(mm.cs[j]) => \E k \in mm.cs[i].ci+1..mm.cs[j].ci : Afresh(cis[k])
Depth(mm) == \A t \in Threads : DepthOf(mm, t, mm.L[t].ci)

(* lua_closethread closes from the base.                                   *)
Based(s) == \A i \in 1..Len(s)-1 : s[i].op = "closethread" => s[i+1].ci = 1

(* Threads that are in the stack of C are awake, or about to be, and those *)
(* that have yielded are in a function.                                    *)
Waking(mm, t) == LET a == Last(mm.cs) IN a.op = "resume" /\ a.th = t
Settled(mm) ==
  /\ \A t \in Threads : Present(mm.cs, t) => mm.L[t].status = "ok"
  /\ \A t \in Threads : mm.L[t].status = "yield" => Len(mm.L[t].ci) >= 2
Recoverable(mm) ==
  LET a == Last(mm.cs)
  IN a.op = "resumed" /\ mm.ret \in Errors => mm.L[a.co].status = "ok" /\ mm.L[a.co].nny = 0
Awake(mm) ==
  /\ \A t \in Threads : Present(mm.cs, t) => mm.L[t].status = "ok" \/ (Waking(mm, t) /\ mm.L[t].status = "yield")
  /\ \A t \in Threads : mm.L[t].status = "yield" => Len(mm.L[t].ci) >= 2
  /\ Recoverable(mm)
Apart(mm) ==
  \A t \in Threads : Present(mm.cs, t) /\ t # Called(Last(mm.cs)) => Len(mm.L[t].ci) >= 2

Core(mm) == mm \in MachineType /\ Stacked(mm.cs) /\ Jumps(mm) /\ Counts(mm) /\ Depth(mm) /\ Apart(mm) /\ Based(mm.cs)
Sound(mm) == Core(mm) /\ Awake(mm)

----------------------------------------------------------------------------
(* Sequences.                                                              *)

LEMMA AppendFacts ==
  ASSUME NEW S, NEW s \in Seq(S), NEW x \in S
  PROVE  /\ Append(s, x) \in Seq(S)
         /\ Len(Append(s, x)) = Len(s) + 1
         /\ \A n \in 1..Len(s) : Append(s, x)[n] = s[n]
         /\ Append(s, x)[Len(s) + 1] = x
  OBVIOUS

LEMMA CutFacts ==
  ASSUME NEW S, NEW s \in Seq(S), NEW n \in 0..Len(s)
  PROVE  /\ SubSeq(s, 1, n) \in Seq(S)
         /\ Len(SubSeq(s, 1, n)) = n
         /\ \A i \in 1..n : SubSeq(s, 1, n)[i] = s[i]
<1>1. /\ SubSeq(s, 1, n) \in Seq(S)
      /\ Len(SubSeq(s, 1, n)) = IF 1 <= n THEN n - 1 + 1 ELSE 0
      /\ \A i \in 1 .. n - 1 + 1 : SubSeq(s, 1, n)[i] = s[1 + i - 1]
  <2>1. 1 \in 1..Len(s)+1 /\ n \in 1-1..Len(s)
    OBVIOUS
  <2> QED
    BY <2>1, SubSeqProperties
<1> QED
  BY <1>1

LEMMA LastFacts ==
  ASSUME NEW S, NEW s \in Seq(S), s # <<>>
  PROVE  /\ Len(s) \in Nat /\ Len(s) >= 1
         /\ Last(s) = s[Len(s)] /\ Last(s) \in S
         /\ Head(s) = s[1] /\ Head(s) \in S
         /\ Front(s) = SubSeq(s, 1, Len(s) - 1)
         /\ Front(s) \in Seq(S) /\ Len(Front(s)) = Len(s) - 1
         /\ \A i \in 1..Len(s)-1 : Front(s)[i] = s[i]
<1>1. Len(s) \in Nat /\ Len(s) >= 1
  OBVIOUS
<1>2. Len(s) - 1 \in 0..Len(s) /\ Len(s) \in 1..Len(s)
  BY <1>1
<1>3. Last(s) = s[Len(s)] /\ Front(s) = SubSeq(s, 1, Len(s) - 1)
  BY DEF Last, Front
<1>4. Head(s) = s[1] /\ Head(s) \in S /\ s[Len(s)] \in S
  BY <1>1
<1> QED
  BY <1>1, <1>2, <1>3, <1>4, CutFacts

----------------------------------------------------------------------------
(* What the activations carry.                                             *)

LEMMA ActivationFields ==
  ASSUME NEW a \in Activation
  PROVE  /\ a.th \in Threads 
         /\ a.op = "host" => a.th = Main
         /\ Waits(a) => a.co \in Coroutines
         /\ Holds(a) => a.ci \in Nat
         /\ a.op = "ccall" => a.n \in {0, 1} /\ a.c \in Int
         /\ a.op = "try" => a.nny \in Int /\ a.nC \in Int
         /\ a.op = "close" => a.yy \in BOOLEAN /\ a.level \in Int /\ a.status \in Statuses
         /\ Called(a) \in Threads
<1> DEFINE P == /\ a.th \in Threads 
                /\ a.op = "host" => a.th = Main
                /\ Waits(a) => a.co \in Coroutines
                /\ Holds(a) => a.ci \in Nat
                /\ a.op = "ccall" => a.n \in {0, 1} /\ a.c \in Int
                /\ a.op = "try" => a.nny \in Int /\ a.nC \in Int
                /\ a.op = "close" => a.yy \in BOOLEAN /\ a.level \in Int /\ a.status \in Statuses
<1>1. ASSUME a \in [op : {"host"}, th : {Main}, pc : Places] PROVE P
  BY <1>1 DEF Threads, Waits, Holds, Owns
<1>2. ASSUME a \in [op : {"execute"}, th : Threads, ci : Nat] PROVE P
  BY <1>2 DEF Waits, Holds, Owns
<1>3. ASSUME a \in [op : {"cfunc"}, th : Threads, ci : Nat, pc : Places, co : Threads] PROVE P
  BY <1>3 DEF Waits, Holds, Owns
<1>4. ASSUME a \in [op : {"poscall", "finishCcall"}, th : Threads, ci : Nat, pc : Places] PROVE P
  BY <1>4 DEF Waits, Holds, Owns
<1>5. ASSUME a \in [op : {"ccall"}, th : Threads, c : Int, n : {0, 1}] PROVE P
  BY <1>5 DEF Waits, Holds, Owns
<1>6. ASSUME a \in [op : {"try"}, th : Threads, nC : Int, nny : Int] PROVE P
  BY <1>6 DEF Waits, Holds, Owns
<1>7. ASSUME a \in [op : {"pcall"}, th : Threads, ci : Nat, errfunc : Int, top : Int, pc : Places, status : Statuses] PROVE P
  BY <1>7 DEF Waits, Holds, Owns
<1>8. ASSUME a \in [op : {"closep"}, th : Threads, level : Int, status : Results, ci : Nat, pc : Places] PROVE P
  BY <1>8 DEF Waits, Holds, Owns
<1>9. ASSUME a \in [op : {"close"}, th : Threads, level : Int, status : Statuses, yy : BOOLEAN] PROVE P
  BY <1>9 DEF Waits, Holds, Owns
<1>10. ASSUME a \in [op : {"errormsg"}, th : Threads, pc : Places] PROVE P
  BY <1>10 DEF Waits, Holds, Owns
<1>11. ASSUME a \in [op : {"resume", "unroll"}, th : Threads] PROVE P
  BY <1>11 DEF Waits, Holds, Owns
<1>12. ASSUME a \in [op : {"resumed", "closethread"}, th : Threads, co : Coroutines] PROVE P
  BY <1>12 DEF Waits, Holds, Owns
<1>13. P
  <2> HIDE DEF P
  <2> QED
    BY <1>1, <1>2, <1>3, <1>4, <1>5, <1>6, <1>7, <1>8, <1>9, <1>10, <1>11, <1>12 DEF Activation
<1>14. Called(a) \in Threads
  BY <1>13 DEF Called, Threads
<1> QED
  BY <1>13, <1>14

(* One activation in place of another, as far as the stack of C goes.      *)
Similar(a, b) ==
  /\ b.th = a.th
  /\ \/ a.op = b.op
     \/ {a.op, b.op} \subseteq {"cfunc", "poscall", "finishCcall"}
     \/ {a.op, b.op} \subseteq {"resume", "unroll"}
  /\ Waits(a) => b.co = a.co
  /\ a.op = "ccall" => b.n = a.n
  /\ a.op = "close" => b.yy = a.yy
  /\ a.op = "try" => b.nny = a.nny

LEMMA SimilarFacts ==
  ASSUME NEW a \in Activation, NEW b \in Activation, Similar(a, b)
  PROVE  /\ b.th = a.th
         /\ \A op \in {"host", "execute", "ccall", "try", "pcall", "closep", "close", "errormsg", "resumed", "closethread"} :
              (a.op = op) <=> (b.op = op)
         /\ a.op \in {"resume", "unroll"} <=> b.op \in {"resume", "unroll"}
         /\ a.op \in {"cfunc", "poscall", "finishCcall"} <=> b.op \in {"cfunc", "poscall", "finishCcall"}
         /\ Waits(a) <=> Waits(b)
         /\ Waits(a) => b.co = a.co
         /\ Crosses(a) <=> Crosses(b)
         /\ Called(a) = Called(b)
         /\ a.op = "ccall" => b.n = a.n
         /\ a.op = "close" => b.yy = a.yy
         /\ a.op = "try" => b.nny = a.nny
         /\ MayFail(a) <=> MayFail(b)
         /\ Unyieldable(a) <=> Unyieldable(b)
         /\ \A t \in Threads : ResetsOf(a, t) <=> ResetsOf(b, t)
         /\ Owns(a) <=> Owns(b)
         /\ Holds(a) <=> Holds(b)
<1>1. /\ b.th = a.th
      /\ \A op \in {"host", "execute", "ccall", "try", "pcall", "closep", "close", "errormsg", "resumed", "closethread"} :
              (a.op = op) <=> (b.op = op)
      /\ a.op \in {"resume", "unroll"} <=> b.op \in {"resume", "unroll"}
      /\ a.op \in {"cfunc", "poscall", "finishCcall"} <=> b.op \in {"cfunc", "poscall", "finishCcall"}
  BY DEF Similar
<1>2. /\ Waits(a) <=> Waits(b)
      /\ Waits(a) => b.co = a.co
  BY <1>1 DEF Waits, Similar
<1>3. Crosses(a) <=> Crosses(b)
  BY <1>1, <1>2 DEF Waits, Crosses
<1>4. Called(a) = Called(b)
  BY <1>1, <1>2 DEF Called
<1>5. /\ a.op = "ccall" => b.n = a.n
      /\ a.op = "close" => b.yy = a.yy
      /\ a.op = "try" => b.nny = a.nny
  BY DEF Similar
<1>6. MayFail(a) <=> MayFail(b)
  BY <1>1 DEF MayFail
<1>7. Unyieldable(a) <=> Unyieldable(b)
  BY <1>1, <1>5 DEF Unyieldable
<1>8. \A t \in Threads : ResetsOf(a, t) <=> ResetsOf(b, t)
  BY <1>1, <1>2 DEF ResetsOf, Waits
<1>9. Owns(a) <=> Owns(b)
  BY <1>1 DEF Owns
<1>10. Holds(a) <=> Holds(b)
  BY <1>1, <1>9 DEF Holds
<1> QED
  BY <1>1, <1>2, <1>3, <1>4, <1>5, <1>6, <1>7, <1>8, <1>9, <1>10

----------------------------------------------------------------------------
(* The stack of C: what is kept when it is cut, when an activation is      *)
(* called and when one takes the place of another.                         *)

(* The calls below p depend on the stack below p only.                     *)
LEMMA CountingSame ==
  ASSUME NEW s \in Seq(Activation), NEW u \in Seq(Activation), NEW p \in Nat,
         p <= Len(s) + 1, p <= Len(u) + 1,
         \A i \in 1..p-1 : Similar(s[i], u[i]),
         NEW t \in Threads
  PROVE  Counting(s, t, p) = Counting(u, t, p) /\ Unyielding(s, t, p) = Unyielding(u, t, p)
<1>1. \A i \in 1..p-1 : s[i] \in Activation /\ u[i] \in Activation
  OBVIOUS
<1>2. \A i \in 1..p-1 :
        /\ s[i].op = "ccall" <=> u[i].op = "ccall"
        /\ u[i].th = s[i].th
        /\ s[i].op = "ccall" => u[i].n = s[i].n
        /\ ResetsOf(s[i], t) <=> ResetsOf(u[i], t)
  <2> TAKE i \in 1..p-1
  <2> QED
    BY <1>1, SimilarFacts
<1>3. \A i \in 1..p-1 : \A j \in i..p-1 : j \in 1..p-1
  OBVIOUS
<1>4. ASSUME NEW i \in 1..p-1
      PROVE  (\A j \in i..p-1 : ~ResetsOf(s[j], t)) <=> (\A j \in i..p-1 : ~ResetsOf(u[j], t))
  <2>1. \A j \in i..p-1 : ResetsOf(s[j], t) <=> ResetsOf(u[j], t)
    BY <1>2, <1>3
  <2> QED
    BY <2>1
<1>5. ASSUME NEW i \in 1..p-1
      PROVE  (s[i].op = "ccall" /\ s[i].th = t /\ s[i].n = 1) <=> (u[i].op = "ccall" /\ u[i].th = t /\ u[i].n = 1)
  <2>1. CASE s[i].op = "ccall"
    BY <1>2, <2>1
  <2>2. CASE s[i].op # "ccall"
    BY <1>2, <2>2
  <2> QED
    BY <2>1, <2>2
<1>6. Counting(s, t, p) = Counting(u, t, p)
  BY <1>4, <1>5, Zenon DEF Counting
<1> QED
  BY <1>6 DEF Unyielding

LEMMA SimilarSelf ==
  ASSUME NEW a \in Activation
  PROVE  Similar(a, a)
  BY DEF Similar

LEMMA CountingCut ==
  ASSUME NEW s \in Seq(Activation), NEW n \in 0..Len(s), NEW p \in 1..n+1, NEW t \in Threads
  PROVE  Unyielding(SubSeq(s, 1, n), t, p) = Unyielding(s, t, p)
<1> DEFINE u == SubSeq(s, 1, n)
<1>1. u \in Seq(Activation) /\ Len(u) = n /\ \A i \in 1..n : u[i] = s[i] /\ s[i] \in Activation
  BY CutFacts
<1>2. p \in Nat /\ p <= Len(u) + 1 /\ p <= Len(s) + 1 /\ \A i \in 1..p-1 : i \in 1..n
  BY <1>1
<1>3. \A i \in 1..p-1 : Similar(s[i], u[i])
  BY <1>1, <1>2, SimilarSelf
<1> HIDE DEF u
<1>4. Unyielding(s, t, p) = Unyielding(u, t, p)
  BY <1>1, <1>2, <1>3, CountingSame
<1> QED
  BY <1>4 DEF u

LEMMA StackedCut ==
  ASSUME NEW s \in Seq(Activation), Stacked(s), NEW n \in 1..Len(s)
  PROVE  Stacked(SubSeq(s, 1, n))
<1> DEFINE u == SubSeq(s, 1, n)
<1>1. u \in Seq(Activation) /\ Len(u) = n /\ \A i \in 1..n : u[i] = s[i] /\ s[i] \in Activation
  BY CutFacts
<1>2. \A p \in 1..n : \A t \in Threads : Unyielding(u, t, p) = Unyielding(s, t, p)
  BY CountingCut
<1> HIDE DEF u
<1>3. Hosted(u)
  BY <1>1 DEF Stacked, Hosted
<1>4. Linked(u)
  <2> SUFFICES ASSUME NEW i \in 1..n-1 PROVE MayCall(u[i], u[i+1])
    BY <1>1 DEF Linked
  <2>1. i \in 1..Len(s)-1 /\ i \in 1..n /\ i+1 \in 1..n
    OBVIOUS
  <2> QED
    BY <1>1, <2>1 DEF Stacked, Linked
<1>5. Tried(u)
  <2> SUFFICES ASSUME NEW i \in 2..n-1, u[i].op = "try" PROVE MayTry(u[i-1], u[i+1])
    BY <1>1 DEF Tried
  <2>1. i \in 2..Len(s)-1 /\ i \in 1..n /\ i+1 \in 1..n /\ i-1 \in 1..n
    OBVIOUS
  <2> QED
    BY <1>1, <2>1 DEF Stacked, Tried
<1>6. Crossed(u)
  <2> SUFFICES ASSUME NEW i \in 1..n, Crosses(u[i]), NEW j \in 1..i PROVE u[j].th # u[i].co
    BY <1>1 DEF Crossed
  <2>1. i \in 1..Len(s) /\ j \in 1..n
    OBVIOUS
  <2> QED
    BY <1>1, <2>1 DEF Stacked, Crossed
<1>7. Convex(u)
  <2>1. \A i \in 1..n : i \in 1..Len(s)
    OBVIOUS
  <2> QED
    BY <1>1, <2>1 DEF Stacked, Convex
<1>8. Caught(u)
  <2> SUFFICES ASSUME NEW i \in 1..n, MayFail(u[i]) PROVE \E j \in 1..i-1 : u[j].op = "try" /\ u[j].th = u[i].th
    BY <1>1 DEF Caught
  <2>1. PICK j \in 1..i-1 : s[j].op = "try" /\ s[j].th = s[i].th
    BY <1>1 DEF Stacked, Caught
  <2>2. j \in 1..n
    OBVIOUS
  <2> QED
    BY <1>1, <2>1, <2>2
<1>9. Saved(u)
  <2> SUFFICES ASSUME NEW i \in 1..n, u[i].op = "try" PROVE u[i].nny = Unyielding(u, u[i].th, i)
    BY <1>1 DEF Saved
  <2>1. s[i].nny = Unyielding(s, s[i].th, i) /\ s[i].th \in Threads
    BY <1>1, ActivationFields DEF Stacked, Saved
  <2> QED
    BY <1>1, <1>2, <2>1
<1> QED
  BY <1>3, <1>4, <1>5, <1>6, <1>7, <1>8, <1>9 DEF Stacked, u

(* g may be called on the stack s.                                         *)
Joins(s, g) ==
  LET n == Len(s)
  IN /\ MayCall(s[n], g)
     /\ n >= 2 /\ s[n].op = "try" => MayTry(s[n-1], g)
     /\ Crosses(g) => g.th # g.co /\ ~Present(s, g.co)
     /\ MayFail(g) => \E j \in 1..n : s[j].op = "try" /\ s[j].th = g.th
     /\ g.op = "try" => g.nny = Unyielding(s, g.th, n + 1)

LEMMA CountingAppend ==
  ASSUME NEW s \in Seq(Activation), NEW g \in Activation, NEW p \in 1..Len(s)+1, NEW t \in Threads
  PROVE  /\ Counting(Append(s, g), t, p) = Counting(s, t, p)
         /\ Unyielding(Append(s, g), t, p) = Unyielding(s, t, p)
<1> DEFINE u == Append(s, g)
<1>1. u \in Seq(Activation) /\ Len(u) = Len(s) + 1 /\ \A i \in 1..Len(s) : u[i] = s[i] /\ s[i] \in Activation
  BY AppendFacts
<1>2. p \in Nat /\ p <= Len(u) + 1 /\ p <= Len(s) + 1 /\ \A i \in 1..p-1 : i \in 1..Len(s)
  BY <1>1
<1>3. \A i \in 1..p-1 : Similar(s[i], u[i])
  BY <1>1, <1>2, SimilarSelf
<1> HIDE DEF u
<1>4. Counting(s, t, p) = Counting(u, t, p) /\ Unyielding(s, t, p) = Unyielding(u, t, p)
  BY <1>1, <1>2, <1>3, CountingSame
<1> QED
  BY <1>4 DEF u

LEMMA StackedAppend ==
  ASSUME NEW s \in Seq(Activation), Stacked(s), NEW g \in Activation, Joins(s, g)
  PROVE  Stacked(Append(s, g))
<1> DEFINE u == Append(s, g)
           n == Len(s)
<1>1. /\ u \in Seq(Activation) /\ Len(u) = n + 1 /\ u[n+1] = g
      /\ \A i \in 1..n : u[i] = s[i] /\ s[i] \in Activation
      /\ n \in Nat /\ n >= 1
  BY AppendFacts DEF Stacked, Hosted
<1>2. \A p \in 1..n+1 : \A t \in Threads : Unyielding(u, t, p) = Unyielding(s, t, p)
  BY CountingAppend
<1> HIDE DEF u
<1>3. Hosted(u)
  BY <1>1 DEF Stacked, Hosted
<1>4. Linked(u)
  <2> SUFFICES ASSUME NEW i \in 1..n PROVE MayCall(u[i], u[i+1])
    BY <1>1 DEF Linked
  <2>1. CASE i = n
    BY <1>1, <2>1 DEF Joins
  <2>2. CASE i \in 1..n-1
    <3>1. i + 1 \in 1..n
      BY <1>1, <2>2
    <3> QED
      BY <1>1, <2>2, <3>1 DEF Stacked, Linked
  <2> QED
    BY <1>1, <2>1, <2>2
<1>5. Tried(u)
  <2> SUFFICES ASSUME NEW i \in 2..n, u[i].op = "try" PROVE MayTry(u[i-1], u[i+1])
    BY <1>1 DEF Tried
  <2>1. i \in 1..n /\ i - 1 \in 1..n
    BY <1>1
  <2>2. CASE i = n
    BY <1>1, <2>1, <2>2 DEF Joins
  <2>3. CASE i \in 2..n-1
    <3>1. i + 1 \in 1..n
      BY <1>1, <2>3
    <3> QED
      BY <1>1, <2>1, <2>3, <3>1 DEF Stacked, Tried
  <2> QED
    BY <1>1, <2>2, <2>3
<1>6. Crossed(u)
  <2> SUFFICES ASSUME NEW i \in 1..n+1, Crosses(u[i]), NEW j \in 1..i PROVE u[j].th # u[i].co
    BY <1>1 DEF Crossed
  <2>1. CASE i = n + 1
    <3>1. g.th # g.co /\ \A k \in 1..n : s[k].th # g.co
      BY <1>1, <2>1 DEF Joins, Present
    <3> QED
      BY <1>1, <2>1, <3>1
  <2>2. CASE i \in 1..n
    <3>1. j \in 1..n
      BY <1>1, <2>2
    <3> QED
      BY <1>1, <2>2, <3>1 DEF Stacked, Crossed
  <2> QED
    BY <1>1, <2>1, <2>2
<1>7. Convex(u)
  <2> SUFFICES ASSUME NEW i \in 1..n+1, NEW j \in 1..n+1, NEW k \in 1..n+1, i <= j, j <= k, u[i].th = u[k].th
               PROVE  u[j].th = u[i].th
    BY <1>1 DEF Convex
  <2>1. CASE k \in 1..n
    <3>1. i \in 1..n /\ j \in 1..n
      BY <1>1, <2>1
    <3> QED
      BY <1>1, <2>1, <3>1 DEF Stacked, Convex
  <2>2. CASE k = n + 1 /\ i \in 1..n /\ j \in 1..n
    <3>1. g.th = Called(s[n])
      BY DEF Joins, MayCall
    <3>2. s[n].th = g.th
      <4>1. ~Crosses(s[n])
        <5>1. Crosses(s[n]) => s[i].th # s[n].co
          BY <1>1, <2>2 DEF Stacked, Crossed
        <5>2. Crosses(s[n]) => g.th = s[n].co
          BY <3>1 DEF Crosses, Called, Waits
        <5> QED
          BY <1>1, <2>2, <5>1, <5>2
      <4> QED
        BY <3>1, <4>1 DEF Crosses, Called, Waits
    <3>3. n \in 1..n /\ j <= n
      BY <1>1, <2>2
    <3> QED
      BY <1>1, <2>2, <3>2, <3>3 DEF Stacked, Convex
  <2>3. CASE j = n + 1 \/ i = n + 1
    BY <1>1, <2>3
  <2> QED
    BY <1>1, <2>1, <2>2, <2>3
<1>8. Caught(u)
  <2> SUFFICES ASSUME NEW i \in 1..n+1, MayFail(u[i]) PROVE \E j \in 1..i-1 : u[j].op = "try" /\ u[j].th = u[i].th
    BY <1>1 DEF Caught
  <2>1. CASE i = n + 1
    <3>1. PICK j \in 1..n : s[j].op = "try" /\ s[j].th = g.th
      BY <1>1, <2>1 DEF Joins
    <3>2. j \in 1..i-1 /\ u[j] = s[j] /\ u[i] = g
      BY <1>1, <2>1
    <3> QED
      BY <3>1, <3>2
  <2>2. CASE i \in 1..n
    <3>1. PICK j \in 1..i-1 : s[j].op = "try" /\ s[j].th = s[i].th
      BY <1>1, <2>2 DEF Stacked, Caught
    <3>2. j \in 1..n
      BY <1>1, <2>2
    <3> QED
      BY <1>1, <2>2, <3>1, <3>2
  <2> QED
    BY <1>1, <2>1, <2>2
<1>9. Saved(u)
  <2> SUFFICES ASSUME NEW i \in 1..n+1, u[i].op = "try" PROVE u[i].nny = Unyielding(u, u[i].th, i)
    BY <1>1 DEF Saved
  <2>1. u[i] \in Activation
    BY <1>1
  <2>2. CASE i = n + 1
    BY <1>1, <1>2, <2>1, <2>2, ActivationFields DEF Joins
  <2>3. CASE i \in 1..n
    <3>1. s[i].nny = Unyielding(s, s[i].th, i) /\ s[i].th \in Threads
      BY <1>1, <2>3, ActivationFields DEF Stacked, Saved
    <3> QED
      BY <1>1, <1>2, <2>3, <3>1
  <2> QED
    BY <1>1, <2>2, <2>3
<1> QED
  BY <1>3, <1>4, <1>5, <1>6, <1>7, <1>8, <1>9 DEF Stacked, u

LEMMA StackedSimilar ==
  ASSUME NEW s \in Seq(Activation), Stacked(s), NEW u \in Seq(Activation), Len(u) = Len(s),
         \A i \in 1..Len(s) : Similar(s[i], u[i])
  PROVE  Stacked(u)
<1> DEFINE n == Len(s)
<1>1. n \in Nat /\ n >= 1 /\ \A i \in 1..n : s[i] \in Activation /\ u[i] \in Activation
  BY DEF Stacked, Hosted
<1>2. ASSUME NEW p \in 1..n+1, NEW t \in Threads
      PROVE  Unyielding(u, t, p) = Unyielding(s, t, p)
  <2>1. p \in Nat /\ p <= n + 1 /\ \A i \in 1..p-1 : i \in 1..n
    BY <1>1
  <2> QED
    BY <1>1, <2>1, CountingSame
<1>3. Hosted(u)
  <2>1. 1 \in 1..n
    BY <1>1
  <2> QED
    BY <1>1, <2>1, SimilarFacts DEF Stacked, Hosted
<1>4. Linked(u)
  <2> SUFFICES ASSUME NEW i \in 1..n-1 PROVE MayCall(u[i], u[i+1])
    BY <1>1 DEF Linked
  <2> DEFINE a == s[i]
             b == s[i+1]
             c == u[i]
             d == u[i+1]
  <2>1. a \in Activation /\ b \in Activation /\ c \in Activation /\ d \in Activation /\ Similar(a, c) /\ Similar(b, d)
    <3>1. i \in 1..n /\ i + 1 \in 1..n
      BY <1>1
    <3> QED
      BY <1>1, <3>1
  <2>2. MayCall(a, b)
    BY DEF Stacked, Linked
  <2> HIDE DEF a, b, c, d
  <2>3. MayCall(c, d)
    <3>1. /\ \A op \in {"host", "ccall", "try", "pcall", "closep", "close", "resumed", "closethread"} :
               (a.op = op <=> c.op = op) /\ (b.op = op <=> d.op = op)
          /\ a.op \in {"cfunc", "poscall", "finishCcall"} <=> c.op \in {"cfunc", "poscall", "finishCcall"}
          /\ b.op \in {"resume", "unroll"} <=> d.op \in {"resume", "unroll"}
          /\ Called(a) = Called(c) /\ b.th = d.th
          /\ a.op = "close" => c.yy = a.yy
          /\ Unyieldable(b) <=> Unyieldable(d)
      BY <2>1, SimilarFacts
    <3> QED
      BY <2>2, <3>1 DEF MayCall
  <2> QED
    BY <2>3 DEF c, d
<1>5. Tried(u)
  <2> SUFFICES ASSUME NEW i \in 2..n-1, u[i].op = "try" PROVE MayTry(u[i-1], u[i+1])
    BY <1>1 DEF Tried
  <2>1. i \in 1..n /\ i - 1 \in 1..n /\ i + 1 \in 1..n
    BY <1>1
  <2>2. s[i].op = "try"
    BY <1>1, <2>1, SimilarFacts
  <2>3. MayTry(s[i-1], s[i+1])
    BY <2>2 DEF Stacked, Tried
  <2>4. /\ s[i-1].op = "resumed" <=> u[i-1].op = "resumed"
        /\ s[i+1].op \in {"resume", "unroll"} <=> u[i+1].op \in {"resume", "unroll"}
        /\ Unyieldable(s[i+1]) <=> Unyieldable(u[i+1])
    BY <1>1, <2>1, SimilarFacts
  <2> QED
    BY <2>3, <2>4 DEF MayTry
<1>6. Crossed(u)
  <2> SUFFICES ASSUME NEW i \in 1..n, Crosses(u[i]), NEW j \in 1..i PROVE u[j].th # u[i].co
    BY <1>1 DEF Crossed
  <2>1. j \in 1..n /\ i \in 1..n
    BY <1>1
  <2>2. Crosses(s[i]) /\ u[j].th = s[j].th
    BY <1>1, <2>1, SimilarFacts
  <2>3. u[i].co = s[i].co
    BY <1>1, <2>1, <2>2, SimilarFacts DEF Crosses, Waits
  <2> QED
    BY <2>1, <2>2, <2>3 DEF Stacked, Crossed
<1>7. Convex(u)
  <2>1. \A i \in 1..n : u[i].th = s[i].th
    BY <1>1, SimilarFacts
  <2> QED
    BY <1>1, <2>1 DEF Stacked, Convex
<1>8. Caught(u)
  <2> SUFFICES ASSUME NEW i \in 1..n, MayFail(u[i]) PROVE \E j \in 1..i-1 : u[j].op = "try" /\ u[j].th = u[i].th
    BY <1>1 DEF Caught
  <2>1. MayFail(s[i]) /\ u[i].th = s[i].th
    BY <1>1, SimilarFacts
  <2>2. PICK j \in 1..i-1 : s[j].op = "try" /\ s[j].th = s[i].th
    BY <2>1 DEF Stacked, Caught
  <2>3. j \in 1..n
    BY <1>1
  <2>4. u[j].op = "try" /\ u[j].th = s[j].th
    BY <1>1, <2>2, <2>3, SimilarFacts
  <2> QED
    BY <2>1, <2>2, <2>4
<1>9. Saved(u)
  <2> SUFFICES ASSUME NEW i \in 1..n, u[i].op = "try" PROVE u[i].nny = Unyielding(u, u[i].th, i)
    BY <1>1 DEF Saved
  <2>1. s[i].op = "try" /\ u[i].th = s[i].th /\ u[i].nny = s[i].nny
    BY <1>1, SimilarFacts
  <2>2. s[i].nny = Unyielding(s, s[i].th, i) /\ s[i].th \in Threads
    BY <1>1, <2>1, ActivationFields DEF Stacked, Saved
  <2>3. i \in 1..n+1
    BY <1>1
  <2> QED
    BY <1>2, <2>1, <2>2, <2>3
<1> QED
  BY <1>3, <1>4, <1>5, <1>6, <1>7, <1>8, <1>9 DEF Stacked

----------------------------------------------------------------------------
(* The fields of a machine, and what the operations do to them.            *)

LEMMA MachineFields ==
  ASSUME NEW mm \in MachineType, NEW t \in Threads
  PROVE  /\ mm.cs \in Seq(Activation) /\ mm.ret \in Statuses /\ mm.asserts \in BOOLEAN
         /\ mm.L \in [Threads -> Thread] /\ mm.L[t] \in Thread
         /\ mm.L[t].ci \in Seq(CallInfo) /\ mm.L[t].top \in Int /\ mm.L[t].open \in SUBSET Int
         /\ mm.L[t].tbc \in Seq(Int) /\ mm.L[t].errfunc \in Int /\ mm.L[t].nC \in Int /\ mm.L[t].nny \in Int
         /\ mm.L[t].status \in {"ok", "yield"} \cup Errors /\ mm.L[t].errorJmp \in Seq(Nat) /\ mm.L[t].over \in BOOLEAN
<1>1. /\ mm.cs \in Seq(Activation) /\ mm.ret \in Statuses /\ mm.asserts \in BOOLEAN
      /\ mm.L \in [Threads -> Thread]
  BY DEF MachineType
<1>2. mm.L[t] \in Thread
  BY <1>1
<1> QED
  BY <1>1, <1>2 DEF Thread

LEMMA PushFacts ==
  ASSUME NEW mm \in MachineType, NEW a \in Activation
  PROVE  /\ Push(mm, a) \in MachineType
         /\ Push(mm, a).cs = Append(mm.cs, a)
         /\ Push(mm, a).ret = "go"
         /\ Push(mm, a).L = mm.L
  BY AppendFacts DEF MachineType, Push, Statuses

LEMMA PopFacts ==
  ASSUME NEW mm \in MachineType, mm.cs # <<>>, NEW r \in Statuses
  PROVE  /\ Pop(mm, r) \in MachineType
         /\ Pop(mm, r).cs = Front(mm.cs)
         /\ Pop(mm, r).ret = r
         /\ Pop(mm, r).L = mm.L
  BY LastFacts DEF MachineType, Pop

LEMMA AtFacts ==
  ASSUME NEW mm \in MachineType, mm.cs # <<>>, NEW a \in Activation
  PROVE  /\ At(mm, a) \in MachineType
         /\ At(mm, a).cs = [mm.cs EXCEPT ![Len(mm.cs)] = a]
         /\ At(mm, a).ret = "go"
         /\ At(mm, a).L = mm.L
<1>1. [mm.cs EXCEPT ![Len(mm.cs)] = a] \in Seq(Activation)
  <2>1. mm.cs \in Seq(Activation)
    BY DEF MachineType
  <2> QED
    BY <2>1
<1> QED
  BY <1>1 DEF MachineType, At, Statuses

LEMMA AssertFacts ==
  ASSUME NEW mm \in MachineType, NEW b \in BOOLEAN
  PROVE  /\ lua_assert(mm, b) \in MachineType
         /\ lua_assert(mm, b).cs = mm.cs
         /\ lua_assert(mm, b).ret = mm.ret
         /\ lua_assert(mm, b).L = mm.L
  BY DEF MachineType, lua_assert

(* Only the thread h is another, and its fields are still of their types. *)
Others(mm, nn, h) == \A t \in Threads \ {h} : nn.L[t] = mm.L[t]

LEMMA CutCIFacts ==
  ASSUME NEW mm \in MachineType, NEW h \in Threads, NEW n \in 0..Len(mm.L[h].ci)
  PROVE  LET nn == CutCI(mm, h, n)
         IN /\ nn \in MachineType /\ nn.cs = mm.cs /\ nn.ret = mm.ret /\ Others(mm, nn, h)
            /\ nn.L[h] = [mm.L[h] EXCEPT !.ci = SubSeq(@, 1, n)]
<1>1. SubSeq(mm.L[h].ci, 1, n) \in Seq(CallInfo)
  BY MachineFields, CutFacts
<1>2. [mm.L[h] EXCEPT !.ci = SubSeq(@, 1, n)] \in Thread
  BY <1>1, MachineFields DEF Thread
<1> QED
  BY <1>2 DEF MachineType, CutCI, Others

LEMMA PushCIFacts ==
  ASSUME NEW mm \in MachineType, NEW h \in Threads, NEW c \in CallInfo
  PROVE  LET nn == PushCI(mm, h, c)
         IN /\ nn \in MachineType /\ nn.cs = mm.cs /\ nn.ret = mm.ret /\ Others(mm, nn, h)
            /\ nn.L[h] = [mm.L[h] EXCEPT !.ci = Append(@, c)]
<1>1. Append(mm.L[h].ci, c) \in Seq(CallInfo)
  BY MachineFields, AppendFacts
<1>2. [mm.L[h] EXCEPT !.ci = Append(@, c)] \in Thread
  BY <1>1, MachineFields DEF Thread
<1> QED
  BY <1>2 DEF MachineType, PushCI, Others

LEMMA SetTopFacts ==
  ASSUME NEW mm \in MachineType, NEW h \in Threads, NEW n \in Int
  PROVE  LET nn == SetTop(mm, h, n)
         IN /\ nn \in MachineType /\ nn.cs = mm.cs /\ nn.ret = mm.ret /\ Others(mm, nn, h)
            /\ nn.L[h] = [mm.L[h] EXCEPT !.top = n]
<1>1. [mm.L[h] EXCEPT !.top = n] \in Thread
  BY MachineFields DEF Thread
<1> QED
  BY <1>1 DEF MachineType, SetTop, Others

LEMMA CountedFacts ==
  ASSUME NEW mm \in MachineType, NEW h \in Threads, NEW c \in Int, NEW n \in Int
  PROVE  LET nn == Counted(mm, h, c, n)
         IN /\ nn \in MachineType /\ nn.cs = mm.cs /\ nn.ret = mm.ret /\ Others(mm, nn, h)
            /\ nn.L[h].nny = mm.L[h].nny + n /\ nn.L[h].errorJmp = mm.L[h].errorJmp
            /\ nn.L[h].ci = mm.L[h].ci /\ nn.L[h].status = mm.L[h].status
<1>1. [mm.L[h] EXCEPT !.nC = @ + c, !.nny = @ + n] \in Thread
  <2>1. mm.L[h].nC + c \in Int /\ mm.L[h].nny + n \in Int /\ mm.L[h] \in Thread
    BY MachineFields
  <2> QED
    BY <2>1 DEF Thread
<1> DEFINE x == [mm.L[h] EXCEPT !.nC = @ + c, !.nny = @ + n]
           nn == Counted(mm, h, c, n)
<1>2. /\ x.nny = mm.L[h].nny + n /\ x.errorJmp = mm.L[h].errorJmp
      /\ x.ci = mm.L[h].ci /\ x.status = mm.L[h].status
  BY MachineFields DEF Thread
<1> HIDE DEF x
<1>3. nn = [mm EXCEPT !.L[h] = x]
  BY DEF Counted, x
<1>4. nn \in MachineType /\ nn.cs = mm.cs /\ nn.ret = mm.ret /\ Others(mm, nn, h) /\ nn.L[h] = x
  BY <1>1, <1>3 DEF MachineType, Others, x
<1> HIDE DEF nn
<1> QED
  BY <1>2, <1>4 DEF nn

LEMMA TryFacts ==
  ASSUME NEW mm \in MachineType, NEW h \in Threads
  PROVE  LET nn == rawrunprotected(mm, h)
             a == [op |-> "try", th |-> h, nC |-> mm.L[h].nC, nny |-> mm.L[h].nny]
         IN /\ nn \in MachineType /\ nn.cs = Append(mm.cs, a) /\ a \in Activation /\ nn.ret = "go" /\ Others(mm, nn, h)
            /\ nn.L[h].errorJmp = Append(mm.L[h].errorJmp, Len(mm.cs) + 1) /\ nn.L[h].nny = mm.L[h].nny
            /\ nn.L[h].ci = mm.L[h].ci /\ nn.L[h].status = mm.L[h].status
<1> DEFINE a == [op |-> "try", th |-> h, nC |-> mm.L[h].nC, nny |-> mm.L[h].nny]
<1>1. a \in Activation
  BY MachineFields DEF Activation
<1>2. Push(mm, a) \in MachineType /\ Push(mm, a).cs = Append(mm.cs, a) /\ Push(mm, a).ret = "go" /\ Push(mm, a).L = mm.L
  BY <1>1, PushFacts
<1>3. Append(mm.L[h].errorJmp, Len(mm.cs) + 1) \in Seq(Nat)
  BY MachineFields, AppendFacts
<1>4. [mm.L[h] EXCEPT !.errorJmp = Append(@, Len(mm.cs) + 1)] \in Thread
  BY <1>3, MachineFields DEF Thread
<1> DEFINE x == [mm.L[h] EXCEPT !.errorJmp = Append(@, Len(mm.cs) + 1)]
           nn == rawrunprotected(mm, h)
<1>5. /\ x.errorJmp = Append(mm.L[h].errorJmp, Len(mm.cs) + 1) /\ x.nny = mm.L[h].nny
      /\ x.ci = mm.L[h].ci /\ x.status = mm.L[h].status
  BY MachineFields DEF Thread
<1>6. nn \in MachineType /\ nn.cs = Append(mm.cs, a) /\ nn.ret = "go" /\ Others(mm, nn, h) /\ nn.L[h] = x
  BY <1>1, <1>2, <1>4 DEF MachineType, rawrunprotected, Others
<1> HIDE DEF x, nn, a
<1>7. nn.L[h].errorJmp = x.errorJmp /\ nn.L[h].nny = x.nny /\ nn.L[h].ci = x.ci /\ nn.L[h].status = x.status
  BY <1>6
<1> QED
  BY <1>1, <1>5, <1>6, <1>7 DEF nn, a

LEMMA ThrowFacts ==
  ASSUME NEW mm \in MachineType, NEW h \in Threads, NEW p \in 1..Len(mm.cs), mm.cs[p].op = "try",
         NEW jumps \in Seq(Nat), NEW status \in Statuses
  PROVE  LET nn == throwTo(mm, h, p, jumps, status)
         IN /\ nn \in MachineType /\ nn.cs = SubSeq(mm.cs, 1, p - 1) /\ nn.ret = status /\ Others(mm, nn, h)
            /\ nn.L[h].errorJmp = jumps /\ nn.L[h].nny = mm.cs[p].nny
            /\ nn.L[h].ci = mm.L[h].ci /\ nn.L[h].status = mm.L[h].status
<1>1. mm.cs[p] \in Activation
  BY MachineFields
<1>2. mm.cs[p].nC \in Int /\ mm.cs[p].nny \in Int
  BY <1>1, ActivationFields
<1>3. SubSeq(mm.cs, 1, p - 1) \in Seq(Activation)
  BY MachineFields, CutFacts
<1>4. [mm.L[h] EXCEPT !.errorJmp = jumps, !.nC = mm.cs[p].nC, !.nny = mm.cs[p].nny] \in Thread
  BY <1>2, MachineFields DEF Thread
<1>5. mm \in MachineType /\ mm.L \in [Threads -> Thread] /\ mm.L[h] \in Thread
  BY MachineFields
<1> DEFINE nn == throwTo(mm, h, p, jumps, status)
<1>6. nn.cs = SubSeq(mm.cs, 1, p - 1) /\ nn.ret = status
  BY <1>5 DEF MachineType, throwTo
<1>7. nn.L = [mm.L EXCEPT ![h] = [mm.L[h] EXCEPT !.errorJmp = jumps, !.nC = mm.cs[p].nC, !.nny = mm.cs[p].nny]]
  BY <1>5 DEF MachineType, throwTo
<1>8. nn.asserts \in BOOLEAN
  BY <1>5 DEF MachineType, throwTo
<1>9. nn \in MachineType
  <2> DEFINE LL == [mm.L EXCEPT ![h] = [mm.L[h] EXCEPT !.errorJmp = jumps, !.nC = mm.cs[p].nC, !.nny = mm.cs[p].nny]]
             ss == SubSeq(mm.cs, 1, p - 1)
             b == mm.asserts /\ OnlyOf(mm, h, p)
  <2>1. LL \in [Threads -> Thread]
    BY <1>4, <1>5
  <2>2. ss \in Seq(Activation) /\ b \in BOOLEAN
    BY <1>3, <1>5
  <2>3. nn = [mm EXCEPT !.cs = ss, !.ret = status, !.asserts = b, !.L = LL]
    BY DEF throwTo
  <2> HIDE DEF LL, ss, b, nn
  <2> QED
    BY <2>1, <2>2, <2>3 DEF MachineType
<1> DEFINE x == [mm.L[h] EXCEPT !.errorJmp = jumps, !.nC = mm.cs[p].nC, !.nny = mm.cs[p].nny]
<1>10. x.errorJmp = jumps /\ x.nny = mm.cs[p].nny /\ x.ci = mm.L[h].ci /\ x.status = mm.L[h].status
  BY <1>5 DEF Thread
<1>11. nn.L[h] = x /\ Others(mm, nn, h)
  BY <1>5, <1>7 DEF Others
<1> QED
  BY <1>6, <1>9, <1>10, <1>11

----------------------------------------------------------------------------
(* What a machine keeps while an activation works.                         *)

SameCalls(c, d) == Len(d) = Len(c) /\ \A k \in 1..Len(c) : Afresh(d[k]) <=> Afresh(c[k])
SameThread(x, y) == y.errorJmp = x.errorJmp /\ y.nny = x.nny /\ SameCalls(x.ci, y.ci)
Alike(s, u) ==
  Len(u) = Len(s) /\ \A i \in 1..Len(s) : Similar(s[i], u[i]) /\ (s[i].op = "closep" => u[i].ci = s[i].ci)
SameStack(s, u) ==
  Len(u) = Len(s) /\ \A i \in 1..Len(s) : Similar(s[i], u[i]) /\ (Holds(s[i]) => u[i].ci = s[i].ci)

LEMMA CoreFacts ==
  ASSUME NEW mm, Core(mm)
  PROVE  /\ mm \in MachineType /\ mm.cs \in Seq(Activation) /\ Len(mm.cs) \in Nat /\ Len(mm.cs) >= 1 /\ mm.cs # <<>>
         /\ Last(mm.cs) = mm.cs[Len(mm.cs)] /\ Last(mm.cs) \in Activation
         /\ \A i \in 1..Len(mm.cs) : mm.cs[i] \in Activation
         /\ Stacked(mm.cs)
         /\ Past(mm) \in 1..Len(mm.cs)+1
         /\ Past(mm) = Len(mm.cs) \/ Past(mm) = Len(mm.cs) + 1
         /\ ~(Last(mm.cs).op = "closethread" /\ mm.ret = "go") => Past(mm) = Len(mm.cs) + 1
<1>1. mm \in MachineType /\ Stacked(mm.cs)
  BY DEF Core
<1>2. mm.cs \in Seq(Activation) /\ Len(mm.cs) \in Nat /\ Len(mm.cs) >= 1
  BY <1>1 DEF Stacked, Hosted, MachineType
<1>3. mm.cs # <<>>
  BY <1>2
<1>4. Past(mm) \in 1..Len(mm.cs)+1
  BY <1>2 DEF Past
<1>5. Past(mm) = Len(mm.cs) \/ Past(mm) = Len(mm.cs) + 1
  BY <1>2 DEF Past
<1>6. ~(Last(mm.cs).op = "closethread" /\ mm.ret = "go") => Past(mm) = Len(mm.cs) + 1
  BY <1>2 DEF Past
<1> QED
  BY <1>1, <1>2, <1>3, <1>4, <1>5, <1>6, LastFacts

LEMMA AlikeCore ==
  ASSUME NEW mm, Core(mm), NEW nn \in MachineType,
         Alike(mm.cs, nn.cs), Past(nn) = Past(mm),
         \A t \in Threads : SameThread(mm.L[t], nn.L[t])
  PROVE  Depth(nn) => Core(nn)
<1> DEFINE n == Len(mm.cs)
<1>1. /\ nn.cs \in Seq(Activation) /\ Len(nn.cs) = n /\ n \in Nat /\ n >= 1
      /\ \A i \in 1..n : /\ Similar(mm.cs[i], nn.cs[i])
                         /\ mm.cs[i] \in Activation /\ nn.cs[i] \in Activation
                         /\ mm.cs[i].op = "closep" => nn.cs[i].ci = mm.cs[i].ci
  BY CoreFacts DEF MachineType, Alike
<1>2. \A i \in 1..n : /\ nn.cs[i].th = mm.cs[i].th /\ (nn.cs[i].op = "try" <=> mm.cs[i].op = "try")
                      /\ Holds(nn.cs[i]) <=> Holds(mm.cs[i])
                      /\ Owns(nn.cs[i]) <=> Owns(mm.cs[i])
  BY <1>1, SimilarFacts
<1>3. Stacked(nn.cs)
  BY <1>1, CoreFacts, StackedSimilar
<1>4. Jumps(nn)
  <2> SUFFICES ASSUME NEW t \in Threads PROVE JumpsOf(nn.cs, t, nn.L[t].errorJmp)
    BY DEF Jumps
  <2>1. nn.L[t].errorJmp = mm.L[t].errorJmp
    BY DEF SameThread
  <2>2. \A p : IsTry(nn.cs, t, p) <=> IsTry(mm.cs, t, p)
    BY <1>1, <1>2 DEF IsTry
  <2> QED
    BY <1>1, <2>1, <2>2 DEF Core, Jumps, JumpsOf
<1>5. Counts(nn)
  <2> SUFFICES ASSUME NEW t \in Threads, Present(nn.cs, t)
               PROVE  nn.L[t].nny = Unyielding(nn.cs, t, Past(nn))
    BY DEF Counts
  <2>1. Present(mm.cs, t)
    BY <1>1, <1>2 DEF Present
  <2>2. mm.L[t].nny = Unyielding(mm.cs, t, Past(mm))
    BY <2>1 DEF Core, Counts
  <2>3. Unyielding(mm.cs, t, Past(mm)) = Unyielding(nn.cs, t, Past(mm))
    <3>1. Past(mm) \in Nat /\ Past(mm) <= n + 1 /\ mm.cs \in Seq(Activation)
      BY CoreFacts
    <3>2. \A i \in 1..Past(mm)-1 : i \in 1..n
      BY <1>1, <3>1
    <3> QED
      BY <1>1, <3>1, <3>2, CountingSame
  <2> QED
    BY <2>2, <2>3 DEF SameThread
<1>7. Apart(nn)
  <2> SUFFICES ASSUME NEW t \in Threads, Present(nn.cs, t), t # Called(Last(nn.cs))
               PROVE  Len(nn.L[t].ci) >= 2
    BY DEF Apart
  <2>1. Present(mm.cs, t)
    BY <1>1, <1>2 DEF Present
  <2>2. Last(mm.cs) = mm.cs[n] /\ Last(nn.cs) = nn.cs[n] /\ n \in 1..n
    BY <1>1 DEF Last
  <2>3. Called(Last(mm.cs)) = Called(Last(nn.cs))
    BY <1>1, <2>2, SimilarFacts
  <2>4. Len(mm.L[t].ci) >= 2
    BY <2>1, <2>3 DEF Core, Apart
  <2> QED
    BY <2>4 DEF SameThread, SameCalls
<1>8. Based(nn.cs)
  <2> SUFFICES ASSUME NEW i \in 1..n-1, nn.cs[i].op = "closethread" PROVE nn.cs[i+1].ci = 1
    BY <1>1 DEF Based
  <2>1. i \in 1..n /\ i + 1 \in 1..n
    BY <1>1
  <2>2. mm.cs[i].op = "closethread"
    BY <1>1, <2>1, SimilarFacts
  <2>3. mm.cs[i+1].ci = 1 /\ mm.cs[i+1].op = "closep"
    BY <1>1, <2>2 DEF Core, Based, Stacked, Linked, MayCall
  <2> QED
    BY <1>1, <2>1, <2>3
<1> QED
  BY <1>3, <1>4, <1>5, <1>7, <1>8 DEF Core

LEMMA StayCore ==
  ASSUME NEW mm, Core(mm), NEW nn \in MachineType,
         SameStack(mm.cs, nn.cs), Past(nn) = Past(mm),
         \A t \in Threads : SameThread(mm.L[t], nn.L[t])
  PROVE  Core(nn)
<1> DEFINE n == Len(mm.cs)
<1>1. /\ nn.cs \in Seq(Activation) /\ Len(nn.cs) = n /\ n \in Nat /\ n >= 1
      /\ \A i \in 1..n : /\ Similar(mm.cs[i], nn.cs[i])
                         /\ mm.cs[i] \in Activation /\ nn.cs[i] \in Activation
                         /\ Holds(mm.cs[i]) => nn.cs[i].ci = mm.cs[i].ci
  BY CoreFacts DEF MachineType, SameStack
<1>2. \A i \in 1..n : /\ nn.cs[i].th = mm.cs[i].th /\ (nn.cs[i].op = "try" <=> mm.cs[i].op = "try")
                      /\ Holds(nn.cs[i]) <=> Holds(mm.cs[i])
                      /\ Owns(nn.cs[i]) <=> Owns(mm.cs[i])
  BY <1>1, SimilarFacts
<1>3. Alike(mm.cs, nn.cs)
  BY <1>1 DEF Alike, Holds
<1>6. Depth(nn)
  <2> SUFFICES ASSUME NEW t \in Threads PROVE DepthOf(nn, t, nn.L[t].ci)
    BY DEF Depth
  <2> DEFINE cis == mm.L[t].ci
             dis == nn.L[t].ci
  <2>1. Len(dis) = Len(cis) /\ Len(cis) \in Nat /\ \A k \in 1..Len(cis) : Afresh(dis[k]) <=> Afresh(cis[k])
    BY CoreFacts, MachineFields DEF SameThread, SameCalls
  <2>2. DepthOf(mm, t, cis)
    BY DEF Core, Depth
  <2>3. HeldBy(nn, t) = HeldBy(mm, t)
    <3>1. \A j \in 1..n : ResetsOf(nn.cs[j], t) <=> ResetsOf(mm.cs[j], t)
      BY <1>1, SimilarFacts
    <3>2. Past(mm) - 1 <= n /\ Past(mm) \in Nat
      BY CoreFacts
    <3>3. \A i \in 1..n : \A j \in i..Past(mm)-1 : j \in 1..n
      BY <1>1, <3>2
    <3>4. \A i \in 1..n : Lives(nn, t, i) <=> Lives(mm, t, i)
      BY <1>1, <1>2, <3>1, <3>3 DEF Lives
    <3> QED
      BY <1>1, <1>2, <3>4 DEF HeldBy
  <2>4. \A i \in HeldBy(mm, t) : i \in 1..n /\ nn.cs[i].ci = mm.cs[i].ci /\ (Owns(nn.cs[i]) <=> Owns(mm.cs[i]))
    BY <1>1, <1>2 DEF HeldBy
  <2> HIDE DEF cis, dis
  <2>5. ASSUME NEW i \in HeldBy(mm, t), NEW j \in HeldBy(mm, t), i < j, Owns(mm.cs[j])
        PROVE  \E k \in nn.cs[i].ci+1..nn.cs[j].ci : Afresh(dis[k])
    <3>1. PICK k \in mm.cs[i].ci+1..mm.cs[j].ci : Afresh(cis[k])
      BY <2>2, <2>5 DEF DepthOf
    <3>2. mm.cs[i].ci \in Nat /\ mm.cs[j].ci \in 1..Len(cis)
      BY <2>1, <2>2 DEF DepthOf
    <3>3. k \in 1..Len(cis)
      BY <2>1, <3>2
    <3> QED
      BY <2>1, <2>4, <3>1, <3>3
  <2>6. DepthOf(nn, t, dis)
    BY <2>1, <2>2, <2>3, <2>4, <2>5 DEF DepthOf
  <2> QED
    BY <2>6 DEF dis
<1> QED
  BY <1>3, <1>6, AlikeCore

----------------------------------------------------------------------------
(* An activation is called.                                                *)

LEMMA CountingNext ==
  ASSUME NEW s \in Seq(Activation), NEW g \in Activation, NEW t \in Threads, ~ResetsOf(g, t),
         ~(g.op = "ccall" /\ g.th = t /\ g.n = 1)
  PROVE  Unyielding(Append(s, g), t, Len(s) + 2) = Unyielding(s, t, Len(s) + 1)
<1> DEFINE u == Append(s, g)
           n == Len(s)
<1>1. /\ u[n+1] = g /\ n \in Nat
      /\ \A i \in 1..n : u[i] = s[i]
  BY AppendFacts
<1>2. Counting(u, t, n + 1) = Counting(s, t, n + 1)
  <2>1. n + 1 \in 1..Len(s)+1
    BY <1>1
  <2> QED
    BY <2>1, CountingAppend
<1> HIDE DEF u
<1>3. \A i \in 1..n : (\A j \in i..n+1 : ~ResetsOf(u[j], t)) <=> (\A j \in i..n : ~ResetsOf(u[j], t))
  <2> TAKE i \in 1..n
  <2>1. \A j \in i..n+1 : j \in i..n \/ j = n + 1
    BY <1>1
  <2>2. \A j \in i..n : j \in i..n+1
    BY <1>1
  <2> QED
    BY <1>1, <2>1, <2>2
<1>4. Counting(u, t, n + 2) = Counting(u, t, n + 1)
  <2>1. \A i \in Counting(u, t, n + 2) : i \in Counting(u, t, n + 1)
    BY <1>1, <1>3 DEF Counting
  <2>2. \A i \in Counting(u, t, n + 1) : i \in Counting(u, t, n + 2)
    BY <1>1, <1>3 DEF Counting
  <2> QED
    BY <2>1, <2>2, Zenon DEF Counting
<1>5. Counting(u, t, n + 2) = Counting(s, t, n + 1)
  BY <1>2, <1>4
<1> QED
  BY <1>5 DEF Unyielding, u

LEMMA CountingFinite ==
  ASSUME NEW s \in Seq(Activation), NEW p \in Nat, NEW t \in Threads
  PROVE  IsFiniteSet(Counting(s, t, p)) /\ Cardinality(Counting(s, t, p)) \in Nat /\ Unyielding(s, t, p) \in Int
<1>1. Counting(s, t, p) \subseteq 1..p-1
  BY DEF Counting
<1>2. IsFiniteSet(1..p-1)
  BY FS_Interval
<1>3. IsFiniteSet(Counting(s, t, p))
  BY <1>1, <1>2, FS_Subset
<1>4. Cardinality(Counting(s, t, p)) \in Nat
  BY <1>3, FS_CardinalityType
<1> QED
  BY <1>3, <1>4 DEF Unyielding

LEMMA CountingCcall ==
  ASSUME NEW s \in Seq(Activation), NEW g \in Activation, g.op = "ccall"
  PROVE  Unyielding(Append(s, g), g.th, Len(s) + 2) = Unyielding(s, g.th, Len(s) + 1) + g.n
<1> DEFINE u == Append(s, g)
           n == Len(s)
           t == g.th
<1>1. /\ u \in Seq(Activation) /\ u[n+1] = g /\ n \in Nat
      /\ \A i \in 1..n : u[i] = s[i]
  BY AppendFacts
<1>2. t \in Threads /\ g.n \in {0, 1} /\ \A r \in Threads : ~ResetsOf(g, r)
  BY ActivationFields DEF ResetsOf
<1>3. CASE g.n = 0
  <2>1. Unyielding(u, t, n + 2) = Unyielding(s, t, n + 1)
    BY <1>2, <1>3, CountingNext
  <2>2. Unyielding(s, t, n + 1) \in Int
    BY <1>1, <1>2, CountingFinite
  <2> QED
    BY <1>3, <2>1, <2>2
<1>4. CASE g.n = 1
  <2> DEFINE C == Counting(s, t, n + 1)
             D == Counting(u, t, n + 2)
  <2>1. Counting(u, t, n + 1) = C
    <3>1. n + 1 \in 1..Len(s)+1
      BY <1>1
    <3> QED
      BY <1>2, <3>1, CountingAppend
  <2> HIDE DEF u
  <2>2. \A i \in 1..n : (\A j \in i..n+1 : ~ResetsOf(u[j], t)) <=> (\A j \in i..n : ~ResetsOf(u[j], t))
    <3> TAKE i \in 1..n
    <3>1. \A j \in i..n+1 : j \in i..n \/ j = n + 1
      BY <1>1
    <3>2. \A j \in i..n : j \in i..n+1
      BY <1>1
    <3> QED
      BY <1>1, <1>2, <3>1, <3>2
  <2>3. \A i \in D : i \in Counting(u, t, n + 1) \/ i = n + 1
    BY <1>1, <2>2 DEF Counting
  <2>4. \A i \in Counting(u, t, n + 1) : i \in D
    BY <1>1, <2>2 DEF Counting
  <2>5. n + 1 \in D
    <3>1. \A j \in n+1..n+1 : ~ResetsOf(u[j], t)
      BY <1>1, <1>2
    <3> QED
      BY <1>1, <1>4, <3>1 DEF Counting
  <2>6. n + 1 \notin C
    BY <1>1 DEF Counting
  <2>8. IsFiniteSet(C) /\ Cardinality(C) \in Nat
    <3>1. n + 1 \in Nat
      BY <1>1
    <3> HIDE DEF n
    <3> QED
      BY <1>2, <3>1, CountingFinite
  <2> HIDE DEF C, D, n
  <2>7. D = C \cup {n + 1}
    BY <2>1, <2>3, <2>4, <2>5
  <2>9. Cardinality(D) = Cardinality(C) + 1
    BY <2>6, <2>7, <2>8, FS_AddElement
  <2> DEFINE x == Cardinality(C)
             b == IF t = Main THEN 1 ELSE 0
  <2>10. Unyielding(u, t, n + 2) = b + (x + 1) /\ Unyielding(s, t, n + 1) = b + x
    BY <2>9 DEF Unyielding, C, D
  <2>11. x \in Nat /\ b \in Nat
    BY <2>8
  <2> HIDE DEF x, b
  <2>12. Unyielding(u, t, n + 2) = Unyielding(s, t, n + 1) + 1
    BY <2>10, <2>11
  <2> QED
    BY <1>4, <2>12 DEF u, n
<1> QED
  BY <1>2, <1>3, <1>4

LEMMA HeldAppend ==
  ASSUME NEW mm, Core(mm), NEW nn, NEW g \in Activation,
         nn.cs = Append(mm.cs, g), Past(mm) = Len(mm.cs) + 1, g.op = "closethread" => nn.ret = "go",
         NEW t \in Threads
  PROVE  /\ \A i \in HeldBy(nn, t) : i \in HeldBy(mm, t) \/ (i = Len(mm.cs) + 1 /\ Holds(g) /\ g.th = t)
         /\ \A i \in HeldBy(mm, t) : i \in 1..Len(mm.cs)
         /\ Past(nn) = IF g.op = "closethread" THEN Len(mm.cs) + 1 ELSE Len(mm.cs) + 2
<1> DEFINE n == Len(mm.cs)
<1>1. /\ nn.cs \in Seq(Activation) /\ Len(nn.cs) = n + 1 /\ nn.cs[n+1] = g /\ n \in Nat /\ n >= 1
      /\ \A i \in 1..n : nn.cs[i] = mm.cs[i]
  BY CoreFacts, AppendFacts
<1>2. Last(nn.cs) = g
  BY <1>1 DEF Last
<1>3. Past(nn) = IF g.op = "closethread" THEN n + 1 ELSE n + 2
  BY <1>1, <1>2 DEF Past
<1>4. \A i \in 1..n : \A j \in i..n : j \in i..Past(nn)-1
  BY <1>1, <1>3
<1>5. \A i \in 1..n : Lives(nn, t, i) => Lives(mm, t, i)
  <2> TAKE i \in 1..n
  <2>1. \A j \in i..n : nn.cs[j] = mm.cs[j]
    BY <1>1
  <2>2. Past(mm) - 1 = n
    BY <1>1
  <2> QED
    BY <1>1, <1>4, <2>1, <2>2 DEF Lives
<1>6. \A i \in HeldBy(nn, t) : i \in HeldBy(mm, t) \/ (i = n + 1 /\ Holds(g) /\ g.th = t)
  <2> SUFFICES ASSUME NEW i \in HeldBy(nn, t) PROVE i \in HeldBy(mm, t) \/ (i = n + 1 /\ Holds(g) /\ g.th = t)
    OBVIOUS
  <2>1. i \in 1..n+1 /\ Holds(nn.cs[i]) /\ Lives(nn, t, i)
    BY <1>1 DEF HeldBy
  <2>2. CASE i \in 1..n
    BY <1>1, <1>5, <2>1, <2>2 DEF HeldBy
  <2>3. CASE i = n + 1
    BY <1>1, <2>1, <2>3 DEF Lives
  <2> QED
    BY <1>1, <2>1, <2>2, <2>3
<1> QED
  BY <1>3, <1>6 DEF HeldBy

LEMMA CountingAbsent ==
  ASSUME NEW s \in Seq(Activation), NEW p \in 1..Len(s)+1, NEW t \in Threads, t # Main,
         \A i \in 1..p-1 : s[i].th # t
  PROVE  Unyielding(s, t, p) = 0
<1>1. Counting(s, t, p) = {}
  BY DEF Counting
<1>2. Cardinality(Counting(s, t, p)) = 0
  BY <1>1, FS_EmptySet
<1> QED
  BY <1>2 DEF Unyielding

(* The thread of the activation that is called, and what has called it.    *)
LEMMA JoinFacts ==
  ASSUME NEW s \in Seq(Activation), Stacked(s), NEW g \in Activation, Joins(s, g)
  PROVE  /\ g.th = Called(s[Len(s)]) /\ g.op # "host"
         /\ ~Waits(s[Len(s)]) => Present(s, g.th)
         /\ Waits(g) => ~Waits(s[Len(s)])
         /\ \A t \in Threads : Present(Append(s, g), t) <=> Present(s, t) \/ t = g.th
<1> DEFINE n == Len(s)
           u == Append(s, g)
<1>1. n \in Nat /\ n >= 1 /\ \A i \in 1..n : s[i] \in Activation
  BY DEF Stacked, Hosted
<1>2. /\ u \in Seq(Activation) /\ Len(u) = n + 1 /\ u[n+1] = g
      /\ \A i \in 1..n : u[i] = s[i]
  BY AppendFacts
<1>3. MayCall(s[n], g)
  BY DEF Joins
<1>4. g.th = Called(s[n]) /\ g.op # "host"
  BY <1>3 DEF MayCall
<1>5. ~Waits(s[n]) => Present(s, g.th)
  BY <1>1, <1>4 DEF Present, Called
<1>6. Waits(g) => ~Waits(s[n])
  BY <1>3 DEF MayCall, Waits
<1>7. \A t \in Threads : Present(u, t) <=> Present(s, t) \/ t = g.th
  <2> TAKE t \in Threads
  <2>1. ASSUME Present(u, t) PROVE Present(s, t) \/ t = g.th
    <3>1. PICK i \in 1..n+1 : u[i].th = t
      BY <1>2, <2>1 DEF Present
    <3>2. i = n + 1 \/ i \in 1..n
      BY <1>1
    <3> QED
      BY <1>2, <3>1, <3>2 DEF Present
  <2>2. ASSUME Present(s, t) PROVE Present(u, t)
    <3>1. PICK i \in 1..n : s[i].th = t
      BY <2>2 DEF Present
    <3>2. i \in 1..n+1 /\ u[i].th = t
      BY <1>1, <1>2, <3>1
    <3> QED
      BY <1>2, <3>2 DEF Present
  <2>3. ASSUME t = g.th PROVE Present(u, t)
    <3>1. n + 1 \in 1..n+1
      BY <1>1
    <3> QED
      BY <1>2, <2>3, <3>1 DEF Present
  <2> QED
    BY <2>1, <2>2, <2>3
<1> QED
  BY <1>4, <1>5, <1>6, <1>7

(* What a call of g does to the threads.                                   *)
CallsOn(mm, nn, g) ==
  /\ nn \in MachineType /\ nn.cs = Append(mm.cs, g) /\ nn.ret = "go"
  /\ \A t \in Threads : SameCalls(mm.L[t].ci, nn.L[t].ci)
  /\ \A t \in Threads : t # g.th \/ g.op # "try" => nn.L[t].errorJmp = mm.L[t].errorJmp
  /\ g.op = "try" => nn.L[g.th].errorJmp = Append(mm.L[g.th].errorJmp, Len(mm.cs) + 1)
  /\ \A t \in Threads : t # g.th \/ g.op # "ccall" => nn.L[t].nny = mm.L[t].nny
  /\ g.op = "ccall" => nn.L[g.th].nny = mm.L[g.th].nny + g.n
(* What it needs.                                                          *)
MayJoin(mm, g) ==
  /\ Joins(mm.cs, g)
  /\ ~Present(mm.cs, g.th) => g.th # Main /\ mm.L[g.th].nny = 0
  /\ Holds(g) => g.ci = Len(mm.L[g.th].ci)
  /\ Owns(g) => /\ Len(mm.L[g.th].ci) >= 2
                /\ \A i \in HeldBy(mm, g.th) : \E k \in mm.cs[i].ci+1..Len(mm.L[g.th].ci) : Afresh(mm.L[g.th].ci[k])
  /\ Crosses(g) => Len(mm.L[g.th].ci) >= 2
  /\ mm.cs[Len(mm.cs)].op = "closethread" => g.ci = 1

LEMMA CallJumps ==
  ASSUME NEW mm, Core(mm), Past(mm) = Len(mm.cs) + 1, NEW nn, NEW g \in Activation, MayJoin(mm, g), CallsOn(mm, nn, g)
  PROVE  Jumps(nn)
<1> DEFINE n == Len(mm.cs)
<1>1. /\ mm \in MachineType /\ nn.cs \in Seq(Activation) /\ Len(nn.cs) = n + 1 /\ nn.cs[n+1] = g /\ n \in Nat /\ n >= 1
      /\ \A i \in 1..n : nn.cs[i] = mm.cs[i]
  BY CoreFacts, AppendFacts DEF CallsOn
<1> SUFFICES ASSUME NEW t \in Threads
             PROVE  JumpsOf(nn.cs, t, nn.L[t].errorJmp)
  BY DEF Jumps
<1> DEFINE old == mm.L[t].errorJmp
           new == nn.L[t].errorJmp
<1>2. JumpsOf(mm.cs, t, old) /\ old \in Seq(Nat)
  BY <1>1, MachineFields DEF Core, Jumps
<1>3. \A p \in 1..n : IsTry(nn.cs, t, p) <=> IsTry(mm.cs, t, p)
  BY <1>1 DEF IsTry
<1>4. \A j \in 1..Len(old) : old[j] \in 1..n
  BY <1>2 DEF JumpsOf, IsTry
<1>5. CASE g.op = "try" /\ t = g.th
  <2>1. /\ new = Append(old, n + 1) /\ Len(new) = Len(old) + 1 /\ new[Len(old) + 1] = n + 1
        /\ \A j \in 1..Len(old) : new[j] = old[j]
    <3>1. new = Append(old, n + 1)
      BY <1>5 DEF CallsOn
    <3>2. old \in Seq(Nat) /\ n + 1 \in Nat
      BY <1>1, <1>2
    <3> HIDE DEF new, old, n
    <3> QED
      BY <3>1, <3>2, AppendFacts
  <2>2. Len(old) \in Nat
    BY <1>2
  <2>3. IsTry(nn.cs, t, n + 1)
    BY <1>1, <1>5 DEF IsTry
  <2> HIDE DEF old, new, n
  <2>4. \A j, k \in 1..Len(new) : j < k => new[j] < new[k]
    <3> SUFFICES ASSUME NEW j \in 1..Len(new), NEW k \in 1..Len(new), j < k PROVE new[j] < new[k]
      OBVIOUS
    <3>1. j \in 1..Len(old) /\ new[j] = old[j] /\ old[j] \in 1..n
      BY <1>4, <2>1, <2>2
    <3>2. CASE k = Len(old) + 1
      BY <1>1, <2>1, <3>1, <3>2
    <3>3. CASE k \in 1..Len(old)
      BY <1>2, <2>1, <3>1, <3>3 DEF JumpsOf
    <3> QED
      BY <2>1, <2>2, <3>2, <3>3
  <2>5. \A j \in 1..Len(new) : IsTry(nn.cs, t, new[j])
    <3> TAKE j \in 1..Len(new)
    <3>1. CASE j \in 1..Len(old)
      <4>1. new[j] = old[j] /\ old[j] \in 1..n /\ IsTry(mm.cs, t, old[j])
        BY <1>2, <1>4, <2>1, <3>1 DEF JumpsOf
      <4> QED
        BY <1>3, <4>1
    <3>2. CASE j = Len(old) + 1
      BY <2>1, <2>3, <3>2
    <3> QED
      BY <2>1, <2>2, <3>1, <3>2
  <2>6. \A p \in 1..Len(nn.cs) : IsTry(nn.cs, t, p) => \E j \in 1..Len(new) : new[j] = p
    <3> SUFFICES ASSUME NEW p \in 1..Len(nn.cs), IsTry(nn.cs, t, p) PROVE \E j \in 1..Len(new) : new[j] = p
      OBVIOUS
    <3>1. CASE p = n + 1
      <4>1. Len(old) + 1 \in 1..Len(new)
        BY <2>1, <2>2
      <4> QED
        BY <2>1, <3>1, <4>1
    <3>2. CASE p \in 1..n
      <4>1. PICK j \in 1..Len(old) : old[j] = p
        BY <1>1, <1>2, <1>3, <3>2 DEF JumpsOf, n
      <4>2. j \in 1..Len(new)
        BY <2>1, <2>2
      <4> QED
        BY <2>1, <4>1, <4>2
    <3> QED
      BY <1>1, <3>1, <3>2
  <2> QED
    BY <2>4, <2>5, <2>6 DEF JumpsOf, new
<1>6. CASE ~(g.op = "try" /\ t = g.th)
  <2>1. new = old
    BY <1>6 DEF CallsOn
  <2>2. ~IsTry(nn.cs, t, n + 1)
    BY <1>1, <1>6 DEF IsTry
  <2>3. \A p \in 1..Len(nn.cs) : p \in 1..n \/ p = n + 1
    BY <1>1
  <2> HIDE DEF old, new
  <2>4. \A j \in 1..Len(new) : IsTry(nn.cs, t, new[j])
    BY <1>2, <1>3, <1>4, <2>1 DEF JumpsOf
  <2>5. \A p \in 1..Len(nn.cs) : IsTry(nn.cs, t, p) => \E j \in 1..Len(new) : new[j] = p
    BY <1>2, <1>3, <2>1, <2>2, <2>3 DEF JumpsOf
  <2> QED
    BY <1>2, <2>1, <2>4, <2>5 DEF JumpsOf, new
<1> QED
  BY <1>5, <1>6

LEMMA CallCounts ==
  ASSUME NEW mm, Core(mm), Past(mm) = Len(mm.cs) + 1, NEW nn, NEW g \in Activation, MayJoin(mm, g), CallsOn(mm, nn, g)
  PROVE  Counts(nn)
<1> DEFINE n == Len(mm.cs)
           s == mm.cs
<1>1. /\ mm \in MachineType /\ nn.cs = Append(s, g) /\ s \in Seq(Activation) /\ n \in Nat /\ n >= 1
      /\ \A i \in 1..n : s[i] \in Activation
      /\ Stacked(s) /\ Joins(s, g)
  BY CoreFacts DEF CallsOn, MayJoin
<1>2. Past(nn) = IF g.op = "closethread" THEN n + 1 ELSE n + 2
  <2>1. Main \in Threads
    BY DEF Threads
  <2>2. nn.cs = Append(mm.cs, g) /\ nn.ret = "go"
    BY DEF CallsOn
  <2> QED
    BY <2>1, <2>2, HeldAppend
<1> SUFFICES ASSUME NEW t \in Threads, Present(nn.cs, t)
             PROVE  nn.L[t].nny = Unyielding(nn.cs, t, Past(nn))
  BY DEF Counts
<1>3. mm.L[t].nny = Unyielding(s, t, n + 1)
  <2>1. CASE Present(s, t)
    BY <2>1 DEF Core, Counts
  <2>2. CASE ~Present(s, t)
    <3>1. t = g.th
      BY <1>1, <2>2, JoinFacts
    <3>2. t # Main /\ mm.L[t].nny = 0
      BY <2>2, <3>1 DEF MayJoin
    <3>3. \A i \in 1..(n+1)-1 : s[i].th # t
      BY <1>1, <2>2 DEF Present
    <3>4. n + 1 \in 1..Len(s)+1
      BY <1>1
    <3>5. Unyielding(s, t, n + 1) = 0
      BY <1>1, <3>2, <3>3, <3>4, CountingAbsent
    <3> QED
      BY <3>2, <3>5
  <2> QED
    BY <2>1, <2>2
<1>4. CASE g.op = "closethread"
  <2>1. n + 1 \in 1..Len(s)+1
    BY <1>1
  <2>2. Unyielding(Append(s, g), t, n + 1) = Unyielding(s, t, n + 1)
    BY <1>1, <2>1, CountingAppend
  <2> QED
    BY <1>1, <1>2, <1>3, <1>4, <2>2 DEF CallsOn
<1>5. CASE g.op = "ccall" /\ t = g.th
  <2>1. nn.L[t].nny = mm.L[t].nny + g.n
    BY <1>5 DEF CallsOn
  <2>2. Unyielding(Append(s, g), t, n + 2) = Unyielding(s, t, n + 1) + g.n
    BY <1>1, <1>5, CountingCcall
  <2> QED
    BY <1>1, <1>2, <1>3, <1>5, <2>1, <2>2
<1>6. CASE g.op # "closethread" /\ ~(g.op = "ccall" /\ t = g.th)
  <2>1. nn.L[t].nny = mm.L[t].nny
    BY <1>6 DEF CallsOn
  <2>2. ~ResetsOf(g, t) /\ ~(g.op = "ccall" /\ g.th = t /\ g.n = 1)
    BY <1>6 DEF ResetsOf
  <2>3. Unyielding(Append(s, g), t, n + 2) = Unyielding(s, t, n + 1)
    BY <1>1, <2>2, CountingNext
  <2> QED
    BY <1>1, <1>2, <1>3, <1>6, <2>1, <2>3
<1> QED
  BY <1>4, <1>5, <1>6

LEMMA CallDepth ==
  ASSUME NEW mm, Core(mm), Past(mm) = Len(mm.cs) + 1, NEW nn, NEW g \in Activation, MayJoin(mm, g), CallsOn(mm, nn, g)
  PROVE  Depth(nn) /\ Apart(nn)
<1> DEFINE n == Len(mm.cs)
           s == mm.cs
<1>1. /\ mm \in MachineType /\ nn.cs = Append(s, g) /\ nn.ret = "go" /\ s \in Seq(Activation) /\ n \in Nat /\ n >= 1
      /\ \A i \in 1..n : s[i] \in Activation /\ nn.cs[i] = s[i]
      /\ nn.cs[n+1] = g /\ Len(nn.cs) = n + 1 /\ nn.cs \in Seq(Activation)
      /\ Stacked(s) /\ Joins(s, g) /\ Last(s) = s[n] /\ nn \in MachineType
  BY CoreFacts, AppendFacts DEF CallsOn, MayJoin
<1>2. /\ g.th \in Threads /\ Called(g) \in Threads
      /\ ~Waits(g) => Called(g) = g.th
      /\ g.op = "closethread" /\ ~Crosses(g) => Called(g) = g.th
  BY ActivationFields DEF Called, Crosses, Waits
<1>3. ASSUME NEW t \in Threads
      PROVE  DepthOf(nn, t, nn.L[t].ci)
  <2> DEFINE cis == mm.L[t].ci
             dis == nn.L[t].ci
  <2>1. cis \in Seq(CallInfo) /\ dis \in Seq(CallInfo)
    BY <1>1, <1>3, MachineFields
  <2>2. DepthOf(mm, t, cis)
    BY <1>3 DEF Core, Depth
  <2>3. Len(dis) = Len(cis) /\ (\A k \in 1..Len(cis) : Afresh(dis[k]) <=> Afresh(cis[k])) /\ Len(cis) \in Nat
    BY <1>3, <2>1 DEF CallsOn, SameCalls
  <2>4. /\ \A i \in HeldBy(nn, t) : i \in HeldBy(mm, t) \/ (i = n + 1 /\ Holds(g) /\ g.th = t)
        /\ \A i \in HeldBy(mm, t) : i \in 1..n
    BY <1>1, <1>3, HeldAppend
  <2>5. \A i \in HeldBy(mm, t) : nn.cs[i] = s[i] /\ s[i].ci \in (IF Owns(s[i]) THEN 2 ELSE 1)..Len(cis)
    BY <1>1, <2>2, <2>4 DEF DepthOf
  <2>6. ASSUME Holds(g), g.th = t
        PROVE  /\ g.ci = Len(cis)
               /\ Owns(g) => Len(cis) >= 2 /\ \A i \in HeldBy(mm, t) : \E k \in s[i].ci+1..Len(cis) : Afresh(cis[k])
    BY <2>6 DEF MayJoin
  <2>7. Len(cis) >= 1 /\ (Len(cis) >= 2 => Afresh(cis[2]))
    BY <2>2 DEF DepthOf
  <2> HIDE DEF cis, dis
  <2>8. Len(dis) >= 1 /\ (Len(dis) >= 2 => Afresh(dis[2]))
    BY <2>3, <2>7
  <2>9. \A i \in HeldBy(nn, t) : nn.cs[i].ci \in (IF Owns(nn.cs[i]) THEN 2 ELSE 1)..Len(dis)
    <3> TAKE i \in HeldBy(nn, t)
    <3>1. CASE i \in HeldBy(mm, t)
      BY <2>3, <2>5, <3>1
    <3>2. CASE i = n + 1 /\ Holds(g) /\ g.th = t
      BY <1>1, <2>3, <2>6, <2>7, <3>2
    <3> QED
      BY <2>4, <3>1, <3>2
  <2>10. ASSUME NEW i \in HeldBy(nn, t), NEW j \in HeldBy(nn, t), i < j
         PROVE  /\ nn.cs[i].ci <= nn.cs[j].ci
                /\ Owns(nn.cs[j]) => \E k \in nn.cs[i].ci+1..nn.cs[j].ci : Afresh(dis[k])
    <3>1. i \in HeldBy(mm, t)
      <4>1. j \in 1..n \/ j = n + 1
        BY <2>4, <2>10
      <4> QED
        BY <1>1, <2>4, <2>10, <4>1
    <3>2. CASE j \in HeldBy(mm, t)
      <4>1. /\ s[i].ci <= s[j].ci
            /\ Owns(s[j]) => \E k \in s[i].ci+1..s[j].ci : Afresh(cis[k])
        BY <2>2, <2>10, <3>1, <3>2 DEF DepthOf
      <4>2. nn.cs[i] = s[i] /\ nn.cs[j] = s[j]
        BY <2>5, <3>1, <3>2
      <4>3. s[i].ci \in 1..Len(cis) /\ s[j].ci \in 1..Len(cis)
        BY <2>3, <2>5, <3>1, <3>2
      <4>4. ASSUME Owns(s[j]) PROVE \E k \in s[i].ci+1..s[j].ci : Afresh(dis[k])
        <5>1. PICK k \in s[i].ci+1..s[j].ci : Afresh(cis[k])
          BY <4>1, <4>4
        <5>2. k \in 1..Len(cis)
          BY <2>3, <4>3
        <5> QED
          BY <2>3, <5>1, <5>2
      <4> QED
        BY <4>1, <4>2, <4>4
    <3>3. CASE j = n + 1 /\ Holds(g) /\ g.th = t
      <4>1. nn.cs[j] = g
        BY <1>1, <3>3
      <4>2. nn.cs[i] = s[i] /\ s[i].ci \in 1..Len(cis)
        BY <2>3, <2>5, <3>1
      <4>3. g.ci = Len(cis)
        BY <2>6, <3>3
      <4>4. ASSUME Owns(g) PROVE \E k \in s[i].ci+1..g.ci : Afresh(dis[k])
        <5>1. PICK k \in s[i].ci+1..Len(cis) : Afresh(cis[k])
          BY <2>6, <3>1, <3>3, <4>4
        <5>2. k \in 1..Len(cis)
          BY <2>3, <4>2
        <5> QED
          BY <2>3, <4>3, <5>1, <5>2
      <4> QED
        BY <2>3, <4>1, <4>2, <4>3, <4>4
    <3> QED
      BY <2>4, <3>2, <3>3
  <2> QED
    BY <2>8, <2>9, <2>10 DEF DepthOf, dis
<1>4. ASSUME NEW t \in Threads, Present(nn.cs, t), t # Called(g)
      PROVE  Len(nn.L[t].ci) >= 2
  <2>1. Len(nn.L[t].ci) = Len(mm.L[t].ci)
    BY <1>4 DEF CallsOn, SameCalls
  <2>2. CASE t = g.th
    <3>1. Crosses(g)
      BY <1>2, <1>4, <2>2 DEF Crosses, Waits
    <3> QED
      BY <2>1, <2>2, <3>1 DEF MayJoin
  <2>3. CASE t # g.th
    <3>1. Present(s, t) /\ t # Called(Last(s))
      BY <1>1, <1>4, <2>3, JoinFacts
    <3> QED
      BY <2>1, <3>1 DEF Core, Apart
  <2> QED
    BY <2>2, <2>3
<1>5. Last(nn.cs) = g
  BY <1>1 DEF Last
<1> QED
  BY <1>3, <1>4, <1>5 DEF Depth, Apart

(* An activation is called: the stack of C and the threads stay in step.   *)
LEMMA CallCore ==
  ASSUME NEW mm, Core(mm), Past(mm) = Len(mm.cs) + 1, NEW nn, NEW g \in Activation, MayJoin(mm, g), CallsOn(mm, nn, g)
  PROVE  Core(nn)
<1>1. nn \in MachineType /\ nn.cs = Append(mm.cs, g)
  BY DEF CallsOn
<1>2. Stacked(nn.cs)
  BY <1>1, CoreFacts, StackedAppend DEF MayJoin
<1>3. Based(nn.cs)
  <2> DEFINE n == Len(mm.cs)
  <2>1. /\ Len(nn.cs) = n + 1 /\ nn.cs[n+1] = g /\ n \in Nat
        /\ \A i \in 1..n : nn.cs[i] = mm.cs[i]
    BY <1>1, CoreFacts, AppendFacts
  <2> SUFFICES ASSUME NEW i \in 1..n, nn.cs[i].op = "closethread" PROVE nn.cs[i+1].ci = 1
    BY <2>1 DEF Based
  <2>2. CASE i = n
    BY <2>1, <2>2 DEF MayJoin
  <2>3. CASE i \in 1..n-1
    <3>1. i + 1 \in 1..n
      BY <2>1, <2>3
    <3> QED
      BY <2>1, <2>3, <3>1 DEF Core, Based
  <2> QED
    BY <2>1, <2>2, <2>3
<1> QED
  BY <1>1, <1>2, <1>3, CallJumps, CallCounts, CallDepth DEF Core

----------------------------------------------------------------------------
(* The stack of C is cut: an activation returns, or longjmp.               *)

LEMMA DepthKept ==
  ASSUME NEW mm, Core(mm), NEW nn, NEW t \in Threads, NEW dis \in Seq(CallInfo),
         \A i \in HeldBy(nn, t) : i \in HeldBy(mm, t) /\ nn.cs[i] = mm.cs[i] /\ mm.cs[i].ci <= Len(dis),
         Len(dis) >= 1, Len(dis) >= 2 => Afresh(dis[2]),
         \A k \in 1..Len(dis) : k <= Len(mm.L[t].ci) => (Afresh(dis[k]) <=> Afresh(mm.L[t].ci[k]))
  PROVE  DepthOf(nn, t, dis)
<1> DEFINE cis == mm.L[t].ci
<1>1. DepthOf(mm, t, cis) /\ cis \in Seq(CallInfo) /\ Len(cis) \in Nat /\ Len(dis) \in Nat
  BY MachineFields DEF Core, Depth
<1> HIDE DEF cis
<1>2. ASSUME NEW i \in HeldBy(nn, t)
      PROVE  nn.cs[i].ci \in (IF Owns(nn.cs[i]) THEN 2 ELSE 1)..Len(dis)
  <2>1. mm.cs[i].ci \in (IF Owns(mm.cs[i]) THEN 2 ELSE 1)..Len(cis)
    BY <1>1 DEF DepthOf
  <2> QED
    BY <1>1, <2>1
<1>3. ASSUME NEW i \in HeldBy(nn, t), NEW j \in HeldBy(nn, t), i < j
      PROVE  /\ nn.cs[i].ci <= nn.cs[j].ci
             /\ Owns(nn.cs[j]) => \E k \in nn.cs[i].ci+1..nn.cs[j].ci : Afresh(dis[k])
  <2>1. /\ i \in HeldBy(mm, t) /\ j \in HeldBy(mm, t) /\ nn.cs[i] = mm.cs[i] /\ nn.cs[j] = mm.cs[j]
        /\ mm.cs[j].ci <= Len(dis)
    OBVIOUS
  <2>2. /\ mm.cs[i].ci <= mm.cs[j].ci
        /\ Owns(mm.cs[j]) => \E k \in mm.cs[i].ci+1..mm.cs[j].ci : Afresh(cis[k])
    BY <1>1, <1>3, <2>1 DEF DepthOf
  <2>3. mm.cs[i].ci \in 1..Len(cis) /\ mm.cs[j].ci \in 1..Len(cis)
    BY <1>1, <2>1 DEF DepthOf
  <2>4. ASSUME Owns(mm.cs[j]) PROVE \E k \in mm.cs[i].ci+1..mm.cs[j].ci : Afresh(dis[k])
    <3>1. PICK k \in mm.cs[i].ci+1..mm.cs[j].ci : Afresh(cis[k])
      BY <2>2, <2>4
    <3>2. k \in 1..Len(dis) /\ k <= Len(cis)
      BY <1>1, <2>1, <2>3
    <3> QED
      BY <3>1, <3>2 DEF cis
  <2> QED
    BY <2>1, <2>2, <2>4
<1> QED
  BY <1>2, <1>3 DEF DepthOf

LEMMA CutHeld ==
  ASSUME NEW mm, Core(mm), NEW nn, NEW q \in 1..Len(mm.cs), nn.cs = SubSeq(mm.cs, 1, q), Past(nn) = q + 1,
         NEW t \in Threads, \A j \in q+1..Past(mm)-1 : ~ResetsOf(mm.cs[j], t)
  PROVE  \A i \in HeldBy(nn, t) : i \in HeldBy(mm, t) /\ i \in 1..q /\ nn.cs[i] = mm.cs[i]
<1>1. /\ nn.cs \in Seq(Activation) /\ Len(nn.cs) = q /\ Len(mm.cs) \in Nat
      /\ \A i \in 1..q : nn.cs[i] = mm.cs[i]
  BY CoreFacts, CutFacts
<1>2. Past(mm) \in Nat
  BY CoreFacts
<1> SUFFICES ASSUME NEW i \in HeldBy(nn, t) PROVE i \in HeldBy(mm, t) /\ i \in 1..q /\ nn.cs[i] = mm.cs[i]
  OBVIOUS
<1>3. i \in 1..q /\ Holds(nn.cs[i]) /\ Lives(nn, t, i)
  BY <1>1 DEF HeldBy
<1>4. \A j \in i..q : j \in i..Past(nn)-1 /\ nn.cs[j] = mm.cs[j]
  BY <1>1, <1>3
<1>5. \A j \in i..q : ~ResetsOf(mm.cs[j], t)
  BY <1>3, <1>4 DEF Lives
<1>6. \A j \in i..Past(mm)-1 : j \in i..q \/ j \in q+1..Past(mm)-1
  BY <1>2, <1>3
<1>7. Lives(mm, t, i)
  BY <1>1, <1>3, <1>5, <1>6 DEF Lives
<1> QED
  BY <1>1, <1>3, <1>7 DEF HeldBy

LEMMA CutJumps ==
  ASSUME NEW s \in Seq(Activation), NEW q \in 1..Len(s), NEW t \in Threads, NEW old \in Seq(Nat), JumpsOf(s, t, old),
         NEW jmp \in Seq(Nat), Len(jmp) <= Len(old), \A i \in 1..Len(jmp) : jmp[i] = old[i] /\ old[i] <= q,
         \A i \in Len(jmp)+1..Len(old) : old[i] > q
  PROVE  JumpsOf(SubSeq(s, 1, q), t, jmp)
<1> DEFINE u == SubSeq(s, 1, q)
<1>1. u \in Seq(Activation) /\ Len(u) = q /\ Len(s) \in Nat /\ \A i \in 1..q : u[i] = s[i]
  BY CutFacts
<1> HIDE DEF u
<1>2. Len(jmp) \in Nat /\ Len(old) \in Nat /\ \A i \in 1..Len(jmp) : i \in 1..Len(old)
  OBVIOUS
<1>3. \A p \in 1..q : IsTry(u, t, p) <=> IsTry(s, t, p)
  BY <1>1 DEF IsTry
<1>4. \A j, k \in 1..Len(jmp) : j < k => jmp[j] < jmp[k]
  BY <1>2 DEF JumpsOf
<1>5. \A j \in 1..Len(jmp) : IsTry(u, t, jmp[j])
  <2> TAKE j \in 1..Len(jmp)
  <2>1. IsTry(s, t, old[j]) /\ jmp[j] = old[j] /\ old[j] <= q
    BY <1>2 DEF JumpsOf
  <2>2. old[j] \in 1..q
    BY <2>1 DEF IsTry
  <2> QED
    BY <1>3, <2>1, <2>2
<1>6. ASSUME NEW p \in 1..Len(u), IsTry(u, t, p)
      PROVE  \E j \in 1..Len(jmp) : jmp[j] = p
  <2>1. p \in 1..q /\ p \in 1..Len(s) /\ IsTry(s, t, p)
    BY <1>1, <1>3, <1>6
  <2>2. PICK j \in 1..Len(old) : old[j] = p
    BY <2>1 DEF JumpsOf
  <2>3. j \in 1..Len(jmp)
    BY <1>2, <2>1, <2>2
  <2> QED
    BY <2>2, <2>3
<1> QED
  BY <1>4, <1>5, <1>6 DEF JumpsOf, u

LEMMA CutCore ==
  ASSUME NEW mm, Core(mm), NEW nn \in MachineType, NEW q \in 1..Len(mm.cs), nn.cs = SubSeq(mm.cs, 1, q),
         Jumps(nn), Counts(nn), Depth(nn),
         \A t \in Threads : Present(nn.cs, t) /\ t # Called(mm.cs[q]) => Len(nn.L[t].ci) >= 2
  PROVE  Core(nn)
<1>1. /\ nn.cs \in Seq(Activation) /\ Len(nn.cs) = q /\ Len(mm.cs) \in Nat
      /\ \A i \in 1..q : nn.cs[i] = mm.cs[i]
  BY CoreFacts, CutFacts
<1>2. Last(nn.cs) = mm.cs[q]
  BY <1>1 DEF Last
<1>3. Stacked(nn.cs)
  BY CoreFacts, StackedCut
<1>4. Based(nn.cs)
  BY <1>1 DEF Core, Based
<1>5. Apart(nn)
  BY <1>2 DEF Apart
<1> QED
  BY <1>3, <1>4, <1>5 DEF Core

----------------------------------------------------------------------------
(* An activation returns.                                                  *)

(* What the return of the activation on top does to the threads: the       *)
(* CallInfo of a function that ends is taken away.                         *)
ReturnsFrom(mm, nn, g) ==
  /\ nn \in MachineType /\ nn.cs = Front(mm.cs) /\ nn.ret # "go"
  /\ \A t \in Threads : t # g.th \/ g.op # "try" => nn.L[t].errorJmp = mm.L[t].errorJmp
  /\ g.op = "try" => nn.L[g.th].errorJmp = Front(mm.L[g.th].errorJmp)
  /\ \A t \in Threads : t # g.th \/ g.op \notin {"ccall", "try"} => nn.L[t].nny = mm.L[t].nny
  /\ g.op = "ccall" => nn.L[g.th].nny = mm.L[g.th].nny - g.n
  /\ g.op = "try" => nn.L[g.th].nny = g.nny
  /\ \A t \in Threads : t # g.th \/ ~Owns(g) => SameCalls(mm.L[t].ci, nn.L[t].ci)
  /\ Owns(g) => /\ Len(nn.L[g.th].ci) = g.ci - 1
                /\ \A k \in 1..g.ci-1 : Afresh(nn.L[g.th].ci[k]) <=> Afresh(mm.L[g.th].ci[k])
MayReturn(mm, g) ==
  /\ g = Last(mm.cs) /\ g.op # "host"
  /\ Past(mm) = Len(mm.cs) + 1
  /\ g.op = "closethread" => Crosses(g)

(* The stack without its top.                                              *)
LEMMA ReturnStack ==
  ASSUME NEW mm, Core(mm), NEW g, MayReturn(mm, g), NEW nn, ReturnsFrom(mm, nn, g)
  PROVE  LET n == Len(mm.cs)
         IN /\ n \in Nat /\ n >= 2 /\ g \in Activation /\ g = mm.cs[n]
            /\ nn.cs = SubSeq(mm.cs, 1, n-1) /\ nn.cs \in Seq(Activation) /\ Len(nn.cs) = n-1
            /\ mm.cs \in Seq(Activation) /\ mm.cs = Append(nn.cs, g)
            /\ \A i \in 1..n-1 : nn.cs[i] = mm.cs[i] /\ mm.cs[i] \in Activation
            /\ Past(nn) = n
            /\ g.th = Called(mm.cs[n-1]) /\ MayCall(mm.cs[n-1], g)
<1> DEFINE n == Len(mm.cs)
<1>1. n \in Nat /\ n >= 1 /\ g \in Activation /\ g = mm.cs[n] /\ mm.cs \in Seq(Activation) /\ Stacked(mm.cs) /\ mm.cs # <<>>
  BY CoreFacts DEF MayReturn
<1>2. n >= 2
  BY <1>1 DEF MayReturn, Stacked, Hosted
<1>3. /\ nn.cs = SubSeq(mm.cs, 1, n-1) /\ nn.cs \in Seq(Activation) /\ Len(nn.cs) = n-1
      /\ \A i \in 1..n-1 : nn.cs[i] = mm.cs[i]
  BY <1>1, LastFacts DEF ReturnsFrom
<1>4. Past(nn) = n
  BY <1>1, <1>3 DEF Past, ReturnsFrom
<1>5. MayCall(mm.cs[n-1], g)
  <2>1. n-1 \in 1..n-1 /\ (n-1)+1 = n
    BY <1>1, <1>2
  <2> QED
    BY <1>1, <2>1 DEF Stacked, Linked
<1>6. mm.cs = Append(nn.cs, g)
  <2>1. Append(nn.cs, g) \in Seq(Activation) /\ Len(Append(nn.cs, g)) = n /\ Append(nn.cs, g)[n] = g
        /\ \A i \in 1..n-1 : Append(nn.cs, g)[i] = mm.cs[i]
    <3>1. Len(nn.cs) + 1 = n
      BY <1>1, <1>3
    <3> QED
      BY <1>1, <1>3, <3>1, AppendFacts
  <2>2. \A i \in 1..n : Append(nn.cs, g)[i] = mm.cs[i]
    <3> TAKE i \in 1..n
    <3>1. i \in 1..n-1 \/ i = n
      BY <1>1
    <3> QED
      BY <1>1, <2>1, <3>1
  <2> HIDE DEF n
  <2> QED
    BY <1>1, <2>1, <2>2, SeqEqual DEF n
<1>7. \A i \in 1..n-1 : mm.cs[i] \in Activation
  BY <1>1
<1> QED
  BY <1>1, <1>2, <1>3, <1>4, <1>5, <1>6, <1>7 DEF MayCall

LEMMA ReturnJumps ==
  ASSUME NEW mm, Core(mm), NEW g, MayReturn(mm, g), NEW nn, ReturnsFrom(mm, nn, g)
  PROVE  Jumps(nn)
<1> DEFINE n == Len(mm.cs)
           q == n - 1
<1>1. /\ n \in Nat /\ n >= 2 /\ g = mm.cs[n] /\ nn.cs = SubSeq(mm.cs, 1, q) /\ mm.cs \in Seq(Activation)
      /\ g \in Activation /\ q \in 1..n
  BY ReturnStack
<1> SUFFICES ASSUME NEW t \in Threads
             PROVE  JumpsOf(nn.cs, t, nn.L[t].errorJmp)
  BY DEF Jumps
<1> DEFINE old == mm.L[t].errorJmp
           new == nn.L[t].errorJmp
<1>2. JumpsOf(mm.cs, t, old) /\ old \in Seq(Nat) /\ Len(old) \in Nat /\ new \in Seq(Nat)
  BY MachineFields DEF Core, Jumps, ReturnsFrom
<1>3. \A i \in 1..Len(old) : old[i] \in 1..n /\ mm.cs[old[i]].op = "try" /\ mm.cs[old[i]].th = t
  BY <1>2 DEF JumpsOf, IsTry
<1> HIDE DEF n
<1>4. CASE g.op = "try" /\ t = g.th
  <2>1. PICK k \in 1..Len(old) : old[k] = n
    <3>1. IsTry(mm.cs, t, n) /\ n \in 1..n
      BY <1>1, <1>4 DEF IsTry, n
    <3> QED
      BY <1>2, <3>1 DEF JumpsOf, n
  <2>2. k = Len(old)
    <3>1. CASE k < Len(old)
      <4>1. k + 1 \in 1..Len(old) /\ k < k + 1
        BY <1>2, <3>1
      <4>2. old[k] < old[k+1]
        BY <1>2, <4>1 DEF JumpsOf
      <4> QED
        BY <1>1, <1>3, <2>1, <4>1, <4>2
    <3> QED
      BY <1>2, <3>1
  <2>3. old # <<>>
    BY <1>2, <2>1
  <2>4. /\ new = Front(old) /\ Len(new) = Len(old) - 1
        /\ \A i \in 1..Len(old)-1 : new[i] = old[i]
    <3>1. new = Front(old)
      BY <1>4 DEF ReturnsFrom
    <3> HIDE DEF old, new
    <3> QED
      BY <1>2, <2>3, <3>1, LastFacts
  <2>5. \A i \in 1..Len(old)-1 : old[i] <= q
    <3> TAKE i \in 1..Len(old)-1
    <3>2. i \in 1..Len(old) /\ Len(old) \in 1..Len(old) /\ i < Len(old)
      BY <1>2
    <3>3. \A a, b \in 1..Len(old) : a < b => old[a] < old[b]
      BY <1>2 DEF JumpsOf
    <3>4. old[i] \in Nat
      BY <1>1, <1>3, <3>2
    <3> HIDE DEF old
    <3>1. old[i] < old[Len(old)]
      BY <3>2, <3>3
    <3> QED
      BY <1>1, <2>1, <2>2, <3>1, <3>4
  <2>6. \A i \in Len(new)+1..Len(old) : old[i] > q
    <3> TAKE i \in Len(new)+1..Len(old)
    <3>1. i = Len(old)
      BY <1>2, <2>4
    <3> QED
      BY <1>1, <2>1, <2>2, <3>1
  <2>7. Len(new) <= Len(old) /\ \A i \in 1..Len(new) : new[i] = old[i] /\ old[i] <= q
    <3> HIDE DEF old, new
    <3>1. \A i \in 1..Len(new) : i \in 1..Len(old)-1
      BY <1>2, <2>4
    <3> QED
      BY <1>2, <2>4, <2>5, <3>1
  <2>8. q \in 1..Len(mm.cs)
    BY <1>1 DEF n
  <2> HIDE DEF old, q
  <2>9. JumpsOf(SubSeq(mm.cs, 1, q), t, new)
    <3> HIDE DEF new
    <3> QED
      BY <1>1, <1>2, <2>6, <2>7, <2>8, CutJumps
  <2> QED
    BY <1>1, <2>9
<1>5. CASE ~(g.op = "try" /\ t = g.th)
  <2>1. new = old
    BY <1>5 DEF ReturnsFrom
  <2>2. \A i \in 1..Len(old) : old[i] <= q
    <3> TAKE i \in 1..Len(old)
    <3>1. old[i] \in 1..n /\ old[i] # n
      BY <1>1, <1>3, <1>5
    <3> QED
      BY <1>1, <3>1
  <2>7. Len(new) <= Len(old) /\ \A i \in 1..Len(new) : new[i] = old[i] /\ old[i] <= q
    BY <1>2, <2>1, <2>2
  <2>8. q \in 1..Len(mm.cs) /\ \A i \in Len(new)+1..Len(old) : old[i] > q
    BY <1>1, <1>2, <2>1 DEF n
  <2> HIDE DEF old, q
  <2>9. JumpsOf(SubSeq(mm.cs, 1, q), t, new)
    <3> HIDE DEF new
    <3> QED
      BY <1>1, <1>2, <2>7, <2>8, CutJumps
  <2> QED
    BY <1>1, <2>9
<1> QED
  BY <1>4, <1>5

LEMMA ReturnCounts ==
  ASSUME NEW mm, Core(mm), NEW g, MayReturn(mm, g), NEW nn, ReturnsFrom(mm, nn, g)
  PROVE  Counts(nn)
<1> DEFINE n == Len(mm.cs)
           u == nn.cs
<1>1. /\ n \in Nat /\ n >= 2 /\ g = mm.cs[n] /\ u \in Seq(Activation) /\ Len(u) = n - 1 /\ mm.cs = Append(u, g)
      /\ g \in Activation /\ Past(nn) = n /\ Past(mm) = n + 1
      /\ \A i \in 1..n-1 : u[i] = mm.cs[i]
  BY ReturnStack DEF MayReturn
<1> SUFFICES ASSUME NEW t \in Threads, Present(u, t)
             PROVE  nn.L[t].nny = Unyielding(u, t, n)
  BY <1>1 DEF Counts
<1>2. PICK i \in 1..n-1 : u[i].th = t
  BY <1>1 DEF Present
<1>3. mm.L[t].nny = Unyielding(mm.cs, t, n + 1)
  <2>1. i \in 1..n /\ mm.cs[i].th = t
    BY <1>1, <1>2
  <2> QED
    BY <1>1, <2>1 DEF Core, Counts, Present
<1>4. ~ResetsOf(g, t)
  <2>1. ASSUME ResetsOf(g, t) PROVE FALSE
    <3>1. Crosses(g) /\ g.co = t
      BY <2>1 DEF ResetsOf, MayReturn
    <3>2. i \in 1..n /\ mm.cs[i].th = t /\ n \in 1..n
      BY <1>1, <1>2
    <3> QED
      BY <1>1, <3>1, <3>2, CoreFacts DEF Stacked, Crossed
  <2> QED
    BY <2>1
<1>5. Len(u) + 2 = n + 1 /\ Len(u) + 1 = n
  BY <1>1
<1> HIDE DEF u, n
<1>6. CASE g.op = "ccall" /\ t = g.th
  <2>1. Unyielding(mm.cs, t, n + 1) = Unyielding(u, t, n) + g.n
    BY <1>1, <1>5, <1>6, CountingCcall
  <2>2. nn.L[t].nny = mm.L[t].nny - g.n
    BY <1>6 DEF ReturnsFrom
  <2>3. Unyielding(u, t, n) \in Int
    BY <1>1, CountingFinite
  <2>4. g.n \in {0, 1}
    BY <1>1, <1>6, ActivationFields
  <2> QED
    BY <1>3, <2>1, <2>2, <2>3, <2>4
<1>7. CASE g.op = "try" /\ t = g.th
  <2>1. nn.L[t].nny = g.nny
    BY <1>7 DEF ReturnsFrom
  <2>2. g.nny = Unyielding(mm.cs, t, n)
    <3>1. n \in 1..n
      BY <1>1
    <3> QED
      BY <1>1, <1>7, <3>1, CoreFacts DEF Stacked, Saved, n
  <2>3. Unyielding(mm.cs, t, n) = Unyielding(u, t, n)
    <3>1. n \in 1..Len(u)+1
      BY <1>1, <1>5
    <3> QED
      BY <1>1, <3>1, CountingAppend
  <2> QED
    BY <2>1, <2>2, <2>3
<1>8. CASE ~(g.op \in {"ccall", "try"} /\ t = g.th)
  <2>1. nn.L[t].nny = mm.L[t].nny
    BY <1>8 DEF ReturnsFrom
  <2>2. Unyielding(mm.cs, t, n + 1) = Unyielding(u, t, n)
    BY <1>1, <1>4, <1>5, <1>8, CountingNext
  <2> QED
    BY <1>3, <2>1, <2>2
<1> QED
  BY <1>6, <1>7, <1>8

LEMMA ReturnDepth ==
  ASSUME NEW mm, Core(mm), NEW g, MayReturn(mm, g), NEW nn, ReturnsFrom(mm, nn, g)
  PROVE  Depth(nn)
<1> DEFINE n == Len(mm.cs)
           q == n - 1
<1>1. /\ n \in Nat /\ n >= 2 /\ g = mm.cs[n] /\ nn.cs = SubSeq(mm.cs, 1, q) /\ nn.cs \in Seq(Activation) /\ Len(nn.cs) = q
      /\ \A i \in 1..q : nn.cs[i] = mm.cs[i]
      /\ g \in Activation /\ Past(nn) = q + 1 /\ Past(mm) = n + 1 /\ q \in 1..n
  BY ReturnStack DEF MayReturn
<1> SUFFICES ASSUME NEW t \in Threads
             PROVE  DepthOf(nn, t, nn.L[t].ci)
  BY DEF Depth
<1> DEFINE cis == mm.L[t].ci
           dis == nn.L[t].ci
<1>2. DepthOf(mm, t, cis) /\ cis \in Seq(CallInfo) /\ dis \in Seq(CallInfo) /\ Len(cis) \in Nat /\ Len(dis) \in Nat
  BY MachineFields DEF Core, Depth, ReturnsFrom
<1>3. \A i \in HeldBy(nn, t) : i \in HeldBy(mm, t) /\ i \in 1..q /\ nn.cs[i] = mm.cs[i]
  <2>1. CASE ResetsOf(g, t)
    <3>1. Crosses(g) /\ g.co = t
      BY <2>1 DEF ResetsOf, MayReturn
    <3>2. \A i \in 1..q : mm.cs[i].th # t
      <4>1. n \in 1..n /\ \A i \in 1..q : i \in 1..n
        BY <1>1
      <4> QED
        BY <1>1, <3>1, <4>1, CoreFacts DEF Stacked, Crossed
    <3>3. HeldBy(nn, t) = {}
      BY <1>1, <3>2 DEF HeldBy, Lives
    <3> QED
      BY <3>3
  <2>2. CASE ~ResetsOf(g, t)
    <3>1. \A j \in q+1..Past(mm)-1 : ~ResetsOf(mm.cs[j], t)
      BY <1>1, <2>2
    <3>2. q \in 1..Len(mm.cs)
      BY <1>1
    <3> HIDE DEF q
    <3> QED
      BY <1>1, <3>1, <3>2, CutHeld
  <2> QED
    BY <2>1, <2>2
<1>4. \A i \in HeldBy(mm, t) : mm.cs[i].ci \in 1..Len(cis)
  BY <1>2 DEF DepthOf
<1>5. Len(cis) >= 1 /\ (Len(cis) >= 2 => Afresh(cis[2]))
  BY <1>2 DEF DepthOf
<1> HIDE DEF cis, dis, n, q
<1>6. CASE Owns(g) /\ t = g.th
  <2>1. /\ Len(dis) = g.ci - 1
        /\ \A k \in 1..g.ci-1 : Afresh(dis[k]) <=> Afresh(cis[k])
    BY <1>6 DEF ReturnsFrom, cis, dis
  <2>2. n \in HeldBy(mm, t)
    <3>1. ~ResetsOf(g, t)
      BY <1>6 DEF ResetsOf, Owns
    <3>2. \A j \in n..Past(mm)-1 : ~ResetsOf(mm.cs[j], t)
      BY <1>1, <3>1
    <3> QED
      BY <1>1, <1>6, <3>2 DEF HeldBy, Lives, Holds, n
  <2>3. g.ci \in 2..Len(cis)
    BY <1>1, <1>2, <1>6, <2>2 DEF DepthOf
  <2>4. Len(dis) >= 1
    BY <1>2, <2>1, <2>3
  <2>5. Len(dis) >= 2 => Afresh(dis[2])
    BY <1>2, <1>5, <2>1, <2>3
  <2>6. ASSUME NEW i \in HeldBy(nn, t) PROVE mm.cs[i].ci <= Len(dis)
    <3>1. i \in HeldBy(mm, t) /\ i < n
      BY <1>1, <1>3 DEF q
    <3>2. PICK k \in mm.cs[i].ci+1..g.ci : Afresh(cis[k])
      BY <1>1, <1>2, <1>6, <2>2, <3>1 DEF DepthOf
    <3>3. mm.cs[i].ci \in 1..Len(cis)
      BY <1>4, <3>1
    <3> QED
      BY <1>2, <2>1, <2>3, <3>2, <3>3
  <2>7. \A k \in 1..Len(dis) : k <= Len(cis) => (Afresh(dis[k]) <=> Afresh(cis[k]))
    BY <2>1
  <2>8. DepthOf(nn, t, dis)
    BY <1>2, <1>3, <2>4, <2>5, <2>6, <2>7, DepthKept DEF cis
  <2> QED
    BY <2>8 DEF dis
<1>7. CASE ~(Owns(g) /\ t = g.th)
  <2>1. Len(dis) = Len(cis) /\ \A k \in 1..Len(cis) : Afresh(dis[k]) <=> Afresh(cis[k])
    BY <1>7 DEF ReturnsFrom, cis, dis, SameCalls
  <2>2. Len(dis) >= 2 => Afresh(dis[2])
    BY <1>2, <1>5, <2>1
  <2>3. ASSUME NEW i \in HeldBy(nn, t) PROVE mm.cs[i].ci <= Len(dis)
    BY <1>2, <1>3, <1>4, <2>1
  <2>4. \A k \in 1..Len(dis) : k <= Len(cis) => (Afresh(dis[k]) <=> Afresh(cis[k]))
    BY <2>1
  <2>5. DepthOf(nn, t, dis)
    BY <1>2, <1>3, <1>5, <2>1, <2>2, <2>3, <2>4, DepthKept DEF cis
  <2> QED
    BY <2>5 DEF dis
<1> QED
  BY <1>6, <1>7

LEMMA ReturnCore ==
  ASSUME NEW mm, Core(mm), NEW g, MayReturn(mm, g), NEW nn, ReturnsFrom(mm, nn, g)
  PROVE  Core(nn) /\ \A t \in Threads : Present(nn.cs, t) => Present(mm.cs, t) /\ (Crosses(g) => t # g.co)
<1> DEFINE n == Len(mm.cs)
           q == n - 1
<1>1. /\ n \in Nat /\ n >= 2 /\ g = mm.cs[n] /\ nn.cs = SubSeq(mm.cs, 1, q) /\ nn.cs \in Seq(Activation) /\ Len(nn.cs) = q
      /\ \A i \in 1..q : nn.cs[i] = mm.cs[i]
      /\ g \in Activation /\ q \in 1..n /\ n \in 1..n /\ g.th = Called(mm.cs[q])
  BY ReturnStack
<1>2. ASSUME NEW t \in Threads, Present(nn.cs, t)
      PROVE  Present(mm.cs, t) /\ (Crosses(g) => t # g.co)
  <2>1. PICK i \in 1..q : mm.cs[i].th = t
    BY <1>1, <1>2 DEF Present
  <2>2. i \in 1..n
    BY <1>1
  <2> QED
    BY <1>1, <2>1, <2>2, CoreFacts DEF Present, Stacked, Crossed
<1>3. ASSUME NEW t \in Threads, Present(nn.cs, t), t # Called(mm.cs[q])
      PROVE  Len(nn.L[t].ci) >= 2
  <2>1. t # Called(g)
    <3>1. Waits(g) /\ ~Crosses(g) => g.op = "closethread"
      BY DEF Waits, Crosses
    <3>2. Waits(g) => Crosses(g)
      BY <3>1 DEF MayReturn
    <3> QED
      BY <1>1, <1>2, <1>3, <3>2 DEF Called
  <2>2. Len(mm.L[t].ci) >= 2
    BY <1>2, <1>3, <2>1, CoreFacts DEF Core, Apart, MayReturn
  <2> QED
    BY <1>1, <1>3, <2>2 DEF ReturnsFrom, SameCalls
<1>4. nn \in MachineType /\ q \in 1..Len(mm.cs)
  BY <1>1 DEF ReturnsFrom
<1>5. Core(nn)
  <2> HIDE DEF q
  <2> QED
    BY <1>1, <1>3, <1>4, ReturnJumps, ReturnCounts, ReturnDepth, CutCore
<1> QED
  BY <1>2, <1>5

----------------------------------------------------------------------------
(* longjmp.                                                                *)

(* What is above a setjmp of the thread at work is of this thread.         *)
LEMMA OnlyOne ==
  ASSUME NEW s \in Seq(Activation), Stacked(s), NEW h \in Threads, NEW p, IsTry(s, h, p), s[Len(s)].th = h
  PROVE  /\ p \in 2..Len(s) /\ p-1 \in 1..Len(s)
         /\ \A i \in p..Len(s) : s[i].th = h
         /\ MayCall(s[p-1], s[p])
         /\ s[p-1].op \in {"resumed", "pcall", "closep"} /\ Called(s[p-1]) = h
<1> DEFINE n == Len(s)
<1>1. n \in Nat /\ n >= 1 /\ p \in 1..n /\ s[p].op = "try" /\ s[p].th = h
  BY DEF Stacked, Hosted, IsTry
<1>2. p # 1
  BY <1>1 DEF Stacked, Hosted
<1>3. \A i \in p..n : s[i].th = h
  <2> TAKE i \in p..n
  <2>1. i \in 1..n /\ p <= i /\ i <= n /\ n \in 1..n
    BY <1>1
  <2> QED
    BY <1>1, <2>1 DEF Stacked, Convex
<1>4. MayCall(s[p-1], s[p])
  <2>1. p-1 \in 1..n-1 /\ (p-1)+1 = p
    BY <1>1, <1>2
  <2> QED
    BY <2>1 DEF Stacked, Linked
<1> QED
  BY <1>1, <1>2, <1>3, <1>4 DEF MayCall

(* Nothing is closed above the last setjmp.                                *)
LEMMA NothingClosing ==
  ASSUME NEW s \in Seq(Activation), Stacked(s), NEW h \in Threads, NEW p, IsTry(s, h, p), s[Len(s)].th = h,
         \A i \in p+1..Len(s) : ~IsTry(s, h, i), s[Len(s)].op \notin {"closethread", "closep"}
  PROVE  \A j \in p..Len(s) : s[j].op # "closethread"
<1> DEFINE n == Len(s)
<1>1. n \in Nat /\ p \in 2..n /\ \A i \in p..n : s[i].th = h
  BY OnlyOne
<1> SUFFICES ASSUME NEW j \in p..n, s[j].op = "closethread" PROVE FALSE
  OBVIOUS
<1>2. j < n
  BY <1>1
<1>3. s[j+1].op = "closep" /\ j+1 \in p+1..n
  <2>1. j \in 1..n-1
    BY <1>1, <1>2
  <2> QED
    BY <1>1, <2>1 DEF Stacked, Linked, MayCall
<1>4. j + 1 < n
  BY <1>1, <1>3
<1>5. s[(j+1)+1].op = "try" /\ (j+1)+1 \in p+1..n
  <2>1. j + 1 \in 1..n-1
    BY <1>1, <1>4
  <2> QED
    BY <1>1, <1>3, <2>1 DEF Stacked, Linked, MayCall
<1>6. (j+1)+1 \in 1..n /\ (j+1)+1 \in p..n
  BY <1>1, <1>5
<1> QED
  BY <1>1, <1>5, <1>6 DEF IsTry

ThrowsTo(mm, nn, h, p, j) ==
  /\ nn \in MachineType /\ nn.cs = SubSeq(mm.cs, 1, p - 1) /\ nn.ret # "go"
  /\ \A t \in Threads \ {h} : nn.L[t].errorJmp = mm.L[t].errorJmp /\ nn.L[t].nny = mm.L[t].nny
  /\ \A t \in Threads : SameCalls(mm.L[t].ci, nn.L[t].ci)
  /\ Len(nn.L[h].errorJmp) = j - 1 /\ \A i \in 1..j-1 : nn.L[h].errorJmp[i] = mm.L[h].errorJmp[i]
  /\ nn.L[h].nny = mm.cs[p].nny
MayThrow(mm, h, p, j) ==
  /\ h \in Threads /\ j \in 1..Len(mm.L[h].errorJmp) /\ p = mm.L[h].errorJmp[j]
  /\ Last(mm.cs).th = h /\ Called(Last(mm.cs)) = h /\ Past(mm) = Len(mm.cs) + 1

LEMMA ThrowStack ==
  ASSUME NEW mm, Core(mm), NEW h, NEW p, NEW j, MayThrow(mm, h, p, j), NEW nn, ThrowsTo(mm, nn, h, p, j)
  PROVE  LET n == Len(mm.cs)
         IN /\ n \in Nat /\ p \in 2..n /\ p-1 \in 1..n /\ mm.cs \in Seq(Activation) /\ mm.cs[n] = Last(mm.cs)
            /\ IsTry(mm.cs, h, p) /\ mm.cs[p].op = "try"
            /\ \A i \in p..n : mm.cs[i].th = h
            /\ mm.cs[p-1].op \in {"resumed", "pcall", "closep"} /\ Called(mm.cs[p-1]) = h
            /\ nn.cs \in Seq(Activation) /\ Len(nn.cs) = p-1 /\ \A i \in 1..p-1 : nn.cs[i] = mm.cs[i]
            /\ Last(nn.cs) = mm.cs[p-1] /\ nn.cs = SubSeq(mm.cs, 1, p-1)
            /\ Past(nn) = p /\ Past(mm) = n + 1
            /\ h \in Threads /\ j \in 1..Len(mm.L[h].errorJmp) /\ p = mm.L[h].errorJmp[j]
            /\ Called(mm.cs[n]) = h /\ Stacked(mm.cs) /\ nn \in MachineType
<1> DEFINE n == Len(mm.cs)
<1>1. /\ n \in Nat /\ mm.cs[n] = Last(mm.cs) /\ mm.cs \in Seq(Activation) /\ Stacked(mm.cs) /\ h \in Threads
  BY CoreFacts DEF MayThrow
<1>2. IsTry(mm.cs, h, p)
  <2>1. JumpsOf(mm.cs, h, mm.L[h].errorJmp)
    BY <1>1 DEF Core, Jumps
  <2>2. \A i \in 1..Len(mm.L[h].errorJmp) : IsTry(mm.cs, h, mm.L[h].errorJmp[i])
    BY <2>1, Zenon DEF JumpsOf
  <2>3. j \in 1..Len(mm.L[h].errorJmp) /\ p = mm.L[h].errorJmp[j]
    BY DEF MayThrow
  <2> QED
    BY <2>2, <2>3, Zenon
<1>3. /\ p \in 2..n /\ p-1 \in 1..n
      /\ \A i \in p..n : mm.cs[i].th = h
      /\ mm.cs[p-1].op \in {"resumed", "pcall", "closep"} /\ Called(mm.cs[p-1]) = h
  <2>1. mm.cs[n].th = h
    BY <1>1 DEF MayThrow
  <2> QED
    BY <1>1, <1>2, <2>1, OnlyOne
<1>4. nn.cs \in Seq(Activation) /\ Len(nn.cs) = p-1 /\ \A i \in 1..p-1 : nn.cs[i] = mm.cs[i]
  <2>1. p-1 \in 0..Len(mm.cs) /\ nn.cs = SubSeq(mm.cs, 1, p-1)
    BY <1>1, <1>3 DEF ThrowsTo
  <2> QED
    BY <1>1, <2>1, CutFacts
<1>5. Last(nn.cs) = mm.cs[p-1]
  <2>1. p-1 \in 1..p-1
    BY <1>1, <1>3
  <2>2. Last(nn.cs) = nn.cs[p-1]
    BY <1>4 DEF Last
  <2> QED
    BY <1>4, <2>1, <2>2
<1>6. Past(nn) = p
  <2>1. Last(nn.cs).op # "closethread"
    BY <1>3, <1>5
  <2>2. p-1+1 = p
    BY <1>1, <1>3
  <2> QED
    BY <1>4, <2>1, <2>2 DEF Past
<1>7. /\ nn.cs = SubSeq(mm.cs, 1, p-1) /\ nn \in MachineType /\ Past(mm) = n + 1
      /\ h \in Threads /\ j \in 1..Len(mm.L[h].errorJmp) /\ p = mm.L[h].errorJmp[j]
  BY DEF MayThrow, ThrowsTo
<1>8. Called(mm.cs[n]) = h
  BY <1>1 DEF MayThrow
<1>9. mm.cs[p].op = "try"
  BY <1>2 DEF IsTry
<1> QED
  BY <1>1, <1>2, <1>3, <1>4, <1>5, <1>6, <1>7, <1>8, <1>9

LEMMA CountingAbove ==
  ASSUME NEW s \in Seq(Activation), NEW p \in 1..Len(s)+1, NEW t \in Threads,
         \A i \in p..Len(s) : s[i].th # t /\ ~ResetsOf(s[i], t)
  PROVE  Unyielding(s, t, Len(s) + 1) = Unyielding(s, t, p)
<1> DEFINE n == Len(s)
<1>1. n \in Nat
  OBVIOUS
<1>2. \A i \in Counting(s, t, n + 1) : i \in Counting(s, t, p)
  <2> SUFFICES ASSUME NEW i \in Counting(s, t, n + 1) PROVE i \in Counting(s, t, p)
    OBVIOUS
  <2>1. i \in 1..n /\ s[i].op = "ccall" /\ s[i].th = t /\ s[i].n = 1 /\ \A j \in i..n : ~ResetsOf(s[j], t)
    BY <1>1 DEF Counting
  <2>2. i \in 1..p-1
    BY <1>1, <2>1
  <2>3. \A j \in i..p-1 : j \in i..n
    BY <1>1
  <2> QED
    BY <2>1, <2>2, <2>3 DEF Counting
<1>3. \A i \in Counting(s, t, p) : i \in Counting(s, t, n + 1)
  <2> SUFFICES ASSUME NEW i \in Counting(s, t, p) PROVE i \in Counting(s, t, n + 1)
    OBVIOUS
  <2>1. i \in 1..p-1 /\ s[i].op = "ccall" /\ s[i].th = t /\ s[i].n = 1 /\ \A j \in i..p-1 : ~ResetsOf(s[j], t)
    BY DEF Counting
  <2>2. i \in 1..n /\ n + 1 - 1 = n
    BY <1>1, <2>1
  <2>3. \A j \in i..n : j \in i..p-1 \/ j \in p..n
    BY <1>1
  <2> DEFINE r == n + 1
  <2>4. \A j \in i..r-1 : ~ResetsOf(s[j], t)
    BY <2>1, <2>2, <2>3
  <2>5. i \in 1..r-1
    BY <2>2
  <2> HIDE DEF n, r
  <2>6. i \in Counting(s, t, r)
    BY <2>1, <2>4, <2>5 DEF Counting
  <2> QED
    BY <2>6 DEF r
<1>4. Counting(s, t, n + 1) = Counting(s, t, p)
  <2>1. Counting(s, t, n + 1) \subseteq Counting(s, t, p) /\ Counting(s, t, p) \subseteq Counting(s, t, n + 1)
    BY <1>2, <1>3
  <2> QED
    BY <2>1
<1> QED
  BY <1>4 DEF Unyielding

LEMMA ThrowJumps ==
  ASSUME NEW mm, Core(mm), NEW h, NEW p, NEW j, MayThrow(mm, h, p, j), NEW nn, ThrowsTo(mm, nn, h, p, j)
  PROVE  Jumps(nn)
<1> DEFINE n == Len(mm.cs)
           q == p - 1
<1>1. /\ n \in Nat /\ p \in 2..n /\ q \in 1..n /\ mm.cs \in Seq(Activation) /\ nn.cs = SubSeq(mm.cs, 1, q)
      /\ \A i \in p..n : mm.cs[i].th = h
      /\ j \in 1..Len(mm.L[h].errorJmp) /\ p = mm.L[h].errorJmp[j]
  BY ThrowStack
<1> SUFFICES ASSUME NEW t \in Threads
             PROVE  JumpsOf(nn.cs, t, nn.L[t].errorJmp)
  BY DEF Jumps
<1> DEFINE old == mm.L[t].errorJmp
           new == nn.L[t].errorJmp
<1>2. JumpsOf(mm.cs, t, old) /\ old \in Seq(Nat) /\ Len(old) \in Nat /\ new \in Seq(Nat)
  BY MachineFields DEF Core, Jumps, ThrowsTo
<1>3. \A i \in 1..Len(old) : old[i] \in 1..n /\ mm.cs[old[i]].th = t
  BY <1>2 DEF JumpsOf, IsTry
<1>4. \A a, b \in 1..Len(old) : a < b => old[a] < old[b]
  BY <1>2 DEF JumpsOf
<1>5. CASE t = h
  <2>1. Len(new) = j - 1 /\ j \in 1..Len(old) /\ old[j] = p /\ \A i \in 1..j-1 : new[i] = old[i]
    BY <1>1, <1>5 DEF ThrowsTo
  <2> HIDE DEF old, new, n
  <2>2. \A i \in 1..Len(new) : new[i] = old[i] /\ old[i] <= q
    <3> TAKE i \in 1..Len(new)
    <3>1. i \in 1..Len(old) /\ i < j /\ i \in 1..j-1
      BY <1>2, <2>1
    <3>2. old[i] < p /\ old[i] \in 1..n /\ new[i] = old[i]
      BY <1>3, <1>4, <2>1, <3>1
    <3>3. \A x \in 1..n : x < p => x <= q
      BY <1>1
    <3> HIDE DEF q
    <3> QED
      BY <3>2, <3>3
  <2>3. \A i \in Len(new)+1..Len(old) : old[i] > q
    <3> TAKE i \in Len(new)+1..Len(old)
    <3>1. i \in 1..Len(old) /\ (i = j \/ j < i)
      BY <1>2, <2>1
    <3>2. old[i] >= p /\ old[i] \in 1..n
      BY <1>1, <1>3, <1>4, <2>1, <3>1
    <3>3. \A x \in 1..n : x >= p => x > q
      BY <1>1
    <3> HIDE DEF q
    <3> QED
      BY <3>2, <3>3
  <2>4. Len(new) <= Len(old) /\ q \in 1..Len(mm.cs)
    BY <1>1, <1>2, <2>1 DEF n
  <2> HIDE DEF q
  <2>5. JumpsOf(SubSeq(mm.cs, 1, q), t, new)
    BY <1>1, <1>2, <2>2, <2>3, <2>4, CutJumps
  <2> QED
    BY <1>1, <2>5 DEF new
<1>6. CASE t # h
  <2>1. new = old
    BY <1>6 DEF ThrowsTo
  <2>2. \A i \in 1..Len(old) : old[i] <= q
    <3> TAKE i \in 1..Len(old)
    <3>1. old[i] \in 1..n /\ mm.cs[old[i]].th = t
      BY <1>3
    <3>2. \A x \in 1..n : mm.cs[x].th = t => x <= q
      <4> TAKE x \in 1..n
      <4>1. x \in p..n \/ x <= q
        BY <1>1
      <4> QED
        BY <1>1, <1>6, <4>1
    <3> HIDE DEF q, old, n
    <3> QED
      BY <3>1, <3>2
  <2>3. Len(new) <= Len(old) /\ q \in 1..Len(mm.cs) /\ \A i \in Len(new)+1..Len(old) : old[i] > q
    BY <1>1, <1>2, <2>1
  <2> HIDE DEF old, q
  <2>4. \A i \in 1..Len(new) : new[i] = old[i] /\ old[i] <= q
    BY <2>1, <2>2
  <2>5. JumpsOf(SubSeq(mm.cs, 1, q), t, new)
    <3> HIDE DEF new
    <3> QED
      BY <1>1, <1>2, <2>3, <2>4, CutJumps
  <2> QED
    BY <1>1, <2>5
<1> QED
  BY <1>5, <1>6

(* longjmp leaves what is to be closed of no other thread.                 *)
LEMMA ThrowResets ==
  ASSUME NEW mm, Core(mm), NEW h, NEW p, NEW j, MayThrow(mm, h, p, j), NEW nn, ThrowsTo(mm, nn, h, p, j),
         NEW t \in Threads, t # h
  PROVE  \A i \in p..Len(mm.cs) : mm.cs[i].th # t /\ ~ResetsOf(mm.cs[i], t)
<1> DEFINE n == Len(mm.cs)
<1>1. /\ n \in Nat /\ p \in 2..n /\ mm.cs \in Seq(Activation)
      /\ \A i \in p..n : mm.cs[i].th = h
      /\ Called(mm.cs[n]) = h /\ Stacked(mm.cs)
  BY ThrowStack
<1> SUFFICES ASSUME NEW i \in p..n, ResetsOf(mm.cs[i], t) PROVE FALSE
  BY <1>1
<1>2. Called(mm.cs[i]) = t
  BY DEF ResetsOf, Called, Waits
<1>3. i \in 1..n-1
  BY <1>1, <1>2
<1>4. mm.cs[i+1].th = t
  BY <1>1, <1>2, <1>3 DEF Stacked, Linked, MayCall
<1>5. i+1 \in p..n
  BY <1>1, <1>3
<1> QED
  BY <1>1, <1>4, <1>5

LEMMA ThrowCounts ==
  ASSUME NEW mm, Core(mm), NEW h, NEW p, NEW j, MayThrow(mm, h, p, j), NEW nn, ThrowsTo(mm, nn, h, p, j)
  PROVE  Counts(nn)
<1> DEFINE n == Len(mm.cs)
           s == mm.cs
           q == p - 1
<1>1. /\ n \in Nat /\ p \in 2..n /\ s \in Seq(Activation) /\ nn.cs = SubSeq(s, 1, q) /\ Past(nn) = p /\ Past(mm) = n + 1
      /\ s[p].op = "try" /\ s[p].th = h /\ nn.cs \in Seq(Activation) /\ Len(nn.cs) = q
      /\ \A i \in 1..q : nn.cs[i] = s[i]
  BY ThrowStack DEF IsTry
<1> SUFFICES ASSUME NEW t \in Threads, Present(nn.cs, t)
             PROVE  nn.L[t].nny = Unyielding(nn.cs, t, p)
  BY <1>1 DEF Counts
<1>2. Unyielding(nn.cs, t, p) = Unyielding(s, t, p)
  <2>1. q \in 0..Len(s) /\ p \in 1..q+1
    BY <1>1
  <2> HIDE DEF q
  <2> QED
    BY <1>1, <2>1, CountingCut
<1>3. CASE t = h
  <2>1. p \in 1..n
    BY <1>1
  <2> QED
    BY <1>1, <1>2, <1>3, <2>1, CoreFacts DEF Stacked, Saved, ThrowsTo
<1>4. CASE t # h
  <2>1. PICK i \in 1..q : s[i].th = t
    BY <1>1 DEF Present
  <2>2. Present(s, t)
    <3>1. i \in 1..n
      BY <1>1
    <3> QED
      BY <2>1, <3>1 DEF Present
  <2>3. nn.L[t].nny = Unyielding(s, t, n + 1)
    BY <1>1, <1>4, <2>2 DEF Core, Counts, ThrowsTo
  <2>4. \A k \in p..n : s[k].th # t /\ ~ResetsOf(s[k], t)
    BY <1>4, ThrowResets
  <2>5. p \in 1..Len(s)+1
    BY <1>1
  <2>6. Unyielding(s, t, n + 1) = Unyielding(s, t, p)
    BY <1>1, <2>4, <2>5, CountingAbove
  <2> QED
    BY <1>2, <2>3, <2>6
<1> QED
  BY <1>3, <1>4

(* Below the first setjmp of a coroutine there is nothing of it, or but    *)
(* what closes it for another thread.                                      *)
LEMMA BelowBase ==
  ASSUME NEW s \in Seq(Activation), Stacked(s), NEW h \in Coroutines, NEW p, IsTry(s, h, p), s[Len(s)].th = h,
         \A i \in 1..p-1 : ~IsTry(s, h, i),
         NEW i \in 1..p-1, s[i].th = h
  PROVE  i = p-1 /\ p-1 >= 2 /\ s[p-1].op = "closep" /\ s[(p-1)-1].op = "closethread"
<1> DEFINE n == Len(s)
           q == p - 1
<1>1. /\ n \in Nat /\ p \in 2..n /\ q \in 1..n /\ s[q].op \in {"resumed", "pcall", "closep"} /\ Called(s[q]) = h
      /\ h \in Threads /\ h # Main
  BY OnlyOne, ThreadsAssumption DEF Threads
<1>2. s[q].th = h
  <2>1. i \in 1..n /\ p \in 1..n /\ i <= q /\ q <= p /\ s[p].th = h
    BY <1>1 DEF IsTry
  <2> QED
    BY <1>1, <2>1 DEF Stacked, Convex
<1>3. ASSUME NEW k \in 1..q, s[k].th = h
      PROVE  ~MayFail(s[k]) /\ s[k].op # "host"
  <2>1. k \in 1..n /\ s[k] \in Activation
    BY <1>1
  <2>2. s[k].op # "host"
    BY <1>1, <1>3, <2>1, ActivationFields
  <2>3. ASSUME MayFail(s[k]) PROVE FALSE
    <3>1. PICK l \in 1..k-1 : s[l].op = "try" /\ s[l].th = h
      BY <1>3, <2>1, <2>3 DEF Stacked, Caught
    <3>2. l \in 1..p-1 /\ l \in 1..n
      BY <1>1, <2>1
    <3> QED
      BY <3>1, <3>2 DEF IsTry
  <2> QED
    BY <2>2, <2>3
<1>4. ASSUME NEW k \in 2..q
      PROVE  MayCall(s[k-1], s[k]) /\ k-1 \in 1..q /\ k-1 \in 1..n
  <2>1. k-1 \in 1..n-1 /\ (k-1)+1 = k
    BY <1>1
  <2> QED
    BY <1>1, <2>1 DEF Stacked, Linked
<1>5. ASSUME NEW k \in 1..q, s[k].th = h, s[k].op = "pcall"
      PROVE  FALSE
  <2>1. k \in 2..q
    BY <1>1, <1>5 DEF Stacked, Hosted
  <2>2. s[k-1].op \in {"host", "cfunc", "poscall", "finishCcall"} /\ s[k].th = Called(s[k-1]) /\ k-1 \in 1..q
    BY <1>4, <1>5, <2>1 DEF MayCall
  <2>3. s[k-1].th = h
    BY <1>5, <2>2 DEF Called, Waits
  <2>4. ~MayFail(s[k-1]) /\ s[k-1].op # "host"
    BY <1>3, <2>2, <2>3
  <2> QED
    BY <2>2, <2>4 DEF MayFail
<1>6. s[q].op # "resumed"
  BY <1>1, <1>2, <1>3 DEF MayFail
<1>7. s[q].op = "closep"
  BY <1>1, <1>2, <1>5, <1>6
<1>8. q \in 2..q
  BY <1>1, <1>7 DEF Stacked, Hosted
<1>9. /\ s[q-1].op \in {"host", "pcall", "closethread"} /\ s[q].th = Called(s[q-1])
      /\ q-1 \in 1..q /\ q-1 \in 1..n
  BY <1>4, <1>7, <1>8 DEF MayCall
<1>10. s[q-1].op = "closethread"
  <2>1. ASSUME s[q-1].op # "closethread" PROVE FALSE
    <3>1. s[q-1].th = h
      BY <1>2, <1>9, <2>1 DEF Called, Waits
    <3> QED
      BY <1>3, <1>5, <1>9, <2>1, <3>1
  <2> QED
    BY <2>1
<1>11. s[q-1].co = h /\ s[q-1].th # h
  <2>1. s[q-1].co = h
    BY <1>2, <1>9, <1>10 DEF Called, Waits
  <2>2. MayFail(s[q-1])
    BY <1>10 DEF MayFail
  <2> QED
    BY <1>3, <1>9, <2>1, <2>2
<1>12. i = q
  <2>1. Crosses(s[q-1])
    BY <1>10, <1>11 DEF Crosses
  <2>2. \A k \in 1..q-1 : s[k].th # h
    BY <1>9, <1>11, <2>1 DEF Stacked, Crossed
  <2>3. i \in 1..q-1 \/ i = q
    BY <1>1
  <2> QED
    BY <2>2, <2>3
<1> QED
  BY <1>7, <1>8, <1>10, <1>12

(* What is cut of the thread is not closed by lua_closethread, or it is    *)
(* all of the coroutine.                                                   *)
MayLeave(mm, h, p, j) ==
  \/ \A i \in p..Len(mm.cs) : mm.cs[i].op # "closethread"
  \/ j = 1 /\ h \in Coroutines

LEMMA ThrowDepth ==
  ASSUME NEW mm, Core(mm), NEW h, NEW p, NEW j, MayThrow(mm, h, p, j), MayLeave(mm, h, p, j),
         NEW nn, ThrowsTo(mm, nn, h, p, j)
  PROVE  Depth(nn)
<1> DEFINE n == Len(mm.cs)
           q == p - 1
<1>1. /\ n \in Nat /\ p \in 2..n /\ q \in 1..n /\ nn.cs = SubSeq(mm.cs, 1, q) /\ nn.cs \in Seq(Activation) /\ Len(nn.cs) = q
      /\ mm.cs \in Seq(Activation) /\ Stacked(mm.cs)
      /\ \A i \in 1..q : nn.cs[i] = mm.cs[i]
      /\ q + 1 = p /\ Past(nn) = q + 1 /\ Past(mm) = n + 1
      /\ IsTry(mm.cs, h, p) /\ mm.cs[n].th = h /\ h \in Threads
      /\ j \in 1..Len(mm.L[h].errorJmp) /\ p = mm.L[h].errorJmp[j]
  BY ThrowStack
<1> SUFFICES ASSUME NEW t \in Threads
             PROVE  DepthOf(nn, t, nn.L[t].ci)
  BY DEF Depth
<1> DEFINE cis == mm.L[t].ci
           dis == nn.L[t].ci
<1>2. DepthOf(mm, t, cis) /\ cis \in Seq(CallInfo) /\ dis \in Seq(CallInfo) /\ Len(cis) \in Nat /\ Len(dis) \in Nat
  BY MachineFields DEF Core, Depth, ThrowsTo
<1>3. SameCalls(cis, dis)
  BY DEF ThrowsTo
<1>4. \A i \in HeldBy(mm, t) : mm.cs[i].ci \in 1..Len(cis)
  BY <1>2 DEF DepthOf
<1>5. /\ Len(dis) >= 1 /\ (Len(dis) >= 2 => Afresh(dis[2]))
      /\ \A k \in 1..Len(dis) : k <= Len(cis) => (Afresh(dis[k]) <=> Afresh(cis[k]))
  BY <1>2, <1>3 DEF DepthOf, SameCalls
<1>6. CASE t # h \/ \A i \in p..n : mm.cs[i].op # "closethread"
  <2>1. \A i \in p..n : ~ResetsOf(mm.cs[i], t)
    <3>1. CASE t # h
      BY <3>1, ThrowResets
    <3>2. CASE \A i \in p..n : mm.cs[i].op # "closethread"
      BY <3>2 DEF ResetsOf
    <3> QED
      BY <1>6, <3>1, <3>2
  <2>2. \A i \in q+1..Past(mm)-1 : ~ResetsOf(mm.cs[i], t)
    BY <1>1, <2>1
  <2>3. q \in 1..Len(mm.cs)
    BY <1>1
  <2>4. \A i \in HeldBy(nn, t) : i \in HeldBy(mm, t) /\ i \in 1..q /\ nn.cs[i] = mm.cs[i]
    <3> HIDE DEF q
    <3> QED
      BY <1>1, <2>2, <2>3, CutHeld
  <2>5. \A i \in HeldBy(nn, t) : mm.cs[i].ci <= Len(dis)
    BY <1>2, <1>3, <1>4, <2>4 DEF SameCalls
  <2> HIDE DEF dis
  <2>6. DepthOf(nn, t, dis)
    BY <1>2, <1>5, <2>4, <2>5, DepthKept
  <2> QED
    BY <2>6 DEF dis
<1>7. CASE t = h /\ j = 1 /\ h \in Coroutines
  <2>1. ASSUME NEW i \in HeldBy(nn, t)
        PROVE  i = q /\ nn.cs[q].op = "closep" /\ nn.cs[q].ci = 1
    <3>1. i \in 1..q /\ mm.cs[i].th = h
      BY <1>1, <1>7 DEF HeldBy, Lives
    <3>2. \A k \in 1..p-1 : ~IsTry(mm.cs, h, k)
      <4> SUFFICES ASSUME NEW k \in 1..p-1, IsTry(mm.cs, h, k) PROVE FALSE
        OBVIOUS
      <4>1. JumpsOf(mm.cs, h, mm.L[h].errorJmp)
        BY <1>1 DEF Core, Jumps
      <4>2. PICK l \in 1..Len(mm.L[h].errorJmp) : mm.L[h].errorJmp[l] = k
        BY <4>1 DEF JumpsOf, IsTry
      <4>3. l = 1 \/ 1 < l
        OBVIOUS
      <4>4. \A a, b \in 1..Len(mm.L[h].errorJmp) : a < b => mm.L[h].errorJmp[a] < mm.L[h].errorJmp[b]
        BY <4>1 DEF JumpsOf
      <4>5. k >= p
        BY <1>1, <1>7, <4>2, <4>3, <4>4
      <4> QED
        BY <1>1, <4>5
    <3>3. i = p-1 /\ p-1 >= 2 /\ mm.cs[p-1].op = "closep" /\ mm.cs[(p-1)-1].op = "closethread"
      <4>1. i \in 1..p-1 /\ mm.cs \in Seq(Activation) /\ Stacked(mm.cs) /\ IsTry(mm.cs, h, p) /\ mm.cs[Len(mm.cs)].th = h
        BY <1>1, <3>1
      <4>2. h \in Coroutines /\ mm.cs[i].th = h
        BY <1>7, <3>1
      <4> HIDE DEF q, n, cis, dis
      <4> QED
        BY <3>2, <4>1, <4>2, BelowBase
    <3>4. p-1 >= 2
      BY <3>3
    <3>5. (p-1)-1 \in 1..n-1 /\ ((p-1)-1)+1 = p-1
      <4>1. p \in 2..n /\ n \in Nat
        BY <1>1
      <4> HIDE DEF n
      <4> QED
        BY <3>4, <4>1
    <3>6. mm.cs[((p-1)-1)+1].ci = 1
      BY <3>3, <3>5 DEF Core, Based
    <3>7. nn.cs[q] = mm.cs[q] /\ i = q
      BY <1>1, <3>1, <3>3
    <3> QED
      BY <3>3, <3>5, <3>6, <3>7
  <2>2. ASSUME NEW i \in HeldBy(nn, t)
        PROVE  nn.cs[i].ci \in (IF Owns(nn.cs[i]) THEN 2 ELSE 1)..Len(dis)
    BY <1>2, <1>5, <2>1 DEF Owns
  <2>3. \A i, k \in HeldBy(nn, t) : ~(i < k)
    <3> TAKE i, k \in HeldBy(nn, t)
    <3>1. i = q /\ k = q
      BY <2>1
    <3> QED
      BY <1>1, <3>1
  <2> QED
    BY <1>5, <2>2, <2>3 DEF DepthOf
<1> QED
  BY <1>6, <1>7 DEF MayLeave

LEMMA ThrowCore ==
  ASSUME NEW mm, Core(mm), NEW h, NEW p, NEW j, MayThrow(mm, h, p, j), MayLeave(mm, h, p, j),
         NEW nn, ThrowsTo(mm, nn, h, p, j)
  PROVE  /\ Core(nn)
         /\ \A t \in Threads : Present(nn.cs, t) => Present(mm.cs, t)
         /\ Last(nn.cs).op \in {"resumed", "pcall", "closep"}
         /\ Last(nn.cs).op = "resumed" => Last(nn.cs).co = h /\ nn.L[h].nny = 0 /\ ~Present(nn.cs, h)
<1> DEFINE n == Len(mm.cs)
           q == p - 1
           s == mm.cs
<1>1. /\ n \in Nat /\ p \in 2..n /\ q \in 1..n /\ nn.cs = SubSeq(s, 1, q) /\ nn.cs \in Seq(Activation) /\ Len(nn.cs) = q
      /\ s \in Seq(Activation) /\ Stacked(s)
      /\ \A i \in 1..q : nn.cs[i] = s[i]
      /\ s[p].op = "try" /\ IsTry(s, h, p) /\ h \in Threads /\ nn \in MachineType
      /\ Last(nn.cs) = s[q] /\ s[q].op \in {"resumed", "pcall", "closep"} /\ Called(s[q]) = h
      /\ Called(s[n]) = h /\ q \in 1..q
  BY ThrowStack
<1>2. \A t \in Threads : Present(nn.cs, t) => Present(s, t)
  <2>1. \A i \in 1..q : i \in 1..n
    BY <1>1
  <2> QED
    BY <1>1, <2>1 DEF Present
<1>3. ASSUME NEW t \in Threads, Present(nn.cs, t), t # Called(s[q])
      PROVE  Len(nn.L[t].ci) >= 2
  <2>1. Len(mm.L[t].ci) >= 2
    BY <1>1, <1>2, <1>3, CoreFacts DEF Core, Apart
  <2> QED
    BY <2>1 DEF ThrowsTo, SameCalls
<1>4. Core(nn)
  <2>1. q \in 1..Len(mm.cs)
    BY <1>1
  <2> HIDE DEF q
  <2> QED
    BY <1>1, <1>3, <2>1, ThrowJumps, ThrowCounts, ThrowDepth, CutCore
<1>5. ASSUME s[q].op = "resumed"
      PROVE  s[q].co = h /\ nn.L[h].nny = 0 /\ ~Present(nn.cs, h)
  <2>1. s[q].co = h /\ Crosses(s[q])
    BY <1>1, <1>5 DEF Called, Waits, Crosses
  <2>2. \A i \in 1..q : s[i].th # h
    BY <1>1, <2>1 DEF Stacked, Crossed
  <2>3. ~Present(nn.cs, h)
    BY <1>1, <2>2 DEF Present
  <2>4. h # Main
    <3>1. s[1].th = Main /\ 1 \in 1..q
      BY <1>1, ActivationFields DEF Stacked, Hosted
    <3> QED
      BY <2>2, <3>1
  <2>5. nn.L[h].nny = Unyielding(s, h, p)
    <3>1. p \in 1..n /\ s[p].th = h
      BY <1>1 DEF IsTry
    <3> QED
      BY <1>1, <3>1 DEF Stacked, Saved, ThrowsTo
  <2>6. Unyielding(s, h, p) = 0
    <3>1. p \in 1..Len(s)+1
      BY <1>1
    <3> QED
      BY <1>1, <2>2, <2>4, <3>1, CountingAbsent
  <2> QED
    BY <2>1, <2>3, <2>5, <2>6
<1> QED
  BY <1>1, <1>2, <1>4, <1>5

----------------------------------------------------------------------------
(* The CallInfos change, and nothing else.                                 *)

LEMMA InfosCore ==
  ASSUME NEW mm, Core(mm), NEW nn \in MachineType, nn.cs = mm.cs, Past(nn) = Past(mm), NEW h \in Threads,
         \A t \in Threads : nn.L[t].errorJmp = mm.L[t].errorJmp,
         \A t \in Threads : Present(mm.cs, t) => nn.L[t].nny = mm.L[t].nny,
         \A t \in Threads \ {h} : SameCalls(mm.L[t].ci, nn.L[t].ci),
         DepthOf(nn, h, nn.L[h].ci),
         Present(mm.cs, h) /\ h # Called(Last(mm.cs)) => Len(nn.L[h].ci) >= 2
  PROVE  Core(nn)
<1>1. HeldBy(nn, h) = HeldBy(mm, h) /\ \A t \in Threads : HeldBy(nn, t) = HeldBy(mm, t)
  BY DEF HeldBy, Lives
<1>2. Jumps(nn)
  BY DEF Core, Jumps
<1>3. Counts(nn)
  BY DEF Core, Counts
<1>4. Depth(nn)
  <2> SUFFICES ASSUME NEW t \in Threads, t # h PROVE DepthOf(nn, t, nn.L[t].ci)
    BY DEF Depth
  <2> DEFINE cis == mm.L[t].ci
             dis == nn.L[t].ci
  <2>1. DepthOf(mm, t, cis) /\ SameCalls(cis, dis) /\ cis \in Seq(CallInfo) /\ dis \in Seq(CallInfo) /\ Len(cis) \in Nat
    BY MachineFields DEF Core, Depth
  <2>2. \A i \in HeldBy(nn, t) : i \in HeldBy(mm, t) /\ nn.cs[i] = mm.cs[i] /\ mm.cs[i].ci <= Len(dis)
    BY <1>1, <2>1 DEF DepthOf, SameCalls
  <2>3. /\ Len(dis) >= 1 /\ (Len(dis) >= 2 => Afresh(dis[2]))
        /\ \A k \in 1..Len(dis) : k <= Len(cis) => (Afresh(dis[k]) <=> Afresh(cis[k]))
    BY <2>1 DEF DepthOf, SameCalls
  <2> HIDE DEF dis
  <2>4. DepthOf(nn, t, dis)
    BY <2>1, <2>2, <2>3, DepthKept
  <2> QED
    BY <2>4 DEF dis
<1>5. Apart(nn)
  <2> SUFFICES ASSUME NEW t \in Threads, Present(mm.cs, t), t # Called(Last(mm.cs)) PROVE Len(nn.L[t].ci) >= 2
    BY DEF Apart
  <2>1. CASE t = h
    BY <2>1
  <2>2. CASE t # h
    <3>1. Len(mm.L[t].ci) >= 2
      BY DEF Core, Apart
    <3> QED
      BY <2>2, <3>1 DEF SameCalls
  <2> QED
    BY <2>1, <2>2
<1> QED
  BY <1>2, <1>3, <1>4, <1>5 DEF Core

LEMMA OneOrMore ==
  ASSUME NEW k \in Nat, k >= 1
  PROVE  k = 1 \/ k >= 2
  OBVIOUS

(* A function is called: its CallInfo is above the others.                 *)
LEMMA GrowCore ==
  ASSUME NEW mm, Core(mm), NEW h \in Threads, NEW c \in CallInfo, Afresh(c) \/ Len(mm.L[h].ci) >= 2
  PROVE  LET nn == PushCI(mm, h, c)
         IN /\ Core(nn) /\ nn.cs = mm.cs /\ nn.ret = mm.ret /\ Others(mm, nn, h)
            /\ nn.L[h].ci = Append(mm.L[h].ci, c) /\ nn.L[h].ci \in Seq(CallInfo)
            /\ nn.L[h].errorJmp = mm.L[h].errorJmp /\ nn.L[h].nny = mm.L[h].nny
            /\ Len(nn.L[h].ci) = Len(mm.L[h].ci) + 1 /\ Len(mm.L[h].ci) \in Nat /\ Len(mm.L[h].ci) >= 1
            /\ nn.L[h].ci[Len(mm.L[h].ci) + 1] = c
            /\ \A k \in 1..Len(mm.L[h].ci) : nn.L[h].ci[k] = mm.L[h].ci[k]
            /\ nn.L[h].status = mm.L[h].status
            /\ HeldBy(nn, h) = HeldBy(mm, h)
            /\ \A i \in HeldBy(mm, h) : mm.cs[i].ci \in 1..Len(mm.L[h].ci)
<1> DEFINE nn == PushCI(mm, h, c)
           cis == mm.L[h].ci
           dis == nn.L[h].ci
<1>1. mm \in MachineType
  BY CoreFacts
<1>2. /\ nn \in MachineType /\ nn.cs = mm.cs /\ nn.ret = mm.ret /\ Others(mm, nn, h)
      /\ nn.L[h] = [mm.L[h] EXCEPT !.ci = Append(@, c)]
  BY <1>1, PushCIFacts
<1> HIDE DEF nn
<1>3. /\ nn.L[h].ci = Append(cis, c) /\ nn.L[h].errorJmp = mm.L[h].errorJmp /\ nn.L[h].nny = mm.L[h].nny
      /\ nn.L[h].status = mm.L[h].status /\ cis \in Seq(CallInfo)
  BY <1>1, <1>2, MachineFields DEF Thread
<1>4. DepthOf(mm, h, cis)
  BY DEF Core, Depth
<1> HIDE DEF cis
<1>5. /\ dis \in Seq(CallInfo) /\ Len(dis) = Len(cis) + 1 /\ Len(cis) \in Nat
      /\ dis[Len(cis) + 1] = c /\ \A k \in 1..Len(cis) : dis[k] = cis[k]
  BY <1>3, AppendFacts
<1>6. Past(nn) = Past(mm)
  BY <1>2 DEF Past
<1>7. HeldBy(nn, h) = HeldBy(mm, h)
  BY <1>2, <1>6 DEF HeldBy, Lives
<1>8. Len(cis) >= 1 /\ (Len(cis) >= 2 => Afresh(cis[2])) /\ \A i \in HeldBy(mm, h) : mm.cs[i].ci \in 1..Len(cis)
  BY <1>4 DEF DepthOf
<1>9. Len(dis) >= 1 /\ (Len(dis) >= 2 => Afresh(dis[2]))
  <2>1. CASE Len(cis) = 1
    BY <1>5, <2>1 DEF cis
  <2>2. CASE Len(cis) >= 2
    BY <1>5, <1>8, <2>2
  <2>3. Len(cis) \in Nat /\ Len(cis) >= 1
    BY <1>5, <1>8
  <2>4. Len(cis) = 1 \/ Len(cis) >= 2
    BY <2>3, OneOrMore
  <2> QED
    BY <2>1, <2>2, <2>4
<1> HIDE DEF dis
<1>10. DepthOf(nn, h, dis)
  <2>1. \A i \in HeldBy(nn, h) : i \in HeldBy(mm, h) /\ nn.cs[i] = mm.cs[i] /\ mm.cs[i].ci <= Len(dis)
    BY <1>2, <1>5, <1>7, <1>8
  <2>2. \A k \in 1..Len(dis) : k <= Len(cis) => (Afresh(dis[k]) <=> Afresh(cis[k]))
    BY <1>5
  <2> QED
    BY <1>5, <1>9, <2>1, <2>2, DepthKept DEF cis
<1>11. Core(nn)
  <2>1. \A t \in Threads : nn.L[t].errorJmp = mm.L[t].errorJmp /\ nn.L[t].nny = mm.L[t].nny
    BY <1>2, <1>3 DEF Others
  <2>2. \A t \in Threads \ {h} : SameCalls(mm.L[t].ci, nn.L[t].ci)
    BY <1>2 DEF Others, SameCalls
  <2>3. Present(mm.cs, h) /\ h # Called(Last(mm.cs)) => Len(nn.L[h].ci) >= 2
    BY <1>5, <1>8 DEF dis
  <2> QED
    BY <1>2, <1>6, <1>10, <2>1, <2>2, <2>3, InfosCore DEF dis
<1> QED
  BY <1>2, <1>3, <1>5, <1>7, <1>8, <1>11 DEF nn, cis, dis

(* A thread that is not in the stack of C is changed.                      *)
LEMMA AbsentCore ==
  ASSUME NEW mm, Core(mm), NEW nn \in MachineType, nn.cs = mm.cs, Past(nn) = Past(mm), NEW h \in Threads,
         ~Present(mm.cs, h), Others(mm, nn, h), nn.L[h].errorJmp = mm.L[h].errorJmp,
         Len(nn.L[h].ci) >= 1, Len(nn.L[h].ci) >= 2 => Afresh(nn.L[h].ci[2])
  PROVE  Core(nn)
<1>1. HeldBy(nn, h) = {}
  BY DEF HeldBy, Lives, Present
<1>2. DepthOf(nn, h, nn.L[h].ci)
  BY <1>1 DEF DepthOf
<1>3. \A t \in Threads \ {h} : SameCalls(mm.L[t].ci, nn.L[t].ci)
  BY DEF Others, SameCalls
<1>4. \A t \in Threads : nn.L[t].errorJmp = mm.L[t].errorJmp /\ (Present(mm.cs, t) => nn.L[t].nny = mm.L[t].nny)
  BY DEF Others
<1> QED
  BY <1>2, <1>3, <1>4, InfosCore

(* The CallInfos above those in use are taken away.                        *)
LEMMA CutInfosCore ==
  ASSUME NEW mm, Core(mm), NEW h \in Threads, NEW n \in 1..Len(mm.L[h].ci),
         \A i \in HeldBy(mm, h) : mm.cs[i].ci <= n,
         Present(mm.cs, h) /\ h # Called(Last(mm.cs)) => n >= 2
  PROVE  LET nn == CutCI(mm, h, n)
         IN /\ Core(nn) /\ nn.cs = mm.cs /\ nn.ret = mm.ret /\ Others(mm, nn, h)
            /\ nn.L[h].errorJmp = mm.L[h].errorJmp /\ nn.L[h].nny = mm.L[h].nny
            /\ Len(nn.L[h].ci) = n /\ nn.L[h].ci \in Seq(CallInfo)
            /\ \A k \in 1..n : nn.L[h].ci[k] = mm.L[h].ci[k]
            /\ nn.L[h].status = mm.L[h].status
<1> DEFINE nn == CutCI(mm, h, n)
           cis == mm.L[h].ci
           dis == nn.L[h].ci
<1>1. mm \in MachineType /\ cis \in Seq(CallInfo) /\ Len(cis) \in Nat /\ n \in 0..Len(cis)
  BY CoreFacts, MachineFields
<1>2. /\ nn \in MachineType /\ nn.cs = mm.cs /\ nn.ret = mm.ret /\ Others(mm, nn, h)
      /\ nn.L[h] = [mm.L[h] EXCEPT !.ci = SubSeq(@, 1, n)]
  BY <1>1, CutCIFacts
<1> HIDE DEF nn
<1>3. /\ nn.L[h].ci = SubSeq(cis, 1, n) /\ nn.L[h].errorJmp = mm.L[h].errorJmp /\ nn.L[h].nny = mm.L[h].nny
      /\ nn.L[h].status = mm.L[h].status
  BY <1>1, <1>2, MachineFields DEF Thread
<1>4. DepthOf(mm, h, cis)
  BY DEF Core, Depth
<1> HIDE DEF cis
<1>5. dis \in Seq(CallInfo) /\ Len(dis) = n /\ \A k \in 1..n : dis[k] = cis[k]
  BY <1>1, <1>3, CutFacts
<1>6. Past(nn) = Past(mm)
  BY <1>2 DEF Past
<1>7. HeldBy(nn, h) = HeldBy(mm, h)
  BY <1>2, <1>6 DEF HeldBy, Lives
<1>8. Len(cis) >= 2 => Afresh(cis[2])
  BY <1>4 DEF DepthOf
<1>9. Len(dis) >= 1 /\ (Len(dis) >= 2 => Afresh(dis[2]))
  BY <1>1, <1>5, <1>8
<1>10. DepthOf(nn, h, dis)
  <2> HIDE DEF dis
  <2>1. \A i \in HeldBy(nn, h) : i \in HeldBy(mm, h) /\ nn.cs[i] = mm.cs[i] /\ mm.cs[i].ci <= Len(dis)
    BY <1>2, <1>5, <1>7
  <2>2. \A k \in 1..Len(dis) : k <= Len(cis) => (Afresh(dis[k]) <=> Afresh(cis[k]))
    BY <1>5
  <2> QED
    BY <1>5, <1>9, <2>1, <2>2, DepthKept DEF cis
<1>11. Core(nn)
  <2>1. \A t \in Threads : nn.L[t].errorJmp = mm.L[t].errorJmp /\ nn.L[t].nny = mm.L[t].nny
    BY <1>2, <1>3 DEF Others
  <2>2. \A t \in Threads \ {h} : SameCalls(mm.L[t].ci, nn.L[t].ci)
    BY <1>2 DEF Others, SameCalls
  <2>3. Present(mm.cs, h) /\ h # Called(Last(mm.cs)) => Len(nn.L[h].ci) >= 2
    BY <1>5 DEF dis
  <2> QED
    BY <1>2, <1>6, <1>10, <2>1, <2>2, <2>3, InfosCore DEF dis
<1> QED
  BY <1>2, <1>3, <1>5, <1>11 DEF nn, cis, dis

(* luaV_execute goes on with another CallInfo of its thread.               *)
LEMMA MoveCore ==
  ASSUME NEW mm, Core(mm), NEW nn \in MachineType, nn.L = mm.L, NEW h \in Threads, NEW d \in 2..Len(mm.L[h].ci),
         Last(mm.cs).op = "execute", Last(mm.cs).th = h,
         nn.cs = [mm.cs EXCEPT ![Len(mm.cs)] = execute(h, d)],
         \A i \in HeldBy(mm, h) : i < Len(mm.cs) => \E k \in mm.cs[i].ci+1..d : Afresh(mm.L[h].ci[k])
  PROVE  Core(nn)
<1> DEFINE n == Len(mm.cs)
           g == execute(h, d)
           cis == mm.L[h].ci
<1>1. /\ mm \in MachineType /\ mm.cs \in Seq(Activation) /\ n \in Nat /\ n >= 1
      /\ Last(mm.cs) = mm.cs[n] /\ mm.cs[n] \in Activation /\ Past(mm) = n + 1
      /\ cis \in Seq(CallInfo) /\ Len(cis) \in Nat
      /\ \A i \in 1..n : mm.cs[i] \in Activation
  BY CoreFacts, MachineFields
<1>2. g \in Activation /\ g.op = "execute" /\ g.th = h /\ g.ci = d
  BY <1>1 DEF execute, Activation
<1> HIDE DEF g
<1>3. /\ nn.cs \in Seq(Activation) /\ Len(nn.cs) = n /\ nn.cs[n] = g
      /\ \A i \in 1..n-1 : nn.cs[i] = mm.cs[i]
  BY <1>1, <1>2 DEF g
<1>4. Last(nn.cs) = g
  BY <1>1, <1>3 DEF Last
<1>5. Past(nn) = n + 1
  BY <1>2, <1>3, <1>4 DEF Past
<1>6. Alike(mm.cs, nn.cs)
  <2> SUFFICES ASSUME NEW i \in 1..n PROVE Similar(mm.cs[i], nn.cs[i]) /\ (mm.cs[i].op = "closep" => nn.cs[i].ci = mm.cs[i].ci)
    BY <1>3 DEF Alike
  <2>1. CASE i = n
    BY <1>1, <1>2, <1>3, <2>1 DEF Similar, Waits
  <2>2. CASE i \in 1..n-1
    BY <1>1, <1>3, <2>2, SimilarSelf
  <2> QED
    BY <1>1, <2>1, <2>2
<1>7. ASSUME NEW t \in Threads, NEW i \in 1..n
      PROVE  i \in HeldBy(nn, t) <=> i \in HeldBy(mm, t)
  <2>1. \A k \in 1..n : ResetsOf(nn.cs[k], t) <=> ResetsOf(mm.cs[k], t)
    <3> TAKE k \in 1..n
    <3>1. k = n \/ k \in 1..n-1
      BY <1>1
    <3> QED
      BY <1>1, <1>2, <1>3, <3>1 DEF ResetsOf
  <2>2. nn.cs[i].th = mm.cs[i].th /\ (Holds(nn.cs[i]) <=> Holds(mm.cs[i]))
    <3>1. i = n \/ i \in 1..n-1
      BY <1>1
    <3> QED
      BY <1>1, <1>2, <1>3, <3>1 DEF Holds, Owns
  <2>3. Past(nn) = Past(mm) /\ \A k \in i..Past(mm)-1 : k \in 1..n
    BY <1>1, <1>5
  <2>4. Lives(nn, t, i) <=> Lives(mm, t, i)
    BY <2>1, <2>2, <2>3 DEF Lives
  <2> QED
    BY <1>3, <2>2, <2>4 DEF HeldBy
<1>8. \A t \in Threads : HeldBy(nn, t) \subseteq 1..n /\ HeldBy(mm, t) \subseteq 1..n
  BY <1>3 DEF HeldBy
<1>9. ASSUME NEW t \in Threads, t # h
      PROVE  DepthOf(nn, t, nn.L[t].ci)
  <2>1. DepthOf(mm, t, mm.L[t].ci) /\ mm.L[t].ci \in Seq(CallInfo)
    BY <1>1, MachineFields DEF Core, Depth
  <2>2. \A i \in HeldBy(nn, t) : i \in HeldBy(mm, t) /\ i \in 1..n /\ i # n
    BY <1>1, <1>2, <1>3, <1>7, <1>8, <1>9 DEF HeldBy, Lives
  <2>3. \A i \in HeldBy(nn, t) : i \in HeldBy(mm, t) /\ nn.cs[i] = mm.cs[i]
    BY <1>1, <1>3, <2>2
  <2> QED
    BY <2>1, <2>3 DEF DepthOf
<1>10. DepthOf(nn, h, cis)
  <2>1. DepthOf(mm, h, cis)
    BY DEF Core, Depth
  <2> HIDE DEF cis
  <2>2. ASSUME NEW i \in HeldBy(nn, h)
        PROVE  nn.cs[i].ci \in (IF Owns(nn.cs[i]) THEN 2 ELSE 1)..Len(cis)
    <3>1. i = n \/ (i \in 1..n-1 /\ i \in HeldBy(mm, h))
      BY <1>1, <1>7, <1>8
    <3>2. CASE i = n
      BY <1>1, <1>2, <1>3, <3>2 DEF cis
    <3>3. CASE i \in 1..n-1 /\ i \in HeldBy(mm, h)
      BY <1>3, <2>1, <3>3 DEF DepthOf
    <3> QED
      BY <3>1, <3>2, <3>3
  <2>3. ASSUME NEW i \in HeldBy(nn, h), NEW j \in HeldBy(nn, h), i < j
        PROVE  /\ nn.cs[i].ci <= nn.cs[j].ci
               /\ Owns(nn.cs[j]) => \E k \in nn.cs[i].ci+1..nn.cs[j].ci : Afresh(cis[k])
    <3>1. i \in 1..n-1 /\ i \in HeldBy(mm, h) /\ nn.cs[i] = mm.cs[i] /\ j \in 1..n /\ j \in HeldBy(mm, h)
      BY <1>1, <1>3, <1>7, <1>8, <2>3
    <3>2. CASE j = n
      <4>1. PICK k \in mm.cs[i].ci+1..d : Afresh(cis[k])
        BY <1>1, <3>1 DEF cis
      <4>2. mm.cs[i].ci \in Nat
        <5>1. mm.cs[i] \in Activation /\ Holds(mm.cs[i])
          BY <1>1, <3>1 DEF HeldBy
        <5> QED
          BY <5>1, ActivationFields
      <4>3. nn.cs[j].ci = d /\ d \in Nat
        BY <1>1, <1>2, <1>3, <3>2 DEF cis
      <4> QED
        BY <3>1, <4>1, <4>2, <4>3
    <3>3. CASE j \in 1..n-1
      BY <1>3, <2>1, <2>3, <3>1, <3>3 DEF DepthOf
    <3> QED
      BY <1>1, <3>1, <3>2, <3>3
  <2> QED
    BY <2>1, <2>2, <2>3 DEF DepthOf
<1>11. Depth(nn)
  BY <1>9, <1>10 DEF Depth
<1>12. \A t \in Threads : SameThread(mm.L[t], nn.L[t])
  BY DEF SameThread, SameCalls
<1> QED
  BY <1>1, <1>5, <1>6, <1>11, <1>12, AlikeCore

(* lua_closethread begins: its thread is reset.                            *)
LEMMA ResetCore ==
  ASSUME NEW mm, Core(mm), NEW h \in Coroutines, Last(mm.cs).op = "closethread", Last(mm.cs).co = h, mm.ret = "go",
         NEW nn \in MachineType, nn.cs = mm.cs, nn.ret # "go", Others(mm, nn, h),
         nn.L[h].errorJmp = mm.L[h].errorJmp, nn.L[h].nny = 0, Len(nn.L[h].ci) = 1
  PROVE  Core(nn) /\ Past(nn) = Len(nn.cs) + 1 /\ HeldBy(nn, h) = {}
<1> DEFINE n == Len(mm.cs)
           s == mm.cs
<1>1. /\ s \in Seq(Activation) /\ n \in Nat /\ n >= 1 /\ s[n] = Last(s) /\ Past(mm) = n /\ Past(nn) = n + 1 /\ n \in 1..n
  BY CoreFacts DEF Past
<1>2. h \in Threads /\ h # Main
  BY ThreadsAssumption DEF Threads
<1>3. \A t \in Threads : ResetsOf(s[n], t) <=> t = h
  BY <1>1 DEF ResetsOf
<1>4. Jumps(nn)
  BY DEF Core, Jumps, Others
<1>5. Counts(nn)
  <2> SUFFICES ASSUME NEW t \in Threads, Present(s, t)
               PROVE  nn.L[t].nny = Unyielding(s, t, n + 1)
    BY <1>1 DEF Counts
  <2>1. CASE t = h
    <3>1. \A i \in 1..(n+1)-1 : n \in i..(n+1)-1
      BY <1>1
    <3>2. Counting(s, t, n + 1) = {}
      BY <1>2, <1>3, <2>1, <3>1 DEF Counting
    <3>3. Cardinality(Counting(s, t, n + 1)) = 0
      BY <3>2, FS_EmptySet
    <3> QED
      BY <1>2, <2>1, <3>3 DEF Unyielding
  <2>2. CASE t # h
    <3>1. nn.L[t].nny = Unyielding(s, t, n)
      BY <1>1, <2>2 DEF Core, Counts, Others
    <3>2. Unyielding(s, t, n + 1) = Unyielding(s, t, n)
      <4>1. s[n].op # "ccall" /\ ~ResetsOf(s[n], t)
        BY <1>1, <1>3, <2>2
      <4>2. s = Append(SubSeq(s, 1, n-1), s[n]) /\ SubSeq(s, 1, n-1) \in Seq(Activation) /\ Len(SubSeq(s, 1, n-1)) = n-1
            /\ s[n] \in Activation
        <5>1. s[n] \in Activation /\ n-1 \in 0..Len(s)
          BY <1>1
        <5> DEFINE u == SubSeq(s, 1, n-1)
        <5>2. u \in Seq(Activation) /\ Len(u) = n-1 /\ \A i \in 1..n-1 : u[i] = s[i]
          <6> DEFINE q == n - 1
          <6>1. q \in 0..Len(s)
            BY <5>1
          <6> HIDE DEF q, s
          <6>2. /\ SubSeq(s, 1, q) \in Seq(Activation) /\ Len(SubSeq(s, 1, q)) = q
                /\ \A i \in 1..q : SubSeq(s, 1, q)[i] = s[i]
            BY <1>1, <6>1, CutFacts
          <6> QED
            BY <6>2 DEF q
        <5> HIDE DEF u
        <5> DEFINE v == Append(u, s[n])
        <5>3. v \in Seq(Activation) /\ Len(v) = (n-1)+1 /\ v[(n-1)+1] = s[n] /\ \A i \in 1..n-1 : v[i] = u[i]
          BY <5>1, <5>2, AppendFacts
        <5> HIDE DEF v
        <5>4. (n-1)+1 = n /\ \A i \in 1..n : i = n \/ i \in 1..n-1
          BY <1>1
        <5>5. Len(v) = Len(s) /\ \A i \in 1..Len(s) : v[i] = s[i]
          BY <5>2, <5>3, <5>4
        <5>6. v = s
          BY <1>1, <5>3, <5>5, SeqEqual
        <5> QED
          BY <5>1, <5>2, <5>6 DEF u, v
      <4> DEFINE u == SubSeq(s, 1, n-1)
      <4>3. Unyielding(Append(u, s[n]), t, Len(u) + 2) = Unyielding(u, t, Len(u) + 1)
        BY <4>1, <4>2, CountingNext
      <4>4. Len(u) + 2 = n + 1 /\ Len(u) + 1 = n
        BY <1>1, <4>2
      <4>5. Unyielding(u, t, n) = Unyielding(s, t, n)
        <5>1. n-1 \in 0..Len(s) /\ n \in 1..(n-1)+1
          BY <1>1
        <5> HIDE DEF n
        <5> QED
          BY <1>1, <5>1, CountingCut
      <4> QED
        BY <4>2, <4>3, <4>4, <4>5
    <3> QED
      BY <3>1, <3>2
  <2> QED
    BY <2>1, <2>2
<1>6. HeldBy(nn, h) = {}
  <2>1. \A i \in 1..n : n \in i..Past(nn)-1
    BY <1>1
  <2>2. \A i \in 1..n : ~Lives(nn, h, i)
    BY <1>2, <1>3, <2>1 DEF Lives
  <2> QED
    BY <2>2 DEF HeldBy
<1>7. Depth(nn)
  <2> SUFFICES ASSUME NEW t \in Threads PROVE DepthOf(nn, t, nn.L[t].ci)
    BY DEF Depth
  <2>1. CASE t = h
    <3>1. Len(nn.L[t].ci) = 1 /\ HeldBy(nn, t) = {}
      BY <1>6, <2>1
    <3>2. 1 >= 1 /\ ~(1 >= 2)
      OBVIOUS
    <3> QED
      BY <3>1, <3>2, Zenon DEF DepthOf
  <2>2. CASE t # h
    <3>1. nn.L[t] = mm.L[t] /\ DepthOf(mm, t, mm.L[t].ci)
      BY <2>2 DEF Core, Depth, Others
    <3>2. \A i \in HeldBy(nn, t) : i \in HeldBy(mm, t)
      <4>1. \A i \in 1..n : \A j \in i..Past(mm)-1 : j \in i..Past(nn)-1
        BY <1>1
      <4> QED
        BY <4>1 DEF HeldBy, Lives
    <3> QED
      BY <3>1, <3>2 DEF DepthOf
  <2> QED
    BY <2>1, <2>2
<1>8. Apart(nn)
  BY <1>1, <1>2 DEF Core, Apart, Others, Called, Waits
<1> QED
  BY <1>1, <1>4, <1>5, <1>6, <1>7, <1>8 DEF Core

----------------------------------------------------------------------------
(* Steps inside an activation: fields that the stack of C does not see.    *)

Keeps(mm, nn) ==
  /\ nn \in MachineType /\ SameStack(mm.cs, nn.cs) /\ Past(nn) = Past(mm)
  /\ \A t \in Threads : SameThread(mm.L[t], nn.L[t]) /\ nn.L[t].status = mm.L[t].status

LEMMA KeepsFacts ==
  ASSUME NEW mm, Core(mm), NEW nn, Keeps(mm, nn)
  PROVE  /\ Core(nn)
         /\ Settled(mm) => Settled(nn)
         /\ Len(nn.cs) = Len(mm.cs)
         /\ Similar(Last(mm.cs), Last(nn.cs)) /\ Last(mm.cs) \in Activation /\ Last(nn.cs) \in Activation
         /\ Holds(Last(mm.cs)) => Last(nn.cs).ci = Last(mm.cs).ci
         /\ \A t \in Threads : Present(nn.cs, t) <=> Present(mm.cs, t)
<1> DEFINE n == Len(mm.cs)
<1>1. Core(nn)
  BY StayCore DEF Keeps
<1>2. /\ n \in Nat /\ n >= 1 /\ Len(nn.cs) = n /\ Last(mm.cs) = mm.cs[n] /\ Last(nn.cs) = nn.cs[n]
      /\ \A i \in 1..n : mm.cs[i] \in Activation /\ nn.cs[i] \in Activation /\ Similar(mm.cs[i], nn.cs[i])
      /\ \A i \in 1..n : Holds(mm.cs[i]) => nn.cs[i].ci = mm.cs[i].ci
  <2>1. Len(nn.cs) = n
    BY DEF Keeps, SameStack
  <2> QED
    BY <1>1, <2>1, CoreFacts DEF Keeps, SameStack
<1>3. \A i \in 1..n : nn.cs[i].th = mm.cs[i].th
  BY <1>2 DEF Similar
<1>4. \A t \in Threads : Present(nn.cs, t) <=> Present(mm.cs, t)
  BY <1>2, <1>3 DEF Present
<1>5. Settled(mm) => Settled(nn)
  BY <1>4 DEF Settled, Keeps, SameThread, SameCalls
<1> QED
  BY <1>1, <1>2, <1>4, <1>5

LEMMA KeepsTwice ==
  ASSUME NEW ll, NEW mm, NEW nn, ll.cs \in Seq(Activation), Keeps(ll, mm), Keeps(mm, nn)
  PROVE  Keeps(ll, nn)
<1>1. nn \in MachineType /\ Past(nn) = Past(ll)
  BY DEF Keeps
<1>2. \A t \in Threads : SameThread(ll.L[t], nn.L[t]) /\ nn.L[t].status = ll.L[t].status
  <2> SUFFICES ASSUME NEW t \in Threads PROVE SameThread(ll.L[t], nn.L[t]) /\ nn.L[t].status = ll.L[t].status
    OBVIOUS
  <2>1. SameThread(ll.L[t], mm.L[t]) /\ SameThread(mm.L[t], nn.L[t]) /\ nn.L[t].status = ll.L[t].status
    BY DEF Keeps
  <2> QED
    BY <2>1 DEF SameThread, SameCalls
<1>3. SameStack(ll.cs, nn.cs)
  <2>1. Len(mm.cs) = Len(ll.cs) /\ Len(nn.cs) = Len(ll.cs)
    BY DEF Keeps, SameStack
  <2> SUFFICES ASSUME NEW i \in 1..Len(ll.cs)
               PROVE  Similar(ll.cs[i], nn.cs[i]) /\ (Holds(ll.cs[i]) => nn.cs[i].ci = ll.cs[i].ci)
    BY <2>1 DEF SameStack
  <2>2. /\ Similar(ll.cs[i], mm.cs[i]) /\ Similar(mm.cs[i], nn.cs[i])
        /\ Holds(ll.cs[i]) => mm.cs[i].ci = ll.cs[i].ci
        /\ Holds(mm.cs[i]) => nn.cs[i].ci = mm.cs[i].ci
    BY <2>1 DEF Keeps, SameStack
  <2>3. ll.cs[i] \in Activation /\ mm.cs[i] \in Activation /\ nn.cs[i] \in Activation
    BY <2>1 DEF Keeps, MachineType
  <2>4. Similar(ll.cs[i], nn.cs[i])
    BY <2>2 DEF Similar, Waits
  <2>5. Holds(ll.cs[i]) <=> Holds(mm.cs[i])
    BY <2>2, <2>3, SimilarFacts
  <2> QED
    BY <2>2, <2>4, <2>5
<1> QED
  BY <1>1, <1>2, <1>3 DEF Keeps

LEMMA KeepThread ==
  ASSUME NEW mm \in MachineType, mm.cs # <<>>, NEW h \in Threads, NEW x \in Thread,
         SameThread(mm.L[h], x), x.status = mm.L[h].status
  PROVE  Keeps(mm, [mm EXCEPT !.L[h] = x])
<1> DEFINE nn == [mm EXCEPT !.L[h] = x]
<1>1. nn \in MachineType /\ nn.cs = mm.cs /\ nn.ret = mm.ret /\ nn.L = [mm.L EXCEPT ![h] = x]
  BY DEF MachineType
<1>2. \A t \in Threads : nn.L[t] = IF t = h THEN x ELSE mm.L[t]
  BY <1>1, MachineFields
<1> HIDE DEF nn
<1>3. SameStack(mm.cs, nn.cs)
  <2>1. \A i \in 1..Len(mm.cs) : mm.cs[i] \in Activation
    BY DEF MachineType
  <2> QED
    BY <1>1, <2>1, SimilarSelf DEF SameStack
<1>4. Past(nn) = Past(mm)
  BY <1>1 DEF Past
<1>5. \A t \in Threads : SameThread(mm.L[t], nn.L[t]) /\ nn.L[t].status = mm.L[t].status
  BY <1>2 DEF SameThread, SameCalls
<1>6. Keeps(mm, nn)
  BY <1>1, <1>3, <1>4, <1>5 DEF Keeps
<1> QED
  BY <1>6 DEF nn

LEMMA KeepTop ==
  ASSUME NEW mm \in MachineType, mm.cs # <<>>, NEW h \in Threads, NEW n \in Int
  PROVE  Keeps(mm, SetTop(mm, h, n))
<1> DEFINE x == [mm.L[h] EXCEPT !.top = n]
<1>1. x \in Thread /\ SameThread(mm.L[h], x) /\ x.status = mm.L[h].status
  BY MachineFields DEF Thread, SameThread, SameCalls
<1>2. SetTop(mm, h, n) = [mm EXCEPT !.L[h] = x]
  BY DEF SetTop
<1> HIDE DEF x
<1> QED
  BY <1>1, <1>2, KeepThread

LEMMA KeepCI ==
  ASSUME NEW mm \in MachineType, mm.cs # <<>>, NEW h \in Threads, NEW k \in 1..Len(mm.L[h].ci), NEW c \in CallInfo,
         Afresh(c) <=> Afresh(mm.L[h].ci[k])
  PROVE  /\ Keeps(mm, [mm EXCEPT !.L[h].ci[k] = c])
         /\ [mm EXCEPT !.L[h].ci[k] = c].cs = mm.cs /\ [mm EXCEPT !.L[h].ci[k] = c].ret = mm.ret
         /\ [mm EXCEPT !.L[h].ci[k] = c].L[h].ci = [mm.L[h].ci EXCEPT ![k] = c]
         /\ [mm EXCEPT !.L[h].ci[k] = c].L[h].top = mm.L[h].top
<1> DEFINE y == [mm.L[h].ci EXCEPT ![k] = c]
           x == [mm.L[h] EXCEPT !.ci = y]
           nn == [mm EXCEPT !.L[h] = x]
<1>1. mm.L[h].ci \in Seq(CallInfo) /\ mm.L[h] \in Thread /\ mm.L \in [Threads -> Thread]
  BY MachineFields
<1>2. y \in Seq(CallInfo) /\ SameCalls(mm.L[h].ci, y)
  BY <1>1 DEF SameCalls
<1> HIDE DEF y
<1>3. x \in Thread /\ x.errorJmp = mm.L[h].errorJmp /\ x.nny = mm.L[h].nny /\ x.status = mm.L[h].status /\ x.ci = y
      /\ x.top = mm.L[h].top
  BY <1>1, <1>2 DEF Thread
<1>4. SameThread(mm.L[h], x)
  BY <1>2, <1>3 DEF SameThread
<1> HIDE DEF x
<1>5. nn.cs = mm.cs /\ nn.ret = mm.ret /\ nn.L[h] = x
  BY <1>1, <1>3 DEF MachineType
<1>6. Keeps(mm, nn)
  BY <1>3, <1>4, KeepThread
<1>7. [mm EXCEPT !.L[h].ci[k] = c] = nn
  BY DEF x, y
<1> QED
  BY <1>3, <1>5, <1>6, <1>7 DEF y

LEMMA KeepAssert ==
  ASSUME NEW mm \in MachineType, mm.cs # <<>>, NEW b \in BOOLEAN
  PROVE  Keeps(mm, lua_assert(mm, b))
<1>1. \A i \in 1..Len(mm.cs) : Similar(mm.cs[i], mm.cs[i])
  BY SimilarSelf DEF MachineType
<1> QED
  BY <1>1, AssertFacts DEF Keeps, SameStack, SameThread, SameCalls, Past

LEMMA KeepActivation ==
  ASSUME NEW mm \in MachineType, mm.cs # <<>>, NEW g \in Activation, NEW nn, nn \in MachineType,
         nn.cs = [mm.cs EXCEPT ![Len(mm.cs)] = g], nn.L = mm.L,
         Similar(Last(mm.cs), g), Holds(g) => g.ci = Last(mm.cs).ci,
         nn.ret = mm.ret \/ g.op # "closethread"
  PROVE  Keeps(mm, nn) /\ Last(nn.cs) = g
<1> DEFINE n == Len(mm.cs)
<1>1. mm.cs \in Seq(Activation) /\ n \in Nat /\ n >= 1 /\ Last(mm.cs) = mm.cs[n] /\ \A i \in 1..n : mm.cs[i] \in Activation
  BY LastFacts DEF MachineType
<1>2. Len(nn.cs) = n /\ nn.cs[n] = g /\ \A i \in 1..n : i # n => nn.cs[i] = mm.cs[i]
  BY <1>1
<1>3. Last(nn.cs) = g
  BY <1>1, <1>2 DEF Last
<1>4. mm.cs[n] \in Activation /\ Similar(mm.cs[n], g)
  BY <1>1
<1>5. (mm.cs[n].op = "closethread" <=> g.op = "closethread") /\ (Holds(mm.cs[n]) <=> Holds(g))
  BY <1>4, SimilarFacts
<1>6. Past(nn) = Past(mm)
  BY <1>1, <1>2, <1>3, <1>5 DEF Past
<1>7. SameStack(mm.cs, nn.cs)
  <2> SUFFICES ASSUME NEW i \in 1..n PROVE Similar(mm.cs[i], nn.cs[i]) /\ (Holds(mm.cs[i]) => nn.cs[i].ci = mm.cs[i].ci)
    BY <1>2 DEF SameStack
  <2>1. CASE i = n
    BY <1>1, <1>2, <1>5, <2>1
  <2>2. CASE i # n
    BY <1>1, <1>2, <2>2, SimilarSelf
  <2> QED
    BY <2>1, <2>2
<1>8. \A t \in Threads : SameThread(mm.L[t], nn.L[t]) /\ nn.L[t].status = mm.L[t].status
  BY DEF SameThread, SameCalls
<1> QED
  BY <1>3, <1>6, <1>7, <1>8 DEF Keeps

----------------------------------------------------------------------------
(* A machine between two steps of an action.                               *)

Good(mm) == Core(mm) /\ Settled(mm)
(* The activation on top may call and fail in the thread h.                *)
Works(mm, h) ==
  /\ Good(mm)
  /\ LET a == Last(mm.cs) IN a.th = h /\ MayFail(a) /\ ~Waits(a)
Free(a) == ~(a.op = "close" /\ ~a.yy)

LEMMA GoodSound ==
  ASSUME NEW mm, Good(mm), Recoverable(mm)
  PROVE  Sound(mm)
  BY DEF Good, Sound, Settled, Awake

LEMMA WorksFacts ==
  ASSUME NEW mm, NEW h, Works(mm, h)
  PROVE  LET n == Len(mm.cs)
         IN /\ Core(mm) /\ Settled(mm) /\ mm \in MachineType /\ h \in Threads /\ mm.cs # <<>>
            /\ n \in Nat /\ n >= 1 /\ mm.cs \in Seq(Activation) /\ Last(mm.cs) = mm.cs[n] /\ Last(mm.cs) \in Activation
            /\ Last(mm.cs).th = h /\ MayFail(Last(mm.cs)) /\ ~Waits(Last(mm.cs)) /\ Called(Last(mm.cs)) = h
            /\ Past(mm) = n + 1 /\ Present(mm.cs, h) /\ mm.L[h].status = "ok"
            /\ \E j \in 1..n : mm.cs[j].op = "try" /\ mm.cs[j].th = h
<1> DEFINE n == Len(mm.cs)
<1>1. /\ Core(mm) /\ Settled(mm) /\ mm \in MachineType /\ mm.cs # <<>>
      /\ n \in Nat /\ n >= 1 /\ mm.cs \in Seq(Activation) /\ Last(mm.cs) = mm.cs[n] /\ Last(mm.cs) \in Activation
      /\ Last(mm.cs).th = h /\ MayFail(Last(mm.cs)) /\ ~Waits(Last(mm.cs)) /\ Stacked(mm.cs)
  BY CoreFacts DEF Works, Good
<1>2. h \in Threads
  BY <1>1, ActivationFields
<1>3. Called(Last(mm.cs)) = h
  BY <1>1 DEF Called
<1>4. Past(mm) = n + 1
  BY <1>1, CoreFacts DEF Waits
<1>5. Present(mm.cs, h) /\ mm.L[h].status = "ok"
  BY <1>1, <1>2 DEF Present, Settled
<1>6. \E j \in 1..n : mm.cs[j].op = "try" /\ mm.cs[j].th = h
  <2>1. \E j \in 1..n-1 : mm.cs[j].op = "try" /\ mm.cs[j].th = mm.cs[n].th
    BY <1>1 DEF Stacked, Caught
  <2> QED
    BY <1>1, <2>1
<1> QED
  BY <1>1, <1>2, <1>3, <1>4, <1>5, <1>6

LEMMA KeepsWorks ==
  ASSUME NEW mm, NEW h, Works(mm, h), NEW nn, Keeps(mm, nn)
  PROVE  /\ Works(nn, h)
         /\ Free(Last(mm.cs)) => Free(Last(nn.cs))
         /\ \A op \in {"execute", "ccall", "close", "errormsg"} : Last(mm.cs).op = op => Last(nn.cs).op = op
<1>1. /\ Core(mm) /\ Settled(mm) /\ Last(mm.cs) \in Activation
      /\ Last(mm.cs).th = h /\ MayFail(Last(mm.cs)) /\ ~Waits(Last(mm.cs))
  BY WorksFacts
<1>2. Core(nn) /\ Settled(nn) /\ Similar(Last(mm.cs), Last(nn.cs)) /\ Last(nn.cs) \in Activation
  BY <1>1, KeepsFacts
<1>3. /\ Last(nn.cs).th = h /\ MayFail(Last(nn.cs)) /\ ~Waits(Last(nn.cs))
      /\ \A op \in {"execute", "ccall", "close", "errormsg"} : Last(mm.cs).op = op <=> Last(nn.cs).op = op
      /\ Last(mm.cs).op = "close" => Last(nn.cs).yy = Last(mm.cs).yy
  BY <1>1, <1>2, SimilarFacts
<1> QED
  BY <1>2, <1>3 DEF Works, Good, Free

LEMMA CalledGood ==
  ASSUME NEW mm, Good(mm), Past(mm) = Len(mm.cs) + 1, NEW nn, NEW g \in Activation, MayJoin(mm, g), CallsOn(mm, nn, g),
         \A t \in Threads : nn.L[t].status = mm.L[t].status,
         mm.L[g.th].status = "ok"
  PROVE  /\ Good(nn) /\ Sound(nn) /\ Last(nn.cs) = g /\ nn.cs = Append(mm.cs, g) /\ nn \in MachineType
         /\ MayFail(g) /\ ~Waits(g) => Works(nn, g.th)
<1>1. Core(mm) /\ Settled(mm) /\ mm.cs \in Seq(Activation)
  BY CoreFacts DEF Good
<1>2. Core(nn)
  BY <1>1, CallCore
<1>3. nn.cs = Append(mm.cs, g) /\ nn.ret = "go" /\ nn \in MachineType
  BY DEF CallsOn
<1>4. Last(nn.cs) = g
  <2>1. Len(nn.cs) = Len(mm.cs) + 1 /\ nn.cs[Len(mm.cs) + 1] = g
    BY <1>1, <1>3, AppendFacts
  <2> QED
    BY <2>1 DEF Last
<1>5. \A t \in Threads : Present(nn.cs, t) => Present(mm.cs, t) \/ t = g.th
  BY <1>1, <1>3, JoinFacts DEF MayJoin, Core
<1>6. \A t \in Threads : Len(nn.L[t].ci) = Len(mm.L[t].ci)
  BY DEF CallsOn, SameCalls
<1>7. Settled(nn)
  BY <1>1, <1>5, <1>6 DEF Settled
<1>8. Recoverable(nn)
  BY <1>3 DEF Recoverable, Errors
<1> QED
  BY <1>2, <1>3, <1>4, <1>7, <1>8, GoodSound DEF Good, Works

(* A call in the thread that works.                                        *)
LEMMA WorksJoins ==
  ASSUME NEW mm, NEW h, Works(mm, h), NEW g \in Activation, g.th = h,
         g.op \in {"execute", "cfunc", "poscall", "finishCcall", "ccall", "close", "errormsg"},
         Free(Last(mm.cs)) \/ (g.op = "ccall" /\ g.n = 1)
  PROVE  Joins(mm.cs, g) /\ Present(mm.cs, g.th) /\ mm.cs[Len(mm.cs)].op # "closethread" /\ ~Crosses(g) /\ MayFail(g) /\ ~Waits(g)
<1> DEFINE a == Last(mm.cs)
<1>1. /\ a = mm.cs[Len(mm.cs)] /\ a.th = h /\ MayFail(a) /\ ~Waits(a) /\ Called(a) = h /\ Present(mm.cs, h)
      /\ \E j \in 1..Len(mm.cs) : mm.cs[j].op = "try" /\ mm.cs[j].th = h
  BY WorksFacts
<1>2. a.op \notin {"host", "pcall", "closep", "try", "resumed", "closethread"}
  BY <1>1 DEF MayFail, Waits
<1>3. MayCall(a, g)
  BY <1>1, <1>2 DEF MayCall, Free, Unyieldable
<1>4. ~Crosses(g) /\ MayFail(g) /\ ~Waits(g) /\ g.op # "try"
  BY DEF Crosses, MayFail, Waits
<1> QED
  BY <1>1, <1>2, <1>3, <1>4 DEF Joins

LEMMA ErrorWorks ==
  ASSUME NEW mm, NEW h, Works(mm, h), Free(Last(mm.cs))
  PROVE  Sound(luaG_errormsg(mm, h))
<1> DEFINE g == [op |-> "errormsg", th |-> h, pc |-> "start"]
           nn == Push(mm, g)
<1>1. mm \in MachineType /\ h \in Threads /\ Good(mm) /\ Past(mm) = Len(mm.cs) + 1 /\ mm.L[h].status = "ok"
  BY WorksFacts DEF Works
<1>2. g \in Activation
  BY <1>1 DEF Activation, Places
<1>3. g.th = h /\ g.op = "errormsg" /\ ~Holds(g)
  BY DEF Holds, Owns
<1> HIDE DEF g
<1>4. nn \in MachineType /\ nn.cs = Append(mm.cs, g) /\ nn.ret = "go" /\ nn.L = mm.L
  BY <1>1, <1>2, PushFacts
<1> HIDE DEF nn
<1>5. MayJoin(mm, g)
  BY <1>2, <1>3, WorksJoins DEF MayJoin, Holds
<1>6. CallsOn(mm, nn, g)
  BY <1>3, <1>4 DEF CallsOn, SameCalls
<1>7. Sound(nn)
  BY <1>1, <1>2, <1>3, <1>4, <1>5, <1>6, CalledGood
<1> QED
  BY <1>7 DEF luaG_errormsg, nn, g

(* longjmp: what the thread that failed knows of itself.                   *)
LEMMA ThrowsCore ==
  ASSUME NEW mm, Core(mm), NEW h, NEW p, NEW j, MayThrow(mm, h, p, j), MayLeave(mm, h, p, j),
         NEW jumps \in Seq(Nat), Len(jumps) = j - 1, \A i \in 1..j-1 : jumps[i] = mm.L[h].errorJmp[i],
         NEW status \in Results
  PROVE  LET nn == throwTo(mm, h, p, jumps, status)
         IN /\ Core(nn) /\ nn.ret = status /\ nn.cs = SubSeq(mm.cs, 1, p - 1) /\ p - 1 \in 1..Len(mm.cs)
            /\ Last(nn.cs) = mm.cs[p - 1]
            /\ \A t \in Threads : Present(nn.cs, t) => Present(mm.cs, t)
            /\ Last(nn.cs).op = "resumed" => Last(nn.cs).co = h /\ nn.L[h].nny = 0 /\ ~Present(nn.cs, h)
            /\ \A t \in Threads : nn.L[t].status = mm.L[t].status /\ nn.L[t].ci = mm.L[t].ci
<1> DEFINE nn == throwTo(mm, h, p, jumps, status)
<1>1. /\ mm \in MachineType /\ h \in Threads /\ mm.cs \in Seq(Activation) /\ Stacked(mm.cs) /\ Jumps(mm)
      /\ Last(mm.cs) = mm.cs[Len(mm.cs)] /\ Last(mm.cs).th = h
  BY CoreFacts DEF MayThrow, Core
<1>2. IsTry(mm.cs, h, p)
  BY <1>1 DEF MayThrow, Jumps, JumpsOf
<1>3. p \in 1..Len(mm.cs) /\ mm.cs[p].op = "try"
  BY <1>2 DEF IsTry
<1>4. status \in Statuses /\ status # "go"
  BY DEF Statuses, Results, Errors
<1>5. /\ nn \in MachineType /\ nn.cs = SubSeq(mm.cs, 1, p - 1) /\ nn.ret = status /\ Others(mm, nn, h)
      /\ nn.L[h].errorJmp = jumps /\ nn.L[h].nny = mm.cs[p].nny /\ nn.L[h].ci = mm.L[h].ci
      /\ nn.L[h].status = mm.L[h].status
  BY <1>1, <1>3, <1>4, ThrowFacts
<1> HIDE DEF nn
<1>8. \A t \in Threads : nn.L[t].status = mm.L[t].status /\ nn.L[t].ci = mm.L[t].ci
  BY <1>5 DEF Others
<1>9. ThrowsTo(mm, nn, h, p, j)
  <2>1. \A t \in Threads : SameCalls(mm.L[t].ci, nn.L[t].ci)
    BY <1>8 DEF SameCalls
  <2>2. \A t \in Threads \ {h} : nn.L[t].errorJmp = mm.L[t].errorJmp /\ nn.L[t].nny = mm.L[t].nny
    BY <1>5 DEF Others
  <2> QED
    BY <1>4, <1>5, <2>1, <2>2 DEF ThrowsTo
<1>10. /\ Core(nn)
       /\ \A t \in Threads : Present(nn.cs, t) => Present(mm.cs, t)
       /\ Last(nn.cs).op = "resumed" => Last(nn.cs).co = h /\ nn.L[h].nny = 0 /\ ~Present(nn.cs, h)
  BY <1>9, ThrowCore
<1>11. p - 1 \in 1..Len(mm.cs)
  BY <1>1, <1>2, OnlyOne
<1>12. Last(nn.cs) = mm.cs[p - 1]
  <2> DEFINE q == p - 1
  <2>1. q \in 1..q /\ q \in 0..Len(mm.cs)
    BY <1>3, <1>11
  <2> HIDE DEF q
  <2>2. Len(SubSeq(mm.cs, 1, q)) = q /\ SubSeq(mm.cs, 1, q)[q] = mm.cs[q]
    BY <1>1, <2>1, CutFacts
  <2> QED
    BY <1>5, <2>2 DEF Last, q
<1> QED
  BY <1>5, <1>8, <1>10, <1>11, <1>12 DEF nn

(* The last setjmp of the thread that works.                               *)
LEMMA LastJump ==
  ASSUME NEW mm, NEW h, Works(mm, h)
  PROVE  LET jumps == mm.L[h].errorJmp
             p == Last(jumps)
         IN /\ jumps \in Seq(Nat) /\ jumps # <<>> /\ Len(jumps) \in Nat /\ Len(jumps) >= 1 /\ p = jumps[Len(jumps)]
            /\ IsTry(mm.cs, h, p) /\ p \in 1..Len(mm.cs)
            /\ \A i \in p+1..Len(mm.cs) : ~IsTry(mm.cs, h, i)
            /\ MayThrow(mm, h, p, Len(jumps))
            /\ \A i \in p..Len(mm.cs) : mm.cs[i].op # "closethread"
            /\ Front(jumps) \in Seq(Nat) /\ Len(Front(jumps)) = Len(jumps) - 1
            /\ \A i \in 1..Len(jumps)-1 : Front(jumps)[i] = jumps[i]
<1> DEFINE jumps == mm.L[h].errorJmp
           n == Len(mm.cs)
<1>1. /\ mm \in MachineType /\ h \in Threads
      /\ n \in Nat /\ n >= 1 /\ mm.cs \in Seq(Activation) /\ Last(mm.cs) = mm.cs[n]
      /\ Last(mm.cs).th = h /\ MayFail(Last(mm.cs)) /\ ~Waits(Last(mm.cs)) /\ Called(Last(mm.cs)) = h
      /\ Past(mm) = n + 1
      /\ \E i \in 1..n : mm.cs[i].op = "try" /\ mm.cs[i].th = h
      /\ Stacked(mm.cs) /\ JumpsOf(mm.cs, h, jumps)
  BY WorksFacts DEF Core, Jumps
<1>2. jumps \in Seq(Nat)
  BY <1>1, MachineFields
<1> HIDE DEF jumps
<1>3. jumps # <<>> /\ Len(jumps) \in Nat /\ Len(jumps) >= 1
  <2>1. PICK i \in 1..n : IsTry(mm.cs, h, i)
    BY <1>1 DEF IsTry
  <2>2. \E a \in 1..Len(jumps) : jumps[a] = i
    BY <1>1, <2>1 DEF JumpsOf
  <2> QED
    BY <1>2, <2>2
<1>4. /\ Last(jumps) = jumps[Len(jumps)] /\ Front(jumps) \in Seq(Nat) /\ Len(Front(jumps)) = Len(jumps) - 1
      /\ \A i \in 1..Len(jumps)-1 : Front(jumps)[i] = jumps[i]
  BY <1>2, <1>3, LastFacts
<1> DEFINE p == Last(jumps)
<1>5. IsTry(mm.cs, h, p) /\ p \in 1..n
  BY <1>1, <1>3, <1>4 DEF JumpsOf, IsTry
<1>6. p = jumps[Len(jumps)]
  BY <1>4
<1> HIDE DEF p
<1>7. \A i \in p+1..n : ~IsTry(mm.cs, h, i)
  <2> SUFFICES ASSUME NEW i \in p+1..n, IsTry(mm.cs, h, i) PROVE FALSE
    OBVIOUS
  <2>1. PICK a \in 1..Len(jumps) : jumps[a] = i
    BY <1>1, <1>5 DEF JumpsOf
  <2>2. a = Len(jumps) \/ a < Len(jumps)
    BY <1>3
  <2>3. a < Len(jumps) => i < p
    BY <1>1, <1>3, <1>6, <2>1 DEF JumpsOf
  <2> QED
    BY <1>5, <1>6, <2>1, <2>2, <2>3
<1>8. MayThrow(mm, h, p, Len(jumps))
  BY <1>1, <1>3, <1>6 DEF MayThrow, jumps
<1>9. \A i \in p..n : mm.cs[i].op # "closethread"
  <2>1. mm.cs[n].th = h /\ mm.cs[n].op \notin {"closethread", "closep"}
    BY <1>1 DEF MayFail, Waits
  <2> QED
    BY <1>1, <1>5, <1>7, <2>1, NothingClosing
<1> QED
  BY <1>2, <1>3, <1>4, <1>5, <1>6, <1>7, <1>8, <1>9 DEF jumps, p

(* An error that is raised without a message handler.                      *)
LEMMA ThrowWorks ==
  ASSUME NEW mm, NEW h, Works(mm, h), NEW status \in Results
  PROVE  Sound(luaD_throw(mm, h, status))
<1> DEFINE jumps == mm.L[h].errorJmp
           front == Front(jumps)
           p == Last(jumps)
           nn == throwTo(mm, h, p, front, status)
<1>1. /\ MayThrow(mm, h, p, Len(jumps)) /\ \A i \in p..Len(mm.cs) : mm.cs[i].op # "closethread"
      /\ front \in Seq(Nat) /\ Len(front) = Len(jumps) - 1 /\ \A i \in 1..Len(jumps)-1 : front[i] = mm.L[h].errorJmp[i]
  BY LastJump
<1>2. luaD_throw(mm, h, status) = nn
  BY DEF luaD_throw
<1> HIDE DEF p, front
<1>3. MayLeave(mm, h, p, Len(jumps))
  BY <1>1 DEF MayLeave
<1>4. Core(mm) /\ Settled(mm) /\ h \in Threads /\ mm.L[h].status = "ok"
  BY WorksFacts
<1> DEFINE j == Len(jumps)
<1>5. MayThrow(mm, h, p, j) /\ MayLeave(mm, h, p, j) /\ Len(front) = j - 1 /\ \A i \in 1..j-1 : front[i] = mm.L[h].errorJmp[i]
  BY <1>1, <1>3
<1> HIDE DEF j
<1>6. /\ Core(nn)
      /\ \A t \in Threads : Present(nn.cs, t) => Present(mm.cs, t)
      /\ Last(nn.cs).op = "resumed" => Last(nn.cs).co = h /\ nn.L[h].nny = 0
      /\ \A t \in Threads : nn.L[t].status = mm.L[t].status /\ nn.L[t].ci = mm.L[t].ci
  BY <1>1, <1>4, <1>5, ThrowsCore
<1> HIDE DEF nn
<1>7. Settled(nn)
  BY <1>4, <1>6 DEF Settled
<1>8. Recoverable(nn)
  BY <1>4, <1>6 DEF Recoverable
<1> QED
  BY <1>2, <1>6, <1>7, <1>8, GoodSound DEF Good

----------------------------------------------------------------------------
(* Calls.                                                                  *)

LEMMA GrowWorks ==
  ASSUME NEW mm, NEW h, Works(mm, h), NEW c \in CallInfo, Afresh(c) \/ Len(mm.L[h].ci) >= 2
  PROVE  LET nn == PushCI(mm, h, c)
         IN Works(nn, h) /\ Last(nn.cs) = Last(mm.cs) /\ \A t \in Threads : nn.L[t].status = mm.L[t].status
<1> DEFINE nn == PushCI(mm, h, c)
<1>1. Core(mm) /\ Settled(mm) /\ h \in Threads /\ Last(mm.cs).th = h /\ MayFail(Last(mm.cs)) /\ ~Waits(Last(mm.cs))
  BY WorksFacts
<1>2. /\ Core(nn) /\ nn.cs = mm.cs /\ Others(mm, nn, h) /\ nn.L[h].status = mm.L[h].status
      /\ Len(nn.L[h].ci) = Len(mm.L[h].ci) + 1 /\ Len(mm.L[h].ci) \in Nat /\ Len(mm.L[h].ci) >= 1
  BY <1>1, GrowCore
<1> HIDE DEF nn
<1>3. \A t \in Threads : nn.L[t].status = mm.L[t].status /\ (Len(mm.L[t].ci) >= 2 => Len(nn.L[t].ci) >= 2)
  BY <1>2 DEF Others
<1>4. Settled(nn)
  BY <1>1, <1>2, <1>3 DEF Settled
<1> QED
  BY <1>1, <1>2, <1>3, <1>4 DEF Works, Good, nn

LEMMA FreshWorks ==
  ASSUME NEW mm, NEW h, Works(mm, h), Free(Last(mm.cs)), NEW c \in CallInfo, Afresh(c), NEW g \in Activation,
         g.th = h, g.op \in {"execute", "cfunc"}, g.ci = Len(mm.L[h].ci) + 1
  PROVE  Sound(Push(PushCI(mm, h, c), g))
<1> DEFINE ll == PushCI(mm, h, c)
           nn == Push(ll, g)
<1>1. Core(mm) /\ h \in Threads
  BY WorksFacts
<1>2. /\ Core(ll) /\ ll.cs = mm.cs /\ Len(ll.L[h].ci) = Len(mm.L[h].ci) + 1 /\ Len(mm.L[h].ci) \in Nat
      /\ Len(mm.L[h].ci) >= 1 /\ ll.L[h].ci[Len(mm.L[h].ci) + 1] = c
      /\ HeldBy(ll, h) = HeldBy(mm, h) /\ \A i \in HeldBy(mm, h) : mm.cs[i].ci \in 1..Len(mm.L[h].ci)
  BY <1>1, GrowCore
<1>3. Works(ll, h) /\ Last(ll.cs) = Last(mm.cs)
  BY GrowWorks
<1> HIDE DEF ll
<1>4. ll \in MachineType /\ Good(ll) /\ Past(ll) = Len(ll.cs) + 1 /\ ll.L[h].status = "ok"
  BY <1>3, WorksFacts DEF Works
<1>5. nn \in MachineType /\ nn.cs = Append(ll.cs, g) /\ nn.ret = "go" /\ nn.L = ll.L
  BY <1>4, PushFacts
<1> HIDE DEF nn
<1>6. MayJoin(ll, g)
  <2>1. Joins(ll.cs, g) /\ Present(ll.cs, g.th) /\ ll.cs[Len(ll.cs)].op # "closethread" /\ ~Crosses(g)
    BY <1>3, WorksJoins
  <2>2. Len(ll.L[h].ci) >= 2
    BY <1>2
  <2>3. ASSUME NEW i \in HeldBy(ll, h)
        PROVE  \E k \in ll.cs[i].ci+1..Len(ll.L[h].ci) : Afresh(ll.L[h].ci[k])
    <3>1. ll.cs[i].ci \in 1..Len(mm.L[h].ci)
      BY <1>2
    <3>2. Len(ll.L[h].ci) \in ll.cs[i].ci+1..Len(ll.L[h].ci)
      BY <1>2, <3>1
    <3> QED
      BY <1>2, <3>2
  <2> QED
    BY <1>2, <2>1, <2>2, <2>3 DEF MayJoin
<1>7. CallsOn(ll, nn, g)
  BY <1>5 DEF CallsOn, SameCalls
<1> QED
  BY <1>4, <1>5, <1>6, <1>7, CalledGood DEF nn, ll

LEMMA ReuseWorks ==
  ASSUME NEW mm, NEW h, Works(mm, h), Last(mm.cs).op = "execute", NEW c \in CallInfo
  PROVE  Sound(At(PushCI(mm, h, c), execute(h, Len(mm.L[h].ci) + 1)))
<1> DEFINE ll == PushCI(mm, h, c)
           n == Len(mm.cs)
           k0 == Len(mm.L[h].ci)
           d == k0 + 1
           g == execute(h, d)
           nn == At(ll, g)
<1>1. /\ Core(mm) /\ h \in Threads /\ n \in Nat /\ n >= 1 /\ Last(mm.cs) = mm.cs[n] /\ Last(mm.cs).th = h
      /\ Past(mm) = n + 1 /\ Last(mm.cs) \in Activation
  BY WorksFacts
<1>2. n \in HeldBy(mm, h) /\ Owns(mm.cs[n]) /\ mm.cs[n].op = "execute" /\ mm.cs[n].ci \in Nat
  <2>1. n \in 1..n /\ \A j \in n..Past(mm)-1 : j = n
    BY <1>1
  <2>2. mm.cs[n].op = "execute" /\ Owns(mm.cs[n]) /\ Holds(mm.cs[n])
    BY <1>1 DEF Owns, Holds
  <2>3. \A j \in n..Past(mm)-1 : ~ResetsOf(mm.cs[j], h)
    BY <2>1, <2>2 DEF ResetsOf
  <2> QED
    BY <1>1, <2>1, <2>2, <2>3, ActivationFields DEF HeldBy, Lives
<1>3. DepthOf(mm, h, mm.L[h].ci) /\ k0 \in Nat
  BY <1>1, MachineFields, CoreFacts DEF Core, Depth
<1>4. mm.cs[n].ci \in 2..k0
  BY <1>2, <1>3 DEF DepthOf
<1>5. /\ Core(ll) /\ ll.cs = mm.cs /\ Len(ll.L[h].ci) = k0 + 1 /\ ll.L[h].ci[k0 + 1] = c
      /\ HeldBy(ll, h) = HeldBy(mm, h) /\ \A i \in HeldBy(mm, h) : mm.cs[i].ci \in 1..k0
      /\ \A i \in 1..k0 : ll.L[h].ci[i] = mm.L[h].ci[i]
  <2>1. Len(mm.L[h].ci) >= 2
    BY <1>3, <1>4
  <2> QED
    BY <1>1, <2>1, GrowCore
<1>6. Works(ll, h) /\ Last(ll.cs) = Last(mm.cs)
  <2>1. Len(mm.L[h].ci) >= 2
    BY <1>3, <1>4
  <2> QED
    BY <2>1, GrowWorks
<1> HIDE DEF ll, k0
<1>7. ll \in MachineType /\ Settled(ll) /\ ll.cs # <<>> /\ ll.cs \in Seq(Activation)
  BY <1>6, WorksFacts
<1>8. g \in Activation /\ g.op = "execute" /\ g.th = h
  BY <1>1, <1>3 DEF execute, Activation
<1> HIDE DEF g
<1>9. nn \in MachineType /\ nn.cs = [ll.cs EXCEPT ![Len(ll.cs)] = g] /\ nn.ret = "go" /\ nn.L = ll.L
  BY <1>7, <1>8, AtFacts
<1> HIDE DEF nn
<1>10. ASSUME NEW i \in HeldBy(ll, h), i < Len(ll.cs)
       PROVE  \E k \in ll.cs[i].ci+1..d : Afresh(ll.L[h].ci[k])
  <2>1. i \in HeldBy(mm, h) /\ i < n
    BY <1>5, <1>10
  <2>2. PICK k \in mm.cs[i].ci+1..mm.cs[n].ci : Afresh(mm.L[h].ci[k])
    BY <1>2, <1>3, <2>1 DEF DepthOf
  <2>3. mm.cs[i].ci \in 1..k0
    BY <1>5, <2>1
  <2>4. k \in 1..k0 /\ k \in mm.cs[i].ci+1..d
    BY <1>3, <1>4, <2>2, <2>3
  <2> QED
    BY <1>5, <2>2, <2>4
<1>11. Core(nn)
  <2>1. d \in 2..Len(ll.L[h].ci)
    BY <1>3, <1>4, <1>5
  <2>2. Last(ll.cs).op = "execute" /\ Last(ll.cs).th = h
    BY <1>1, <1>6
  <2>3. nn.cs = [ll.cs EXCEPT ![Len(ll.cs)] = execute(h, d)]
    BY <1>9 DEF g
  <2> HIDE DEF d
  <2> QED
    BY <1>1, <1>5, <1>7, <1>9, <1>10, <2>1, <2>2, <2>3, MoveCore
<1>12. Settled(nn)
  <2>1. Len(ll.cs) = n /\ \A i \in 1..n : nn.cs[i].th = ll.cs[i].th
    <3>1. Len(ll.cs) = n /\ Last(ll.cs) = ll.cs[n]
      BY <1>1, <1>5
    <3> QED
      BY <1>1, <1>5, <1>7, <1>8, <1>9, <3>1
  <2>2. Len(nn.cs) = n
    BY <1>7, <1>9, <2>1
  <2>3. \A t \in Threads : Present(nn.cs, t) => Present(ll.cs, t)
    BY <2>1, <2>2 DEF Present
  <2> QED
    BY <1>7, <1>9, <2>3 DEF Settled
<1>13. Recoverable(nn)
  BY <1>9 DEF Recoverable, Errors
<1> QED
  BY <1>11, <1>12, <1>13, GoodSound DEF Good, nn, g, ll, k0

LEMMA GrowstackWorks ==
  ASSUME NEW mm, NEW h, Works(mm, h), Free(Last(mm.cs))
  PROVE  Sound(growstack(mm, h))
<1> DEFINE x == [mm.L[h] EXCEPT !.over = TRUE]
           nn == [mm EXCEPT !.L[h] = x]
<1>1. mm \in MachineType /\ mm.cs # <<>> /\ h \in Threads /\ mm.L[h] \in Thread
  BY WorksFacts, MachineFields
<1>2. x \in Thread /\ SameThread(mm.L[h], x) /\ x.status = mm.L[h].status
  BY <1>1 DEF Thread, SameThread, SameCalls
<1>3. [mm EXCEPT !.L[h].over = TRUE] = nn
  OBVIOUS
<1> HIDE DEF x
<1>4. Keeps(mm, nn)
  BY <1>1, <1>2, KeepThread
<1> HIDE DEF nn
<1>5. Works(nn, h) /\ Free(Last(nn.cs))
  BY <1>4, KeepsWorks
<1>6. Sound(luaG_errormsg(nn, h))
  BY <1>5, ErrorWorks
<1>7. Sound(luaD_errerr(mm, h))
  BY ThrowWorks DEF luaD_errerr, Results, Errors
<1> QED
  BY <1>3, <1>6, <1>7 DEF growstack

LEMMA PushedLength ==
  ASSUME NEW mm \in MachineType, NEW h \in Threads, NEW c \in CallInfo
  PROVE  Len(PushCI(mm, h, c).L[h].ci) = Len(mm.L[h].ci) + 1
<1>1. mm.L \in [Threads -> Thread] /\ mm.L[h] \in Thread /\ mm.L[h].ci \in Seq(CallInfo)
  BY MachineFields
<1> DEFINE x == [mm.L[h] EXCEPT !.ci = Append(@, c)]
<1>2. x.ci = Append(mm.L[h].ci, c)
  BY <1>1 DEF Thread
<1> HIDE DEF x
<1>3. PushCI(mm, h, c) = [mm EXCEPT !.L[h] = x]
  BY DEF PushCI, x
<1>4. PushCI(mm, h, c).L[h] = x
  BY <1>1, <1>3 DEF MachineType
<1> QED
  BY <1>1, <1>2, <1>4, AppendFacts

LEMMA PrecallWorks ==
  ASSUME NEW mm, NEW h, Works(mm, h), Free(Last(mm.cs)), NEW func \in Int, NEW fn \in FunctionNames, NEW fresh \in BOOLEAN,
         fresh \/ Last(mm.cs).op = "execute"
  PROVE  Sound(luaD_precall(mm, h, func, fn, fresh))
<1> DEFINE called == SetTop(mm, h, func + 1 + NArgs(fn))
<1>1. mm \in MachineType /\ mm.cs # <<>> /\ h \in Threads
  BY WorksFacts
<1>2. func + 1 + NArgs(fn) \in Int
  BY DEF NArgs
<1>3. Keeps(mm, called)
  BY <1>1, <1>2, KeepTop
<1> HIDE DEF called
<1>4. Works(called, h) /\ Free(Last(called.cs)) /\ (fresh \/ Last(called.cs).op = "execute")
  BY <1>3, KeepsWorks
<1>5. called \in MachineType /\ called.L[h].top \in Int /\ called.L[h].ci \in Seq(CallInfo) /\ Len(called.L[h].ci) \in Nat
  BY <1>1, <1>4, WorksFacts, MachineFields
<1>6. Sound(growstack(called, h))
  BY <1>4, GrowstackWorks
<1>7. Sound(precallLua(called, h, func, fresh))
  <2> DEFINE c == prepCallInfo("lua", func, func + 1 + FrameSize, fresh)
             g == execute(h, Len(called.L[h].ci) + 1)
  <2>1. c \in CallInfo /\ (fresh => Afresh(c))
    BY DEF prepCallInfo, CallInfo, FrameSize, FunctionNames, Statuses, Results, Afresh
  <2>2. g \in Activation /\ g.th = h /\ g.op = "execute" /\ g.ci = Len(called.L[h].ci) + 1
    BY <1>1, <1>5 DEF execute, Activation
  <2> HIDE DEF c
  <2>3. Len(PushCI(called, h, c).L[h].ci) = Len(called.L[h].ci) + 1
    BY <1>1, <1>5, <2>1, PushedLength
  <2>4. CASE fresh
    <3>1. Sound(Push(PushCI(called, h, c), g))
      <4> HIDE DEF g
      <4> QED
        BY <1>4, <2>1, <2>2, <2>4, FreshWorks
    <3> QED
      BY <2>3, <2>4, <3>1 DEF precallLua, c
  <2>5. CASE ~fresh
    <3>1. Sound(At(PushCI(called, h, c), g))
      BY <1>4, <2>1, <2>5, ReuseWorks
    <3> QED
      BY <2>3, <2>5, <3>1 DEF precallLua, c
  <2> QED
    BY <2>4, <2>5
<1>8. ASSUME fn # "lua" PROVE Sound(precallC(called, h, func, fn))
  <2> DEFINE c == prepCallInfo(fn, func, called.L[h].top + MinStack, FALSE)
             k == Len(called.L[h].ci) + 1
             g == [op |-> "cfunc", th |-> h, ci |-> k, pc |-> "start", co |-> h]
  <2>1. c \in CallInfo /\ Afresh(c)
    BY <1>5, <1>8 DEF prepCallInfo, CallInfo, MinStack, Statuses, Results, Afresh, isLua
  <2>2. g \in Activation /\ g.th = h /\ g.op = "cfunc" /\ g.ci = Len(called.L[h].ci) + 1
    <3>1. k \in Nat
      BY <1>5
    <3> QED
      BY <1>1, <3>1 DEF Activation, Places
  <2> HIDE DEF c
  <2>3. Len(PushCI(called, h, c).L[h].ci) = Len(called.L[h].ci) + 1
    BY <1>1, <1>5, <2>1, PushedLength
  <2>4. Sound(Push(PushCI(called, h, c), g))
    <3> HIDE DEF g
    <3> QED
      BY <1>4, <2>1, <2>2, FreshWorks
  <2> QED
    BY <2>3, <2>4 DEF precallC, c
<1> QED
  BY <1>6, <1>7, <1>8 DEF luaD_precall, called


LEMMA CcallGood ==
  ASSUME NEW mm, Good(mm), Past(mm) = Len(mm.cs) + 1, NEW h \in Threads, Present(mm.cs, h), mm.L[h].status = "ok",
         NEW func \in Int, NEW fn \in FunctionNames, NEW c \in Int, NEW n \in {0, 1},
         Joins(mm.cs, [op |-> "ccall", th |-> h, c |-> c, n |-> n]), mm.cs[Len(mm.cs)].op # "closethread"
  PROVE  Sound(ccall(mm, h, func, fn, c, n))
<1> DEFINE g == [op |-> "ccall", th |-> h, c |-> c, n |-> n]
           ll == Counted(mm, h, c, n)
           nn == Push(ll, g)
<1>1. mm \in MachineType
  BY CoreFacts DEF Good
<1>2. /\ g \in Activation /\ g.th = h /\ g.op = "ccall" /\ g.n = n /\ ~Holds(g) /\ ~Owns(g) /\ ~Crosses(g) /\ MayFail(g)
      /\ ~Waits(g) /\ Free(g)
  BY DEF Activation, Holds, Owns, Crosses, MayFail, Waits, Free
<1> HIDE DEF g
<1>3. /\ ll \in MachineType /\ ll.cs = mm.cs /\ Others(mm, ll, h)
      /\ ll.L[h].nny = mm.L[h].nny + n /\ ll.L[h].errorJmp = mm.L[h].errorJmp
      /\ ll.L[h].ci = mm.L[h].ci /\ ll.L[h].status = mm.L[h].status
  <2>1. n \in Int
    OBVIOUS
  <2> QED
    BY <1>1, <2>1, CountedFacts
<1> HIDE DEF ll
<1>4. nn \in MachineType /\ nn.cs = Append(mm.cs, g) /\ nn.ret = "go" /\ nn.L = ll.L
  BY <1>2, <1>3, PushFacts
<1> HIDE DEF nn
<1>5. MayJoin(mm, g)
  <2>1. Joins(mm.cs, g)
    BY DEF g
  <2> QED
    BY <1>2, <2>1 DEF MayJoin
<1>6. CallsOn(mm, nn, g)
  <2>1. \A t \in Threads \ {h} : nn.L[t] = mm.L[t]
    BY <1>3, <1>4 DEF Others
  <2>2. \A t \in Threads : SameCalls(mm.L[t].ci, nn.L[t].ci) /\ nn.L[t].errorJmp = mm.L[t].errorJmp
    BY <1>3, <1>4, <2>1 DEF SameCalls
  <2>3. nn.L[h].nny = mm.L[h].nny + g.n /\ \A t \in Threads : t # h => nn.L[t].nny = mm.L[t].nny
    BY <1>2, <1>3, <1>4, <2>1
  <2> QED
    BY <1>2, <1>4, <2>2, <2>3 DEF CallsOn
<1>7. \A t \in Threads : nn.L[t].status = mm.L[t].status
  BY <1>3, <1>4 DEF Others
<1>8. Works(nn, h) /\ Last(nn.cs) = g
  BY <1>2, <1>5, <1>6, <1>7, CalledGood
<1>9. Sound(luaG_errormsg(nn, h)) /\ Sound(luaD_precall(nn, h, func, fn, TRUE)) /\ Sound(luaD_errerr(nn, h))
  <2>1. Sound(luaG_errormsg(nn, h))
    BY <1>2, <1>8, ErrorWorks
  <2>2. Sound(luaD_precall(nn, h, func, fn, TRUE))
    BY <1>2, <1>8, PrecallWorks
  <2>3. Sound(luaD_errerr(nn, h))
    BY <1>8, ThrowWorks DEF luaD_errerr, Results, Errors
  <2> QED
    BY <2>1, <2>2, <2>3
<1>10. Sound(checkcstack(nn, h, func, fn))
  BY <1>9 DEF checkcstack
<1> QED
  BY <1>10 DEF ccall, nn, ll, g

LEMMA CcallWorks ==
  ASSUME NEW mm, NEW h, Works(mm, h), NEW func \in Int, NEW fn \in FunctionNames, NEW c \in Int, NEW n \in {0, 1},
         Free(Last(mm.cs)) \/ n = 1
  PROVE  Sound(ccall(mm, h, func, fn, c, n))
<1> DEFINE g == [op |-> "ccall", th |-> h, c |-> c, n |-> n]
<1>1. h \in Threads /\ Good(mm) /\ Past(mm) = Len(mm.cs) + 1 /\ mm.L[h].status = "ok" /\ Present(mm.cs, h)
  BY WorksFacts DEF Works
<1>2. g \in Activation /\ g.th = h /\ g.op = "ccall" /\ g.n = n
  BY <1>1 DEF Activation
<1> HIDE DEF g
<1>3. Joins(mm.cs, g) /\ mm.cs[Len(mm.cs)].op # "closethread"
  BY <1>2, WorksJoins
<1> QED
  BY <1>1, <1>3, CcallGood DEF g

(* lfunc.c and luaD_closeprotected.                                        *)
LEMMA CloseGood ==
  ASSUME NEW mm, Good(mm), Past(mm) = Len(mm.cs) + 1, NEW h \in Threads, Present(mm.cs, h), mm.L[h].status = "ok",
         NEW level \in Int, NEW status \in Statuses, NEW yy \in BOOLEAN,
         Joins(mm.cs, [op |-> "close", th |-> h, level |-> level, status |-> status, yy |-> yy]),
         mm.cs[Len(mm.cs)].op # "closethread"
  PROVE  Sound(luaF_close(mm, h, level, status, yy))
<1> DEFINE g == [op |-> "close", th |-> h, level |-> level, status |-> status, yy |-> yy]
           x == [mm.L[h] EXCEPT !.open = {l \in @ : l < level}]
           ll == [mm EXCEPT !.L[h] = x]
           nn == Push(ll, g)
<1>1. mm \in MachineType /\ mm.cs # <<>> /\ mm.L[h] \in Thread /\ mm.L[h].open \in SUBSET Int /\ mm.L \in [Threads -> Thread]
  BY CoreFacts, MachineFields DEF Good
<1>2. /\ g \in Activation /\ g.th = h /\ g.op = "close" /\ ~Holds(g) /\ ~Owns(g) /\ ~Crosses(g) /\ MayFail(g)
      /\ ~Waits(g)
  BY DEF Activation, Holds, Owns, Crosses, MayFail, Waits
<1> HIDE DEF g
<1>3. x \in Thread /\ x.errorJmp = mm.L[h].errorJmp /\ x.nny = mm.L[h].nny /\ x.ci = mm.L[h].ci /\ x.status = mm.L[h].status
  BY <1>1 DEF Thread
<1>4. [mm EXCEPT !.L[h].open = {l \in @ : l < level}] = ll
  OBVIOUS
<1> HIDE DEF x
<1>5. ll \in MachineType /\ ll.cs = mm.cs /\ ll.L = [mm.L EXCEPT ![h] = x]
  BY <1>1, <1>3 DEF MachineType
<1> HIDE DEF ll
<1>6. nn \in MachineType /\ nn.cs = Append(mm.cs, g) /\ nn.ret = "go" /\ nn.L = [mm.L EXCEPT ![h] = x]
  BY <1>2, <1>5, PushFacts
<1> HIDE DEF nn
<1>7. \A t \in Threads : /\ nn.L[t].errorJmp = mm.L[t].errorJmp /\ nn.L[t].nny = mm.L[t].nny
                         /\ nn.L[t].ci = mm.L[t].ci /\ nn.L[t].status = mm.L[t].status
  BY <1>1, <1>3, <1>6
<1>8. MayJoin(mm, g)
  <2>1. Joins(mm.cs, g)
    BY DEF g
  <2> QED
    BY <1>2, <2>1 DEF MayJoin
<1>9. CallsOn(mm, nn, g)
  BY <1>2, <1>6, <1>7 DEF CallsOn, SameCalls
<1>10. Sound(nn)
  BY <1>2, <1>7, <1>8, <1>9, CalledGood
<1> QED
  BY <1>4, <1>10 DEF luaF_close, nn, g

LEMMA CloseWorks ==
  ASSUME NEW mm, NEW h, Works(mm, h), Free(Last(mm.cs)), NEW level \in Int, NEW status \in Statuses, NEW yy \in BOOLEAN
  PROVE  Sound(luaF_close(mm, h, level, status, yy))
<1> DEFINE g == [op |-> "close", th |-> h, level |-> level, status |-> status, yy |-> yy]
<1>1. h \in Threads /\ Good(mm) /\ Past(mm) = Len(mm.cs) + 1 /\ mm.L[h].status = "ok" /\ Present(mm.cs, h)
  BY WorksFacts DEF Works
<1>2. g \in Activation /\ g.th = h /\ g.op = "close"
  BY <1>1 DEF Activation
<1> HIDE DEF g
<1>3. Joins(mm.cs, g) /\ mm.cs[Len(mm.cs)].op # "closethread"
  BY <1>2, WorksJoins
<1> QED
  BY <1>1, <1>3, CloseGood DEF g

(* setjmp.                                                                 *)
LEMMA TryCore ==
  ASSUME NEW mm, Core(mm), Past(mm) = Len(mm.cs) + 1, NEW h \in Threads,
         Last(mm.cs).op \in {"resumed", "pcall", "closep"}, Called(Last(mm.cs)) = h,
         ~Present(mm.cs, h) => h # Main /\ mm.L[h].nny = 0
  PROVE  LET nn == rawrunprotected(mm, h)
             n == Len(mm.cs)
         IN /\ Core(nn) /\ nn.ret = "go" /\ Len(nn.cs) = n + 1 /\ n \in Nat /\ n >= 1
            /\ Last(nn.cs).op = "try" /\ Last(nn.cs).th = h /\ nn.cs[n + 1] = Last(nn.cs) /\ nn.cs[n] = Last(mm.cs)
            /\ Past(nn) = Len(nn.cs) + 1
            /\ \A t \in Threads : nn.L[t].status = mm.L[t].status /\ nn.L[t].ci = mm.L[t].ci /\ nn.L[t].nny = mm.L[t].nny
            /\ \A t \in Threads : Present(nn.cs, t) <=> Present(mm.cs, t) \/ t = h
<1> DEFINE nn == rawrunprotected(mm, h)
           n == Len(mm.cs)
           a == Last(mm.cs)
           g == [op |-> "try", th |-> h, nC |-> mm.L[h].nC, nny |-> mm.L[h].nny]
<1>1. /\ mm \in MachineType /\ mm.cs \in Seq(Activation) /\ n \in Nat /\ n >= 1 /\ a = mm.cs[n] /\ Stacked(mm.cs) /\ Counts(mm)
  BY CoreFacts DEF Core
<1>2. /\ nn \in MachineType /\ nn.cs = Append(mm.cs, g) /\ g \in Activation /\ nn.ret = "go" /\ Others(mm, nn, h)
      /\ nn.L[h].errorJmp = Append(mm.L[h].errorJmp, Len(mm.cs) + 1) /\ nn.L[h].nny = mm.L[h].nny
      /\ nn.L[h].ci = mm.L[h].ci /\ nn.L[h].status = mm.L[h].status
  BY <1>1, TryFacts
<1>3. g.op = "try" /\ g.th = h /\ g.nny = mm.L[h].nny /\ ~Holds(g) /\ ~Owns(g) /\ ~Crosses(g) /\ ~MayFail(g)
  BY DEF Holds, Owns, Crosses, MayFail
<1> HIDE DEF nn, g
<1>4. mm.L[h].nny = Unyielding(mm.cs, h, n + 1)
  <2>1. CASE Present(mm.cs, h)
    BY <1>1, <2>1 DEF Counts
  <2>2. CASE ~Present(mm.cs, h)
    <3>1. \A i \in 1..(n+1)-1 : mm.cs[i].th # h
      BY <1>1, <2>2 DEF Present
    <3>2. n + 1 \in 1..n+1
      BY <1>1
    <3> QED
      BY <1>1, <2>2, <3>1, <3>2, CountingAbsent
  <2> QED
    BY <2>1, <2>2
<1>5. Joins(mm.cs, g)
  <2>1. MayCall(a, g)
    BY <1>3 DEF MayCall
  <2> QED
    BY <1>1, <1>3, <1>4, <2>1 DEF Joins
<1>6. MayJoin(mm, g)
  BY <1>1, <1>3, <1>5 DEF MayJoin
<1>7. \A t \in Threads : nn.L[t].status = mm.L[t].status /\ nn.L[t].ci = mm.L[t].ci /\ nn.L[t].nny = mm.L[t].nny
  BY <1>2 DEF Others
<1>8. CallsOn(mm, nn, g)
  <2>1. \A t \in Threads : SameCalls(mm.L[t].ci, nn.L[t].ci)
    BY <1>7 DEF SameCalls
  <2>2. \A t \in Threads : t # h => nn.L[t].errorJmp = mm.L[t].errorJmp
    BY <1>2 DEF Others
  <2> QED
    BY <1>2, <1>3, <1>7, <2>1, <2>2 DEF CallsOn
<1>9. Core(nn)
  BY <1>2, <1>6, <1>8, CallCore
<1>10. Len(nn.cs) = n + 1 /\ nn.cs[n+1] = g /\ nn.cs[n] = a
  BY <1>1, <1>2, AppendFacts
<1>11. Last(nn.cs) = g
  BY <1>10 DEF Last
<1>12. Past(nn) = Len(nn.cs) + 1
  BY <1>3, <1>9, <1>11, CoreFacts
<1>13. \A t \in Threads : Present(nn.cs, t) <=> Present(mm.cs, t) \/ t = h
  BY <1>1, <1>2, <1>3, <1>5, JoinFacts
<1> QED
  BY <1>1, <1>2, <1>3, <1>7, <1>9, <1>10, <1>11, <1>12, <1>13 DEF nn

LEMMA ClosepGood ==
  ASSUME NEW mm, Good(mm), Past(mm) = Len(mm.cs) + 1, NEW h \in Threads, mm.L[h].status = "ok",
         Last(mm.cs).op \in {"host", "pcall", "closethread"}, Called(Last(mm.cs)) = h,
         ~Present(mm.cs, h) => h # Main /\ mm.L[h].nny = 0,
         Last(mm.cs).op = "closethread" => Len(mm.L[h].ci) = 1,
         NEW level \in Int, NEW status \in Results
  PROVE  Sound(closeprotected(mm, h, level, status))
<1> DEFINE k == Len(mm.L[h].ci)
           g == [op |-> "closep", th |-> h, level |-> level, status |-> status, ci |-> k, pc |-> "start"]
           nn == Push(mm, g)
<1>1. /\ mm \in MachineType /\ mm.cs \in Seq(Activation) /\ Last(mm.cs) = mm.cs[Len(mm.cs)] /\ k \in Nat
  BY CoreFacts, MachineFields DEF Good
<1>2. /\ g \in Activation /\ g.th = h /\ g.op = "closep" /\ g.ci = k /\ ~Owns(g) /\ ~Crosses(g) /\ ~MayFail(g)
  BY <1>1 DEF Activation, Places, Owns, Crosses, MayFail
<1> HIDE DEF g
<1>3. nn \in MachineType /\ nn.cs = Append(mm.cs, g) /\ nn.ret = "go" /\ nn.L = mm.L
  BY <1>1, <1>2, PushFacts
<1> HIDE DEF nn
<1>4. MayCall(Last(mm.cs), g)
  BY <1>2 DEF MayCall
<1>5. MayJoin(mm, g)
  BY <1>1, <1>2, <1>4 DEF MayJoin, Joins
<1>6. CallsOn(mm, nn, g)
  BY <1>2, <1>3 DEF CallsOn, SameCalls
<1>7. Sound(nn)
  BY <1>2, <1>3, <1>5, <1>6, CalledGood
<1> QED
  BY <1>7 DEF closeprotected, nn, g

LEMMA PcallGood ==
  ASSUME NEW mm, Good(mm), Past(mm) = Len(mm.cs) + 1, NEW h \in Threads, 
         Last(mm.cs).op \in {"host", "cfunc"}, Last(mm.cs).th = h,
         NEW func \in Int, NEW fn \in FunctionNames, NEW ef \in Int
  PROVE  Sound(luaD_pcall(mm, h, func, fn, ef))
<1> DEFINE n == Len(mm.cs)
           k == Len(mm.L[h].ci)
           e == mm.L[h].errfunc
           g == [op |-> "pcall", th |-> h, ci |-> k, errfunc |-> e, top |-> func, pc |-> "run", status |-> "ok"]
           x == [mm.L[h] EXCEPT !.errfunc = ef]
           ll == [mm EXCEPT !.L[h] = x]
           nn == Push(ll, g)
<1>1. /\ mm \in MachineType /\ mm.cs \in Seq(Activation) /\ Last(mm.cs) = mm.cs[n] /\ n \in Nat /\ n >= 1 /\ k \in Nat /\ e \in Int
      /\ mm.L[h] \in Thread /\ mm.L \in [Threads -> Thread]
  BY CoreFacts, MachineFields DEF Good
<1>2. /\ Present(mm.cs, h) /\ mm.L[h].status = "ok"
  BY <1>1 DEF Present, Good, Settled
<1>3. /\ g \in Activation /\ g.th = h /\ g.op = "pcall" /\ g.ci = k /\ ~Owns(g) /\ ~Crosses(g) /\ ~MayFail(g) /\ ~Waits(g)
  BY <1>1 DEF Activation, Places, Owns, Crosses, MayFail, Waits, Statuses, Results
<1> HIDE DEF g
<1>4. x \in Thread /\ x.errorJmp = mm.L[h].errorJmp /\ x.nny = mm.L[h].nny /\ x.ci = mm.L[h].ci /\ x.status = mm.L[h].status
  BY <1>1 DEF Thread
<1>5. [mm EXCEPT !.L[h].errfunc = ef] = ll
  OBVIOUS
<1> HIDE DEF x
<1>6. ll \in MachineType /\ ll.cs = mm.cs /\ ll.L = [mm.L EXCEPT ![h] = x]
  BY <1>1, <1>4 DEF MachineType
<1> HIDE DEF ll
<1>7. nn \in MachineType /\ nn.cs = Append(mm.cs, g) /\ nn.ret = "go" /\ nn.L = [mm.L EXCEPT ![h] = x]
  BY <1>3, <1>6, PushFacts
<1> HIDE DEF nn
<1>8. \A t \in Threads : /\ nn.L[t].errorJmp = mm.L[t].errorJmp /\ nn.L[t].nny = mm.L[t].nny
                         /\ nn.L[t].ci = mm.L[t].ci /\ nn.L[t].status = mm.L[t].status
  BY <1>1, <1>4, <1>7
<1>9. MayJoin(mm, g)
  <2>1. Called(Last(mm.cs)) = h
    BY DEF Called, Waits
  <2>2. MayCall(Last(mm.cs), g)
    BY <1>3, <2>1 DEF MayCall
  <2> QED
    BY <1>1, <1>2, <1>3, <2>2 DEF MayJoin, Joins
<1>10. CallsOn(mm, nn, g)
  BY <1>3, <1>7, <1>8 DEF CallsOn, SameCalls
<1>11. Good(nn) /\ Last(nn.cs) = g
  BY <1>2, <1>3, <1>8, <1>9, <1>10, CalledGood
<1>12. Len(nn.cs) = n + 1 /\ nn.cs[n+1] = g
  BY <1>1, <1>3, <1>7, AppendFacts
<1> DEFINE tt == rawrunprotected(nn, h)
<1>13. Core(nn) /\ Past(nn) = Len(nn.cs) + 1 /\ Present(nn.cs, h) /\ Called(g) = h
  <2>1. Past(nn) = Len(nn.cs) + 1
    BY <1>3, <1>7, <1>11, CoreFacts DEF Good
  <2>2. Present(nn.cs, h)
    BY <1>1, <1>3, <1>12 DEF Present
  <2> QED
    BY <1>3, <1>11, <2>1, <2>2 DEF Good, Called
<1>14. /\ Core(tt) /\ tt.ret = "go" /\ Len(tt.cs) = n + 2 /\ Last(tt.cs).op = "try" /\ Last(tt.cs).th = h
       /\ tt.cs[n+2] = Last(tt.cs) /\ tt.cs[n+1] = g /\ Past(tt) = Len(tt.cs) + 1
       /\ \A t \in Threads : tt.L[t].status = nn.L[t].status /\ tt.L[t].ci = nn.L[t].ci
       /\ \A t \in Threads : Present(tt.cs, t) <=> Present(nn.cs, t) \/ t = h
  <2>1. /\ Core(tt) /\ tt.ret = "go" /\ Len(tt.cs) = Len(nn.cs) + 1 /\ Last(tt.cs).op = "try" /\ Last(tt.cs).th = h
        /\ tt.cs[Len(nn.cs)+1] = Last(tt.cs) /\ tt.cs[Len(nn.cs)] = Last(nn.cs) /\ Past(tt) = Len(tt.cs) + 1
        /\ \A t \in Threads : tt.L[t].status = nn.L[t].status /\ tt.L[t].ci = nn.L[t].ci
        /\ \A t \in Threads : Present(tt.cs, t) <=> Present(nn.cs, t) \/ t = h
    BY <1>3, <1>11, <1>13, TryCore
  <2>2. (n + 1) + 1 = n + 2
    BY <1>1
  <2> QED
    BY <1>11, <1>12, <2>1, <2>2
<1> HIDE DEF tt
<1>15. Good(tt) /\ Present(tt.cs, h) /\ tt.L[h].status = "ok"
  BY <1>2, <1>8, <1>11, <1>13, <1>14 DEF Good, Settled
<1> DEFINE c == [op |-> "ccall", th |-> h, c |-> 1, n |-> 1]
<1>16. Joins(tt.cs, c)
  <2>1. c.op = "ccall" /\ c.n = 1 /\ c.th = h /\ ~Crosses(c)
    BY DEF Crosses
  <2> HIDE DEF c
  <2>2. MayCall(Last(tt.cs), c)
    BY <1>14, <2>1 DEF MayCall, Called, Waits
  <2>3. MayTry(tt.cs[n+1], c)
    BY <1>3, <1>14, <2>1 DEF MayTry, Unyieldable
  <2>4. (n+2)-1 = n+1 /\ n+2 \in 1..n+2
    BY <1>1
  <2> QED
    BY <1>14, <2>1, <2>2, <2>3, <2>4 DEF Joins
<1>17. Sound(ccall(tt, h, func, fn, 1, 1))
  <2>1. tt.cs[Len(tt.cs)].op # "closethread"
    BY <1>14
  <2>2. 1 \in Int /\ 1 \in {0, 1} /\ Past(tt) = Len(tt.cs) + 1
    BY <1>14
  <2>3. Joins(tt.cs, [op |-> "ccall", th |-> h, c |-> 1, n |-> 1])
    BY <1>16
  <2> HIDE DEF n, c
  <2> QED
    BY <1>15, <2>1, <2>2, <2>3, CcallGood
<1> QED
  BY <1>5, <1>17 DEF luaD_pcall, luaD_callnoyield, tt, nn, g

----------------------------------------------------------------------------
(* Returns.                                                                *)

LEMMA ReturnSound ==
  ASSUME NEW mm, Good(mm), NEW g, MayReturn(mm, g), NEW nn, ReturnsFrom(mm, nn, g),
         \A t \in Threads : nn.L[t].status = mm.L[t].status \/ (Crosses(g) /\ t = g.co /\ nn.L[t].status \in Errors),
         g.op = "try" => nn.ret = "ok"
  PROVE  Sound(nn)
<1> DEFINE n == Len(mm.cs)
           q == n - 1
<1>1. Core(mm) /\ Settled(mm)
  BY DEF Good
<1>2. /\ n \in Nat /\ n >= 2 /\ g = mm.cs[n] /\ nn.cs \in Seq(Activation) /\ Len(nn.cs) = q
      /\ \A i \in 1..q : nn.cs[i] = mm.cs[i]
      /\ g \in Activation /\ Stacked(mm.cs)
  BY <1>1, ReturnStack DEF Core
<1>3. Core(nn) /\ \A t \in Threads : Present(nn.cs, t) => Present(mm.cs, t) /\ (Crosses(g) => t # g.co)
  BY <1>1, ReturnCore
<1>4. \A t \in Threads : Present(nn.cs, t) => nn.L[t].status = "ok"
  BY <1>1, <1>3 DEF Settled
<1>5. ASSUME NEW t \in Threads, nn.L[t].status = "yield"
      PROVE  Len(nn.L[t].ci) >= 2
  <2>1. mm.L[t].status = "yield"
    BY <1>5 DEF Errors
  <2>2. ~Present(mm.cs, t) /\ Len(mm.L[t].ci) >= 2
    BY <1>1, <2>1 DEF Settled
  <2>3. t # g.th
    BY <1>2, <2>2 DEF Present
  <2>4. SameCalls(mm.L[t].ci, nn.L[t].ci)
    BY <2>3 DEF ReturnsFrom
  <2> QED
    BY <2>2, <2>4 DEF SameCalls
<1>6. Recoverable(nn)
  <2> SUFFICES ASSUME Last(nn.cs).op = "resumed", nn.ret \in Errors PROVE FALSE
    BY DEF Recoverable
  <2>1. Last(nn.cs) = mm.cs[q] /\ q \in 1..n-1 /\ q + 1 = n
    BY <1>2 DEF Last
  <2>2. MayCall(mm.cs[q], g)
    BY <1>2, <2>1 DEF Stacked, Linked
  <2>3. g.op = "try"
    BY <2>1, <2>2 DEF MayCall
  <2> QED
    BY <2>3 DEF Errors
<1> QED
  BY <1>3, <1>4, <1>5, <1>6, GoodSound DEF Good, Settled

(* The activation on top of a machine returns r, once its fields are set.  *)
LEMMA PopSound ==
  ASSUME NEW mm, Good(mm), NEW ll, Keeps(mm, ll), NEW r \in Results,
         Last(mm.cs).op \in {"close", "closep", "pcall", "closethread", "unroll"},
         Last(mm.cs).op = "closethread" => Crosses(Last(mm.cs)) /\ mm.ret # "go"
  PROVE  Sound(Pop(ll, r))
<1> DEFINE g == Last(ll.cs)
           nn == Pop(ll, r)
<1>1. /\ Core(mm) /\ Core(ll) /\ Good(ll) /\ Similar(Last(mm.cs), g) /\ Last(mm.cs) \in Activation /\ g \in Activation
      /\ ll \in MachineType /\ ll.cs # <<>>
  BY KeepsFacts, CoreFacts DEF Good
<1>2. /\ g.op \notin {"host", "try", "ccall"} /\ ~Owns(g)
      /\ g.op = "closethread" => Last(mm.cs).op = "closethread" /\ Crosses(g)
  <2>1. /\ \A op \in {"host", "try", "ccall", "closethread"} : (Last(mm.cs).op = op) <=> (g.op = op)
        /\ Crosses(g) <=> Crosses(Last(mm.cs))
        /\ Owns(g) <=> Owns(Last(mm.cs))
    BY <1>1, SimilarFacts
  <2>2. ~Owns(Last(mm.cs))
    BY DEF Owns
  <2> QED
    BY <2>1, <2>2
<1>3. nn \in MachineType /\ nn.cs = Front(ll.cs) /\ nn.ret = r /\ nn.L = ll.L
  <2>1. r \in Statuses
    BY DEF Statuses
  <2> QED
    BY <1>1, <2>1, PopFacts
<1> HIDE DEF nn
<1>4. r # "go" /\ r # "none"
  BY DEF Results, Errors
<1>5. MayReturn(ll, g)
  <2>1. Past(ll) = Len(ll.cs) + 1
    <3>1. CASE g.op = "closethread"
      <4>1. Past(mm) = Len(mm.cs) + 1
        BY <1>1, <1>2, <3>1, CoreFacts
      <4> QED
        BY <4>1, <1>1, KeepsFacts DEF Keeps
    <3>2. CASE g.op # "closethread"
      BY <1>1, <3>2, CoreFacts
    <3> QED
      BY <3>1, <3>2
  <2> QED
    BY <1>2, <2>1 DEF MayReturn
<1>6. ReturnsFrom(ll, nn, g)
  BY <1>2, <1>3, <1>4 DEF ReturnsFrom, SameCalls
<1>7. Sound(nn)
  BY <1>1, <1>2, <1>3, <1>5, <1>6, ReturnSound
<1> QED
  BY <1>7 DEF nn

----------------------------------------------------------------------------
(* The activation on top of the machine.                                   *)

LEMMA InfoFields ==
  ASSUME NEW c \in CallInfo
  PROVE  /\ c.fn \in FunctionNames \cup {"base"} /\ c.func \in Int /\ c.top \in Int /\ c.fresh \in BOOLEAN /\ c.tbc \in BOOLEAN
         /\ c.clsret \in BOOLEAN /\ c.ypcall \in BOOLEAN /\ c.recst \in Statuses /\ c.k \in {"none", "junk", "cont"}
         /\ c.old \in Int /\ c.idx \in Int /\ c.op \in {"none", "call", "meta", "close", "return", "tail"} /\ c.guard \in BOOLEAN
  BY DEF CallInfo

LEMMA TopFacts ==
  ASSUME Sound(m)
  PROVE  LET n == Len(m.cs)
         IN /\ Core(m) /\ m \in MachineType /\ m.cs # <<>> /\ m.cs \in Seq(Activation) /\ n \in Nat /\ n >= 1 /\ n \in 1..n
            /\ f = Last(m.cs) /\ f = m.cs[n] /\ f \in Activation /\ th \in Threads
            /\ L \in Thread /\ L.ci \in Seq(CallInfo) /\ Len(L.ci) \in Nat /\ Len(L.ci) >= 1 /\ L.top \in Int /\ L.errfunc \in Int
            /\ L.nny \in Int /\ L.nC \in Int /\ L.tbc \in Seq(Int) /\ L.open \in SUBSET Int
            /\ current \in 1..Len(L.ci) /\ ci \in CallInfo
            /\ Holds(f) /\ Past(m) = n + 1 => n \in HeldBy(m, th)
            /\ Owns(f) => f.ci \in 2..Len(L.ci) /\ current = f.ci
            /\ ~Owns(f) => current = Len(L.ci)
            /\ f.op # "resume" => Good(m)
            /\ MayFail(f) /\ ~Waits(f) /\ f.op # "resume" => Works(m, th)
            /\ Present(m.cs, th)
<1> DEFINE n == Len(m.cs)
<1>1. /\ Core(m) /\ m \in MachineType /\ m.cs # <<>> /\ m.cs \in Seq(Activation) /\ n \in Nat /\ n >= 1
      /\ f = Last(m.cs) /\ f = m.cs[n] /\ f \in Activation
  BY CoreFacts DEF Sound, f, Top
<1>2. th \in Threads
  BY <1>1, ActivationFields DEF th
<1>3. /\ L \in Thread /\ L.ci \in Seq(CallInfo) /\ L.top \in Int /\ L.errfunc \in Int
      /\ L.nny \in Int /\ L.nC \in Int /\ L.tbc \in Seq(Int) /\ L.open \in SUBSET Int
  BY <1>1, <1>2, MachineFields DEF L
<1>4. DepthOf(m, th, L.ci) /\ Len(L.ci) \in Nat
  BY <1>1, <1>2, <1>3 DEF Core, Depth, L
<1>5. Len(L.ci) >= 1
  BY <1>4 DEF DepthOf
<1>6. Holds(f) /\ Past(m) = n + 1 => n \in HeldBy(m, th)
  <2> SUFFICES ASSUME Holds(f), Past(m) = n + 1 PROVE n \in HeldBy(m, th)
    OBVIOUS
  <2>1. n \in 1..n /\ \A j \in n..Past(m)-1 : j = n
    BY <1>1
  <2>2. \A j \in n..Past(m)-1 : ~ResetsOf(m.cs[j], th)
    BY <1>1, <2>1 DEF ResetsOf, Holds, Owns
  <2> QED
    BY <1>1, <2>1, <2>2 DEF HeldBy, Lives, th
<1>7. Owns(f) => f.ci \in 2..Len(L.ci) /\ current = f.ci
  <2> SUFFICES ASSUME Owns(f) PROVE f.ci \in 2..Len(L.ci) /\ current = f.ci
    OBVIOUS
  <2>1. Holds(f) /\ f.op # "closethread"
    BY DEF Holds, Owns
  <2>2. n \in HeldBy(m, th)
    BY <1>1, <1>6, <2>1, CoreFacts
  <2>3. f.ci \in 2..Len(L.ci)
    BY <1>1, <1>4, <2>2 DEF DepthOf
  <2> QED
    BY <2>3 DEF current, Owns
<1>8. ~Owns(f) => current = Len(L.ci)
  BY DEF Owns, current
<1>9. current \in 1..Len(L.ci)
  BY <1>4, <1>5, <1>7, <1>8
<1>10. ci \in CallInfo
  BY <1>3, <1>9 DEF ci
<1>11. f.op # "resume" => Good(m)
  BY <1>1 DEF Sound, Awake, Good, Settled, Waking
<1>12. MayFail(f) /\ ~Waits(f) /\ f.op # "resume" => Works(m, th)
  BY <1>1, <1>11 DEF Works, th
<1>13. Present(m.cs, th)
  <2>1. n \in 1..n
    BY <1>1
  <2> QED
    BY <1>1, <2>1 DEF Present, th
<1> QED
  BY <1>1, <1>2, <1>3, <1>4, <1>5, <1>6, <1>7, <1>8, <1>9, <1>10, <1>11, <1>12, <1>13

(* One change after another.                                               *)
LEMMA KeepsSelf ==
  ASSUME NEW mm, Core(mm)
  PROVE  Keeps(mm, mm)
  BY CoreFacts, SimilarSelf DEF Keeps, SameStack, SameThread, SameCalls

LEMMA KeepsMachine ==
  ASSUME NEW ll, Core(ll), NEW mm, Keeps(ll, mm)
  PROVE  mm \in MachineType /\ mm.cs # <<>> /\ ll.cs \in Seq(Activation)
  BY KeepsFacts, CoreFacts

LEMMA ThenTop ==
  ASSUME NEW ll, Core(ll), NEW mm, Keeps(ll, mm), NEW h \in Threads, NEW n \in Int
  PROVE  Keeps(ll, SetTop(mm, h, n))
  BY KeepsMachine, KeepTop, KeepsTwice

LEMMA ThenThread ==
  ASSUME NEW ll, Core(ll), NEW mm, Keeps(ll, mm), NEW h \in Threads, NEW x \in Thread,
         SameThread(mm.L[h], x), x.status = mm.L[h].status
  PROVE  Keeps(ll, [mm EXCEPT !.L[h] = x])
<1>1. mm \in MachineType /\ mm.cs # <<>> /\ ll.cs \in Seq(Activation)
  BY KeepsMachine
<1> DEFINE nn == [mm EXCEPT !.L[h] = x]
<1>2. Keeps(mm, nn)
  BY <1>1, KeepThread
<1> HIDE DEF nn
<1>3. Keeps(ll, nn)
  BY <1>1, <1>2, KeepsTwice
<1> QED
  BY <1>3 DEF nn

LEMMA ThenAssert ==
  ASSUME NEW ll, Core(ll), NEW mm, Keeps(ll, mm), NEW b \in BOOLEAN
  PROVE  Keeps(ll, lua_assert(mm, b))
  BY KeepsMachine, KeepAssert, KeepsTwice

LEMMA ThenActivation ==
  ASSUME NEW ll, Core(ll), NEW mm, Keeps(ll, mm), NEW g \in Activation, NEW nn, nn \in MachineType,
         nn.cs = [mm.cs EXCEPT ![Len(mm.cs)] = g], nn.L = mm.L,
         Similar(Last(mm.cs), g), Holds(g) => g.ci = Last(mm.cs).ci,
         nn.ret = mm.ret \/ g.op # "closethread"
  PROVE  Keeps(ll, nn) /\ Last(nn.cs) = g
<1>1. mm \in MachineType /\ mm.cs # <<>> /\ ll.cs \in Seq(Activation)
  BY KeepsMachine
<1>2. Keeps(mm, nn) /\ Last(nn.cs) = g
  BY <1>1, KeepActivation
<1> QED
  BY <1>1, <1>2, KeepsTwice

LEMMA ThenCI ==
  ASSUME Sound(m), NEW mm, Keeps(m, mm), NEW c \in CallInfo, c.fn = ci.fn, c.fresh = ci.fresh
  PROVE  Keeps(m, SetCI(mm, c)) /\ SetCI(mm, c).cs = mm.cs /\ SetCI(mm, c).ret = mm.ret
<1>1. Core(m) /\ th \in Threads /\ current \in 1..Len(L.ci) /\ ci = L.ci[current]
  BY TopFacts DEF ci
<1>2. mm \in MachineType /\ mm.cs # <<>> /\ m.cs \in Seq(Activation)
  BY <1>1, KeepsMachine
<1>3. Len(mm.L[th].ci) = Len(L.ci) /\ (Afresh(mm.L[th].ci[current]) <=> Afresh(ci))
  BY <1>1 DEF Keeps, SameThread, SameCalls, L
<1>4. Afresh(c) <=> Afresh(mm.L[th].ci[current])
  BY <1>3 DEF Afresh, isLua
<1> DEFINE k == current
           h == th
           cis == mm.L[h].ci
           y == [cis EXCEPT ![k] = c]
           x == [mm.L[h] EXCEPT !.ci = y]
           nn == [mm EXCEPT !.L[h] = x]
<1>5. k \in 1..Len(cis) /\ cis \in Seq(CallInfo) /\ mm.L[h] \in Thread /\ mm.L \in [Threads -> Thread] /\ h \in Threads
  BY <1>1, <1>2, <1>3, MachineFields
<1>6. y \in Seq(CallInfo) /\ SameCalls(cis, y)
  <2>1. Afresh(c) <=> Afresh(cis[k])
    BY <1>4
  <2> HIDE DEF cis, k
  <2> QED
    BY <1>5, <2>1 DEF SameCalls
<1> HIDE DEF y
<1>7. x \in Thread /\ x.errorJmp = mm.L[h].errorJmp /\ x.nny = mm.L[h].nny /\ x.status = mm.L[h].status /\ x.ci = y
  BY <1>5, <1>6 DEF Thread
<1>8. SameThread(mm.L[h], x)
  BY <1>6, <1>7 DEF SameThread
<1> HIDE DEF x
<1>9. nn.cs = mm.cs /\ nn.ret = mm.ret
  BY <1>2 DEF MachineType
<1>10. Keeps(m, nn)
  BY <1>1, <1>5, <1>7, <1>8, ThenThread
<1>11. SetCI(mm, c) = nn
  BY DEF SetCI, x, y
<1> QED
  BY <1>9, <1>10, <1>11

LEMMA WaitingFacts ==
  ASSUME Sound(m), NEW op \in {"none", "call", "meta", "close", "return", "tail"}
  PROVE  Waiting(op) \in CallInfo /\ Waiting(op).fn = ci.fn /\ Waiting(op).fresh = ci.fresh
<1>1. ci \in CallInfo
  BY TopFacts
<1> QED
  BY <1>1 DEF Waiting, CallInfo

----------------------------------------------------------------------------
(* lvm.c: what a Lua function does.                                        *)

LEMMA ExecuteFacts ==
  ASSUME Sound(m), f.op = "execute"
  PROVE  /\ Core(m) /\ Good(m) /\ Works(m, th) /\ Free(Last(m.cs)) /\ Last(m.cs).op = "execute" /\ th \in Threads
         /\ ci \in CallInfo /\ Base \in Int /\ ci.top \in Int /\ Keeps(m, m)
         /\ Past(m) = Len(m.cs) + 1
<1>1. MayFail(f) /\ ~Waits(f) /\ Free(f)
  BY DEF MayFail, Waits, Free
<1>2. Core(m) /\ Works(m, th) /\ f = Last(m.cs) /\ ci \in CallInfo /\ th \in Threads
  BY <1>1, TopFacts
<1> QED
  BY <1>1, <1>2, InfoFields, KeepsSelf, WorksFacts DEF Base, Works

LEMMA WaitingKept ==
  ASSUME Sound(m), f.op = "execute", NEW op \in {"none", "call", "meta", "close", "return", "tail"}
  PROVE  Keeps(m, SetCI(m, Waiting(op)))
  BY ExecuteFacts, WaitingFacts, ThenCI

LEMMA CallSound ==
  ASSUME Sound(m), NEW fn \in FunctionNames, OP_CALL(fn)
  PROVE  Sound(m')
<1>1. f.op = "execute" /\ m' = luaD_precall(SetCI(m, Waiting("call")), th, Base + 1, fn, FALSE)
  BY DEF OP_CALL, Running, On
<1> DEFINE mm == SetCI(m, Waiting("call"))
<1>2. Keeps(m, mm)
  BY <1>1, WaitingKept
<1> HIDE DEF mm
<1>3. Works(mm, th) /\ Free(Last(mm.cs)) /\ Last(mm.cs).op = "execute"
  BY <1>1, <1>2, ExecuteFacts, KeepsWorks
<1>4. Base + 1 \in Int
  BY <1>1, ExecuteFacts
<1>5. Sound(luaD_precall(mm, th, Base + 1, fn, FALSE))
  BY <1>3, <1>4, PrecallWorks
<1> QED
  BY <1>1, <1>5 DEF mm

LEMMA MethodSound ==
  ASSUME Sound(m), NEW fn \in FunctionNames, CallMethod(fn)
  PROVE  Sound(m')
<1> DEFINE level == Base + FrameSize
           ll == SetCI(m, Waiting("meta"))
           mm == SetTop(ll, th, level)
<1>1. f.op = "execute" /\ m' = luaD_call(mm, th, level, fn)
  BY DEF CallMethod, Running, On
<1>2. level \in Int /\ th \in Threads /\ Core(m)
  BY <1>1, ExecuteFacts DEF FrameSize
<1>3. Keeps(m, ll)
  BY <1>1, WaitingKept
<1> HIDE DEF ll, level
<1>4. Keeps(m, mm)
  BY <1>2, <1>3, ThenTop
<1> HIDE DEF mm
<1>5. Works(mm, th) /\ Free(Last(mm.cs))
  BY <1>1, <1>4, ExecuteFacts, KeepsWorks
<1>6. Sound(ccall(mm, th, level, fn, 1, 0))
  <2>1. 1 \in Int /\ 0 \in {0, 1}
    OBVIOUS
  <2> QED
    BY <1>2, <1>5, <2>1, CcallWorks
<1> QED
  BY <1>1, <1>6 DEF luaD_call

(* A machine that keeps all that the stack of C sees.                      *)
LEMMA KeepsSound ==
  ASSUME Sound(m), f.op \notin {"resume", "resumed"}, NEW nn, Keeps(m, nn)
  PROVE  Sound(nn)
<1>1. Core(m) /\ Good(m) /\ f = Last(m.cs)
  BY TopFacts
<1>2. Core(nn) /\ Settled(nn) /\ Similar(f, Last(nn.cs)) /\ f \in Activation /\ Last(nn.cs) \in Activation
  BY <1>1, KeepsFacts DEF Good
<1>3. Last(nn.cs).op # "resumed"
  BY <1>2, SimilarFacts
<1> QED
  BY <1>2, <1>3, GoodSound DEF Good, Recoverable

LEMMA ClosureSound ==
  ASSUME Sound(m), OP_CLOSURE
  PROVE  Sound(m')
<1> DEFINE x == [m.L[th] EXCEPT !.open = @ \cup {Base}]
           mm == [m EXCEPT !.L[th] = x]
<1>1. f.op = "execute" /\ m' = mm
  BY DEF OP_CLOSURE, Running, On
<1>2. Core(m) /\ Keeps(m, m) /\ th \in Threads /\ Base \in Int
  BY <1>1, ExecuteFacts
<1>3. x \in Thread /\ SameThread(m.L[th], x) /\ x.status = m.L[th].status
  <2>1. m.L[th] \in Thread /\ m.L[th].open \in SUBSET Int
    BY TopFacts DEF L
  <2> QED
    BY <1>2, <2>1 DEF Thread, SameThread, SameCalls
<1> HIDE DEF x
<1>4. Keeps(m, mm)
  BY <1>2, <1>3, ThenThread
<1> QED
  BY <1>1, <1>4, KeepsSound

LEMMA TbcSound ==
  ASSUME Sound(m), OP_TBC
  PROVE  Sound(m')
<1> DEFINE b == L.tbc = <<>> \/ Last(L.tbc) < Base
           ll == lua_assert(m, b)
           x == [ll.L[th] EXCEPT !.tbc = Append(@, Base)]
           mm == [ll EXCEPT !.L[th] = x]
<1>1. f.op = "execute" /\ m' = mm
  BY DEF OP_TBC, Running, On
<1>2. Core(m) /\ Keeps(m, m) /\ th \in Threads /\ Base \in Int /\ b \in BOOLEAN
  BY <1>1, ExecuteFacts
<1> HIDE DEF b
<1>3. Keeps(m, ll)
  BY <1>2, ThenAssert
<1> HIDE DEF ll
<1>4. x \in Thread /\ SameThread(ll.L[th], x) /\ x.status = ll.L[th].status
  <2>1. ll.L[th] \in Thread /\ ll.L[th].tbc \in Seq(Int)
    BY <1>2, <1>3, KeepsMachine, MachineFields
  <2>2. Append(ll.L[th].tbc, Base) \in Seq(Int)
    BY <1>2, <2>1, AppendFacts
  <2> QED
    BY <1>2, <2>1, <2>2 DEF Thread, SameThread, SameCalls
<1> HIDE DEF x
<1>5. Keeps(m, mm)
  BY <1>2, <1>3, <1>4, ThenThread
<1> QED
  BY <1>1, <1>5, KeepsSound

LEMMA CloseOpSound ==
  ASSUME Sound(m), f.op = "execute", NEW op \in {"close", "return"}, NEW status \in Statuses,
         m' = luaF_close(SetTop(SetCI(m, Waiting(op)), th, ci.top), th, Base, status, TRUE)
  PROVE  Sound(m')
<1> DEFINE ll == SetCI(m, Waiting(op))
           mm == SetTop(ll, th, ci.top)
<1>1. ci.top \in Int /\ Base \in Int /\ th \in Threads /\ Core(m)
  BY ExecuteFacts
<1>2. Keeps(m, ll)
  BY WaitingKept
<1> HIDE DEF ll
<1>3. Keeps(m, mm)
  BY <1>1, <1>2, ThenTop
<1> HIDE DEF mm
<1>4. Works(mm, th) /\ Free(Last(mm.cs))
  BY <1>3, ExecuteFacts, KeepsWorks
<1>5. Sound(luaF_close(mm, th, Base, status, TRUE))
  BY <1>1, <1>4, CloseWorks
<1> QED
  BY <1>5 DEF mm, ll

LEMMA CloseSound ==
  ASSUME Sound(m), OP_CLOSE
  PROVE  Sound(m')
<1>1. f.op = "execute" /\ m' = luaF_close(SetTop(SetCI(m, Waiting("close")), th, ci.top), th, Base, "ok", TRUE)
  BY DEF OP_CLOSE, On
<1> QED
  BY <1>1, CloseOpSound DEF Statuses, Results

LEMMA ReturnOpSound ==
  ASSUME Sound(m), OP_RETURN
  PROVE  Sound(m')
<1>1. f.op = "execute" /\ m' = luaF_close(SetTop(SetCI(m, Waiting("return")), th, ci.top), th, Base, "ktop", TRUE)
  BY DEF OP_RETURN, On
<1> QED
  BY <1>1, CloseOpSound DEF Statuses, Results

LEMMA FailSound ==
  ASSUME Sound(m), Fail
  PROVE  Sound(m')
<1> DEFINE mm == SetTop(m, th, ci.top)
<1>1. f.op = "execute" /\ m' = luaG_errormsg(mm, th)
  BY DEF Fail, Running, On
<1>2. Keeps(m, mm)
  BY <1>1, ExecuteFacts, ThenTop
<1> HIDE DEF mm
<1> QED
  BY <1>1, <1>2, ExecuteFacts, KeepsWorks, ErrorWorks

LEMMA OutOfMemorySound ==
  ASSUME Sound(m), OutOfMemory
  PROVE  Sound(m')
<1> DEFINE mm == SetTop(m, th, ci.top)
<1>1. f.op = "execute" /\ m' = luaD_throw(mm, th, "mem")
  BY DEF OutOfMemory, Running, On
<1>2. Keeps(m, mm)
  BY <1>1, ExecuteFacts, ThenTop
<1> HIDE DEF mm
<1>3. "mem" \in Results
  BY DEF Results, Errors
<1> QED
  BY <1>1, <1>2, <1>3, ExecuteFacts, KeepsWorks, ThrowWorks

(* The value that is returned is taken by the activation that goes on.     *)
LEMMA ThenRet ==
  ASSUME NEW ll, Core(ll), NEW mm, Keeps(ll, mm), NEW r \in Statuses, Last(ll.cs).op # "closethread"
  PROVE  Keeps(ll, [mm EXCEPT !.ret = r])
<1> DEFINE nn == [mm EXCEPT !.ret = r]
           n == Len(mm.cs)
           g == Last(mm.cs)
<1>1. mm \in MachineType /\ mm.cs # <<>> /\ mm.cs \in Seq(Activation)
  BY KeepsMachine DEF MachineType
<1>2. nn \in MachineType /\ nn.cs = mm.cs /\ nn.L = mm.L
  BY <1>1 DEF MachineType
<1>3. Similar(Last(ll.cs), g) /\ g \in Activation /\ Last(ll.cs) \in Activation
  BY KeepsFacts
<1>4. g.op # "closethread"
  BY <1>3, SimilarFacts
<1>5. mm.cs = [mm.cs EXCEPT ![n] = g]
  BY <1>1, LastFacts
<1> HIDE DEF g, nn
<1>6. Similar(g, g)
  BY <1>3, SimilarSelf
<1>7. nn.cs = [mm.cs EXCEPT ![n] = g] /\ g = Last(mm.cs)
  BY <1>2, <1>5 DEF g
<1>8. Keeps(ll, nn)
  BY <1>2, <1>3, <1>4, <1>6, <1>7, ThenActivation
<1> QED
  BY <1>8 DEF nn

LEMMA EndOpSound ==
  ASSUME Sound(m), EndOp
  PROVE  Sound(m')
<1> DEFINE mm == SetCI(m, Waiting("none"))
           nn == [mm EXCEPT !.ret = "go"]
<1>1. f.op = "execute" /\ m' = nn
  BY DEF EndOp, On
<1>2. Keeps(m, mm)
  BY <1>1, WaitingKept
<1> HIDE DEF mm
<1>3. Keeps(m, nn)
  BY <1>1, <1>2, ExecuteFacts, ThenRet DEF Statuses
<1> QED
  BY <1>1, <1>3, KeepsSound

LEMMA TailCallSound ==
  ASSUME Sound(m), NEW fn \in FunctionNames, OP_TAILCALL(fn)
  PROVE  Sound(m')
<1> DEFINE x == [m.L[th] EXCEPT !.open = {l \in @ : l < Base}]
           closed == [m EXCEPT !.L[th] = x]
           c == [ci EXCEPT !.op = "none"]
           ll == SetCI(closed, Waiting("tail"))
           kk == SetCI(closed, c)
           mm == SetTop(kk, th, Base)
           nn == [mm EXCEPT !.ret = "go"]
<1>1. f.op = "execute" /\ m' = IF fn # "lua" THEN luaD_precall(ll, th, Base + 1, fn, FALSE) ELSE nn
  BY DEF OP_TAILCALL, Running, On
<1>2. Core(m) /\ Keeps(m, m) /\ th \in Threads /\ Base \in Int /\ ci \in CallInfo
  BY <1>1, ExecuteFacts
<1>3. x \in Thread /\ SameThread(m.L[th], x) /\ x.status = m.L[th].status
  <2>1. m.L[th] \in Thread /\ m.L[th].open \in SUBSET Int
    BY TopFacts DEF L
  <2> QED
    BY <1>2, <2>1 DEF Thread, SameThread, SameCalls
<1> HIDE DEF x
<1>4. Keeps(m, closed)
  BY <1>2, <1>3, ThenThread
<1> HIDE DEF closed
<1>5. Waiting("tail") \in CallInfo /\ Waiting("tail").fn = ci.fn /\ Waiting("tail").fresh = ci.fresh
  BY WaitingFacts
<1>6. Sound(luaD_precall(ll, th, Base + 1, fn, FALSE))
  <2>1. Keeps(m, ll)
    BY <1>4, <1>5, ThenCI
  <2> HIDE DEF ll
  <2>2. Works(ll, th) /\ Free(Last(ll.cs)) /\ Last(ll.cs).op = "execute" /\ Base + 1 \in Int
    BY <1>1, <1>2, <2>1, ExecuteFacts, KeepsWorks
  <2> QED
    BY <2>2, PrecallWorks
<1>7. Sound(nn)
  <2>1. c \in CallInfo /\ c.fn = ci.fn /\ c.fresh = ci.fresh
    BY <1>2 DEF CallInfo
  <2> HIDE DEF c
  <2>2. Keeps(m, kk)
    BY <1>4, <2>1, ThenCI
  <2> HIDE DEF kk
  <2>3. Keeps(m, mm)
    BY <1>2, <2>2, ThenTop
  <2> HIDE DEF mm
  <2>4. Keeps(m, nn)
    BY <1>1, <2>3, ExecuteFacts, ThenRet DEF Statuses
  <2> QED
    BY <1>1, <2>4, KeepsSound
<1> HIDE DEF ll, nn
<1> QED
  BY <1>1, <1>6, <1>7

----------------------------------------------------------------------------
(* Activations inside the machine.                                         *)

LEMMA EndCallSound ==
  ASSUME Sound(m), EndCall
  PROVE  Sound(m')
<1> DEFINE c == -f.c
           k == -f.n
           ll == Counted(m, th, c, k)
           nn == Pop(ll, "done")
<1>1. f.op = "ccall" /\ m' = nn
  BY DEF EndCall, On
<1>2. /\ Core(m) /\ m \in MachineType /\ m.cs # <<>> /\ f = Last(m.cs) /\ f \in Activation /\ th \in Threads /\ Good(m)
      /\ Past(m) = Len(m.cs) + 1
  BY <1>1, TopFacts, CoreFacts
<1>3. c \in Int /\ k \in Int /\ f.n \in Int
  BY <1>1, <1>2, ActivationFields
<1>4. k = -f.n
  OBVIOUS
<1> HIDE DEF c, k
<1>5. /\ ll \in MachineType /\ ll.cs = m.cs /\ Others(m, ll, th)
      /\ ll.L[th].nny = m.L[th].nny + k /\ ll.L[th].errorJmp = m.L[th].errorJmp
      /\ ll.L[th].ci = m.L[th].ci /\ ll.L[th].status = m.L[th].status
  BY <1>2, <1>3, CountedFacts
<1> HIDE DEF ll
<1>6. nn \in MachineType /\ nn.cs = Front(m.cs) /\ nn.ret = "done" /\ nn.L = ll.L
  <2>1. "done" \in Statuses
    BY DEF Statuses, Results
  <2> QED
    BY <1>2, <1>5, <2>1, PopFacts
<1> HIDE DEF nn
<1>7. ~Owns(f) /\ ~Waits(f) /\ ~Crosses(f) /\ f.th = th
  BY <1>1 DEF Owns, Waits, Crosses, th
<1>8. MayReturn(m, f)
  BY <1>1, <1>2 DEF MayReturn
<1>9. nn.L[th].nny = m.L[th].nny - f.n
  <2>1. m.L[th].nny \in Int
    BY <1>2, MachineFields
  <2> QED
    BY <1>3, <1>4, <1>5, <1>6, <2>1
<1>10. ReturnsFrom(m, nn, f)
  BY <1>1, <1>5, <1>6, <1>7, <1>9 DEF ReturnsFrom, Others, SameCalls
<1>11. \A t \in Threads : nn.L[t].status = m.L[t].status
  BY <1>5, <1>6 DEF Others
<1>12. Sound(nn)
  BY <1>1, <1>2, <1>8, <1>10, <1>11, ReturnSound
<1> QED
  BY <1>1, <1>12

LEMMA EndTrySound ==
  ASSUME Sound(m), EndTry
  PROVE  Sound(m')
<1> DEFINE jumps == Front(m.L[th].errorJmp)
           x == [m.L[th] EXCEPT !.errorJmp = jumps, !.nC = f.nC, !.nny = f.nny]
           ll == Pop(m, "ok")
           nn == [ll EXCEPT !.L[th] = x]
<1>1. f.op = "try" /\ m' = [ll EXCEPT !.L[th].errorJmp = Front(@), !.L[th].nC = f.nC, !.L[th].nny = f.nny]
  BY DEF EndTry, On
<1>2. /\ Core(m) /\ m \in MachineType /\ m.cs # <<>> /\ f = Last(m.cs) /\ f \in Activation /\ th \in Threads /\ Good(m)
      /\ Past(m) = Len(m.cs) + 1 /\ f = m.cs[Len(m.cs)] /\ Len(m.cs) \in 1..Len(m.cs)
  BY <1>1, TopFacts, CoreFacts
<1>3. f.nC \in Int /\ f.nny \in Int /\ f.th = th
  BY <1>1, <1>2, ActivationFields DEF th
<1>4. m.L[th].errorJmp \in Seq(Nat) /\ m.L[th].errorJmp # <<>> /\ m.L[th] \in Thread
  <2>1. IsTry(m.cs, th, Len(m.cs))
    BY <1>1, <1>2, <1>3 DEF IsTry
  <2>2. \E j \in 1..Len(m.L[th].errorJmp) : m.L[th].errorJmp[j] = Len(m.cs)
    BY <1>2, <2>1 DEF Core, Jumps, JumpsOf
  <2>3. m.L[th].errorJmp \in Seq(Nat) /\ m.L[th] \in Thread
    BY <1>2, MachineFields
  <2> QED
    BY <2>2, <2>3
<1>5. jumps \in Seq(Nat) /\ jumps = Front(m.L[th].errorJmp)
  BY <1>4, LastFacts
<1> HIDE DEF jumps
<1>6. x \in Thread /\ x.errorJmp = jumps /\ x.nny = f.nny /\ x.ci = m.L[th].ci /\ x.status = m.L[th].status
  BY <1>3, <1>4, <1>5 DEF Thread
<1>7. ll \in MachineType /\ ll.cs = Front(m.cs) /\ ll.ret = "ok" /\ ll.L = m.L
  <2>1. "ok" \in Statuses
    BY DEF Statuses, Results
  <2> QED
    BY <1>2, <2>1, PopFacts
<1>8. m' = nn
  <2>1. ll.L \in [Threads -> Thread] /\ ll.L[th] = m.L[th]
    BY <1>7 DEF MachineType
  <2> HIDE DEF ll
  <2> QED
    BY <1>1, <1>2, <1>4, <2>1, <1>7 DEF Thread, MachineType, jumps
<1> HIDE DEF x, ll
<1>9. nn \in MachineType /\ nn.cs = Front(m.cs) /\ nn.ret = "ok" /\ nn.L[th] = x /\ \A t \in Threads \ {th} : nn.L[t] = m.L[t]
  BY <1>2, <1>6, <1>7 DEF MachineType
<1> HIDE DEF nn
<1>10. ~Owns(f) /\ ~Waits(f) /\ ~Crosses(f)
  BY <1>1 DEF Owns, Waits, Crosses
<1>11. MayReturn(m, f)
  BY <1>1, <1>2 DEF MayReturn
<1>12. ReturnsFrom(m, nn, f)
  BY <1>1, <1>3, <1>5, <1>6, <1>9, <1>10 DEF ReturnsFrom, SameCalls
<1>13. \A t \in Threads : nn.L[t].status = m.L[t].status
  BY <1>6, <1>9
<1>14. Sound(nn)
  BY <1>2, <1>9, <1>11, <1>12, <1>13, ReturnSound
<1> QED
  BY <1>8, <1>14

LEMMA ErrorMessageSound ==
  ASSUME Sound(m), ErrorMessage
  PROVE  Sound(m')
<1> DEFINE mm == SetTop(m, th, L.top + 1)
<1>1. f.op = "errormsg"
  BY DEF ErrorMessage, On
<1>2. Core(m) /\ Works(m, th) /\ Free(f) /\ f = Last(m.cs) /\ th \in Threads /\ L.top \in Int
  <2>1. MayFail(f) /\ ~Waits(f) /\ Free(f)
    BY <1>1 DEF MayFail, Waits, Free
  <2> QED
    BY <1>1, <2>1, TopFacts
<1>3. Sound(luaD_callnoyield(mm, th, L.top, "lua"))
  <2>1. Keeps(m, mm)
    BY <1>2, KeepsSelf, ThenTop
  <2> HIDE DEF mm
  <2>2. Works(mm, th)
    BY <1>2, <2>1, KeepsWorks
  <2>3. 1 \in Int /\ 1 \in {0, 1} /\ "lua" \in FunctionNames
    BY DEF FunctionNames
  <2>4. Sound(ccall(mm, th, L.top, "lua", 1, 1))
    BY <1>2, <2>2, <2>3, CcallWorks
  <2> QED
    BY <2>4 DEF luaD_callnoyield
<1>4. Sound(luaD_throw(m, th, "run"))
  BY <1>2, ThrowWorks DEF Results, Errors
<1> HIDE DEF mm
<1>5. m' = luaD_callnoyield(mm, th, L.top, "lua") \/ m' = luaD_throw(m, th, "run")
  BY DEF ErrorMessage, mm
<1> QED
  BY <1>3, <1>4, <1>5

LEMMA ActivationKinds ==
  ASSUME NEW a \in Activation
  PROVE  /\ a.op = "closep" => a \in [op : {"closep"}, th : Threads, level : Int, status : Results, ci : Nat, pc : Places]
         /\ a.op = "pcall" => a \in [op : {"pcall"}, th : Threads, ci : Nat, errfunc : Int, top : Int, pc : Places, status : Statuses]
         /\ a.op = "cfunc" => a \in [op : {"cfunc"}, th : Threads, ci : Nat, pc : Places, co : Threads]
         /\ a.op \in {"poscall", "finishCcall"} => a \in [op : {"poscall", "finishCcall"}, th : Threads, ci : Nat, pc : Places]
         /\ a.op = "host" => a \in [op : {"host"}, th : {Main}, pc : Places]
  BY DEF Activation

LEMMA ToCloseFacts ==
  ASSUME NEW s \in Seq(Int), ToSet(s) # {}
  PROVE  s # <<>> /\ Last(s) \in Int /\ Front(s) \in Seq(Int)
<1>1. s # <<>>
  <2>1. PICK l \in ToSet(s) : TRUE
    OBVIOUS
  <2>2. \E i \in DOMAIN s : s[i] = l
    BY <2>1 DEF ToSet
  <2> QED
    BY <2>2
<1> QED
  BY <1>1, LastFacts

LEMMA CloseNextSound ==
  ASSUME Sound(m), NEW fn \in FunctionNames, CloseNext(fn)
  PROVE  Sound(m')
<1> DEFINE tbc == Last(L.tbc)
           level == CallLevel(tbc)
           x == [m.L[th] EXCEPT !.tbc = Front(@), !.top = level]
           mm == [m EXCEPT !.L[th] = x]
           rest == [m EXCEPT !.L[th].tbc = Front(@), !.L[th].top = CallLevel(tbc)]
<1>1. f.op = "close" /\ ToSet(L.tbc) # {}
  BY DEF CloseNext, On, ToBeClosed
<1>2. /\ Core(m) /\ Works(m, th) /\ f = Last(m.cs) /\ th \in Threads /\ L.top \in Int /\ f \in Activation /\ m \in MachineType
      /\ L.tbc \in Seq(Int) /\ L \in Thread /\ L = m.L[th]
  <2>1. MayFail(f) /\ ~Waits(f)
    BY <1>1 DEF MayFail, Waits
  <2> QED
    BY <1>1, <2>1, TopFacts DEF L
<1>3. tbc \in Int /\ Front(L.tbc) \in Seq(Int)
  BY <1>1, <1>2, ToCloseFacts
<1> HIDE DEF tbc
<1>4. level \in Int
  BY <1>2, <1>3 DEF CallLevel
<1>5. m' = IF f.yy THEN luaD_call(rest, th, level, fn) ELSE luaD_callnoyield(rest, th, level, fn)
  BY DEF CloseNext, tbc
<1>6. rest = mm
  <2>1. m.L \in [Threads -> Thread]
    BY <1>2, MachineFields
  <2> HIDE DEF level
  <2> QED
    BY <1>2, <2>1 DEF MachineType, Thread, level
<1>7. x \in Thread /\ SameThread(m.L[th], x) /\ x.status = m.L[th].status
  <2> HIDE DEF level
  <2> QED
    BY <1>2, <1>3, <1>4 DEF Thread, SameThread, SameCalls
<1> HIDE DEF x, level
<1>8. Keeps(m, mm)
  BY <1>2, <1>7, KeepsSelf, ThenThread
<1> HIDE DEF mm, rest
<1>9. Works(mm, th) /\ (Free(f) => Free(Last(mm.cs)))
  BY <1>2, <1>8, KeepsWorks
<1>10. CASE f.yy
  <2>1. Free(Last(mm.cs))
    BY <1>9, <1>10 DEF Free
  <2>2. 1 \in Int /\ 0 \in {0, 1}
    OBVIOUS
  <2>3. Sound(ccall(mm, th, level, fn, 1, 0))
    BY <1>4, <1>9, <2>1, <2>2, CcallWorks
  <2> QED
    BY <1>5, <1>6, <1>10, <2>3 DEF luaD_call
<1>11. CASE ~f.yy
  <2>2. 1 \in Int /\ 1 \in {0, 1}
    OBVIOUS
  <2>3. Sound(ccall(mm, th, level, fn, 1, 1))
    BY <1>4, <1>9, <2>2, CcallWorks
  <2> QED
    BY <1>5, <1>6, <1>11, <2>3 DEF luaD_callnoyield
<1> QED
  BY <1>10, <1>11

LEMMA EndCloseSound ==
  ASSUME Sound(m), EndClose
  PROVE  Sound(m')
<1>1. f.op = "close" /\ m' = Pop(m, "done")
  BY DEF EndClose, On
<1>2. Core(m) /\ Good(m) /\ f = Last(m.cs) /\ "done" \in Results
  BY <1>1, TopFacts DEF Results
<1> QED
  BY <1>1, <1>2, KeepsSelf, PopSound

(* What was called since then is cut.                                      *)
LEMMA CutAtGood ==
  ASSUME Sound(m), f.op \in {"pcall", "closep"}, NEW g \in Activation, Similar(f, g), g.ci = f.ci
  PROVE  LET mm == At(CutCI(m, th, f.ci), g)
         IN /\ Good(mm) /\ Past(mm) = Len(mm.cs) + 1 /\ Last(mm.cs) = g /\ Present(mm.cs, th) /\ mm.L[th].status = "ok"
            /\ g.op = f.op /\ Called(g) = th /\ g.th = th
<1> DEFINE n == f.ci
           ll == CutCI(m, th, n)
           mm == At(ll, g)
           top == Len(m.cs)
<1>1. /\ Core(m) /\ m \in MachineType /\ m.cs # <<>> /\ f = Last(m.cs) /\ f \in Activation /\ th \in Threads /\ Good(m)
      /\ Past(m) = top + 1 /\ f = m.cs[top] /\ top \in 1..top /\ L = m.L[th] /\ top \in Nat /\ m.cs \in Seq(Activation)
      /\ Present(m.cs, th)
  BY TopFacts, CoreFacts DEF L
<1>2. Holds(f) /\ ~Owns(f) /\ ~Waits(f)
  BY DEF Holds, Owns, Waits
<1>3. top \in HeldBy(m, th)
  BY <1>1, <1>2, TopFacts
<1>4. DepthOf(m, th, m.L[th].ci)
  BY <1>1 DEF Core, Depth
<1>5. n \in 1..Len(m.L[th].ci)
  BY <1>1, <1>2, <1>3, <1>4 DEF DepthOf
<1>6. ASSUME NEW i \in HeldBy(m, th)
      PROVE  m.cs[i].ci <= n
  <2>1. i \in 1..top
    BY <1>6 DEF HeldBy
  <2>2. CASE i = top
    BY <1>1, <1>5, <2>2
  <2>3. CASE i < top
    BY <1>1, <1>3, <1>4, <1>6, <2>3 DEF DepthOf
  <2> QED
    BY <1>1, <2>1, <2>2, <2>3
<1>7. Called(f) = th
  BY <1>2 DEF Called, th
<1> HIDE DEF n
<1>8. /\ Core(ll) /\ ll.cs = m.cs /\ ll.ret = m.ret /\ Others(m, ll, th)
      /\ Len(ll.L[th].ci) = n /\ ll.L[th].status = m.L[th].status
  BY <1>1, <1>5, <1>6, <1>7, CutInfosCore
<1> HIDE DEF ll
<1>9. m.L[th].status = "ok"
  BY <1>1 DEF Good, Settled
<1>10. Settled(ll)
  <2>1. \A t \in Threads : ll.L[t].status = m.L[t].status /\ (t # th => ll.L[t].ci = m.L[t].ci)
    BY <1>8 DEF Others
  <2>2. \A t \in Threads : ll.L[t].status = "yield" => t # th
    BY <1>9, <2>1
  <2> QED
    BY <1>1, <1>8, <2>1, <2>2 DEF Good, Settled
<1>11. ll \in MachineType /\ ll.cs # <<>>
  BY <1>8, CoreFacts
<1>12. mm \in MachineType /\ mm.cs = [ll.cs EXCEPT ![Len(ll.cs)] = g] /\ mm.ret = "go" /\ mm.L = ll.L
  BY <1>11, AtFacts
<1> HIDE DEF mm
<1>13. g.op = f.op /\ g.th = th
  BY SimilarFacts, <1>1 DEF th
<1>14. Keeps(ll, mm) /\ Last(mm.cs) = g
  <2>1. Similar(Last(ll.cs), g) /\ g.ci = Last(ll.cs).ci /\ g.op # "closethread"
    BY <1>1, <1>8, <1>13
  <2> QED
    BY <1>11, <1>12, <2>1, KeepActivation
<1>15. Core(mm) /\ Settled(mm) /\ (Present(mm.cs, th) <=> Present(ll.cs, th)) /\ Len(mm.cs) = Len(ll.cs) /\ Past(mm) = Past(ll)
  BY <1>1, <1>8, <1>10, <1>14, KeepsFacts DEF Keeps
<1>16. Past(ll) = Len(ll.cs) + 1
  <2>1. Last(ll.cs).op # "closethread"
    BY <1>1, <1>8
  <2> QED
    BY <1>8, <2>1, CoreFacts
<1>17. Called(g) = th
  BY <1>13 DEF Called, Waits
<1>18. mm.L[th].status = "ok"
  BY <1>8, <1>9, <1>12
<1>19. Present(mm.cs, th)
  BY <1>1, <1>8, <1>15
<1> QED
  BY <1>13, <1>14, <1>15, <1>16, <1>17, <1>18, <1>19 DEF Good, mm, ll, n

LEMMA CloseProtectedSound ==
  ASSUME Sound(m), CloseProtected
  PROVE  Sound(m')
<1>1. f.op = "closep"
  BY DEF CloseProtected, On
<1>2. /\ Core(m) /\ Good(m) /\ f = Last(m.cs) /\ f \in Activation /\ m.ret \in Statuses /\ th \in Threads
      /\ f \in [op : {"closep"}, th : Threads, level : Int, status : Results, ci : Nat, pc : Places]
  BY <1>1, TopFacts, ActivationKinds, MachineFields
<1>3. f.status \in Results /\ f.level \in Int
  BY <1>2
<1>4. Sound(Pop(m, f.status))
  BY <1>1, <1>2, <1>3, KeepsSelf, PopSound
<1> DEFINE status == IF Back THEN m.ret ELSE f.status
           g == [f EXCEPT !.status = status]
           mm == At(CutCI(m, th, f.ci), g)
           nn == rawrunprotected(mm, th)
           a == [op |-> "close", th |-> th, level |-> f.level, status |-> status, yy |-> FALSE]
<1>5. status \in Results
  BY <1>2, <1>3 DEF Back, Statuses
<1> HIDE DEF status
<1>6. /\ g \in [op : {"closep"}, th : Threads, level : Int, status : Results, ci : Nat, pc : Places]
      /\ g.th = f.th /\ g.op = f.op /\ g.ci = f.ci
  BY <1>2, <1>5
<1>7. g \in Activation
  BY <1>6, Zenon DEF Activation
<1>8. Similar(f, g)
  BY <1>1, <1>6 DEF Similar, Waits
<1> HIDE DEF g
<1>9. /\ Good(mm) /\ Past(mm) = Len(mm.cs) + 1 /\ Last(mm.cs) = g /\ Present(mm.cs, th) /\ mm.L[th].status = "ok"
      /\ g.op = "closep" /\ Called(g) = th
  BY <1>1, <1>6, <1>7, <1>8, CutAtGood
<1> HIDE DEF mm
<1>10. LET n == Len(mm.cs)
       IN /\ Core(nn) /\ nn.ret = "go" /\ Len(nn.cs) = n + 1 /\ n \in Nat /\ n >= 1
          /\ Last(nn.cs).op = "try" /\ Last(nn.cs).th = th /\ nn.cs[n + 1] = Last(nn.cs) /\ nn.cs[n] = g
          /\ Past(nn) = Len(nn.cs) + 1
          /\ \A t \in Threads : nn.L[t].status = mm.L[t].status /\ nn.L[t].ci = mm.L[t].ci /\ nn.L[t].nny = mm.L[t].nny
          /\ \A t \in Threads : Present(nn.cs, t) <=> Present(mm.cs, t) \/ t = th
  BY <1>2, <1>9, TryCore DEF Good
<1> HIDE DEF nn
<1>11. Settled(nn)
  BY <1>9, <1>10 DEF Good, Settled
<1>12. a.op = "close" /\ a.th = th /\ ~a.yy
  OBVIOUS
<1>13. Joins(nn.cs, a)
  <2>1. MayCall(nn.cs[Len(nn.cs)], a)
    BY <1>10, <1>12 DEF MayCall, Called, Waits
  <2>2. MayTry(nn.cs[Len(nn.cs)-1], a)
    BY <1>9, <1>10, <1>12 DEF MayTry, Unyieldable
  <2>3. \E j \in 1..Len(nn.cs) : nn.cs[j].op = "try" /\ nn.cs[j].th = a.th
    BY <1>10, <1>12
  <2> HIDE DEF a
  <2> QED
    BY <1>12, <2>1, <2>2, <2>3 DEF Joins, Crosses
<1>14. Sound(luaF_close(nn, th, f.level, status, FALSE))
  <2>1. status \in Statuses /\ FALSE \in BOOLEAN
    BY <1>5 DEF Statuses
  <2>2. nn.cs[Len(nn.cs)].op # "closethread" /\ Present(nn.cs, th) /\ nn.L[th].status = "ok"
    BY <1>2, <1>9, <1>10
  <2>3. Good(nn) /\ Past(nn) = Len(nn.cs) + 1
    BY <1>10, <1>11 DEF Good
  <2> QED
    BY <1>2, <1>3, <1>13, <2>1, <2>2, <2>3, CloseGood
<1>15. m' = Pop(m, f.status) \/ m' = luaF_close(nn, th, f.level, status, FALSE)
  BY DEF CloseProtected, nn, mm, g, status
<1> QED
  BY <1>4, <1>14, <1>15

SetHandler(mm, h, e) == [mm EXCEPT !.L[h].errfunc = e]

LEMMA ThenHandler ==
  ASSUME NEW ll, Core(ll), NEW mm, Keeps(ll, mm), NEW h \in Threads, NEW e \in Int, NEW r
  PROVE  Keeps(ll, SetHandler(mm, h, e)) /\ SetHandler(Pop(mm, r), h, e) = Pop(SetHandler(mm, h, e), r)
<1>1. mm \in MachineType /\ mm.cs # <<>> /\ ll.cs \in Seq(Activation) /\ mm.L \in [Threads -> Thread] /\ mm.L[h] \in Thread
  BY KeepsMachine, MachineFields
<1> DEFINE x == [mm.L[h] EXCEPT !.errfunc = e]
           nn == [mm EXCEPT !.L[h] = x]
<1>2. x \in Thread /\ SameThread(mm.L[h], x) /\ x.status = mm.L[h].status
  BY <1>1 DEF Thread, SameThread, SameCalls
<1>3. SetHandler(mm, h, e) = nn
  BY <1>1 DEF SetHandler
<1>4. SetHandler(Pop(mm, r), h, e) = Pop(nn, r)
  BY <1>1 DEF SetHandler, Pop, MachineType
<1> HIDE DEF x
<1>5. Keeps(ll, nn)
  BY <1>2, ThenThread
<1> QED
  BY <1>3, <1>4, <1>5

LEMMA ThenShrink ==
  ASSUME NEW ll, Core(ll), NEW mm, Keeps(ll, mm), NEW h \in Threads
  PROVE  Keeps(ll, shrinkstack(mm, h))
<1>1. mm \in MachineType /\ mm.cs # <<>> /\ ll.cs \in Seq(Activation) /\ mm.L \in [Threads -> Thread] /\ mm.L[h] \in Thread
  BY KeepsMachine, MachineFields
<1> DEFINE b == mm.L[h].over /\ InUse(mm.L[h]) > program.stack
           x == [mm.L[h] EXCEPT !.over = b]
           nn == [mm EXCEPT !.L[h] = x]
<1>2. b \in BOOLEAN
  OBVIOUS
<1>3. shrinkstack(mm, h) = nn
  BY <1>1 DEF shrinkstack
<1> HIDE DEF b
<1>4. x \in Thread /\ SameThread(mm.L[h], x) /\ x.status = mm.L[h].status
  BY <1>1, <1>2 DEF Thread, SameThread, SameCalls
<1> HIDE DEF x
<1>5. Keeps(ll, nn)
  BY <1>4, ThenThread
<1> QED
  BY <1>3, <1>5

LEMMA ProtectedDoneSound ==
  ASSUME Sound(m), ProtectedDone
  PROVE  Sound(m')
<1>1. f.op = "pcall" /\ Back
  BY DEF ProtectedDone, On
<1>2. /\ Core(m) /\ Good(m) /\ f = Last(m.cs) /\ f \in Activation /\ m.ret \in Statuses /\ th \in Threads
      /\ f \in [op : {"pcall"}, th : Threads, ci : Nat, errfunc : Int, top : Int, pc : Places, status : Statuses]
  BY <1>1, TopFacts, ActivationKinds, MachineFields
<1>3. f.errfunc \in Int /\ f.top \in Int /\ m.ret \in Results
  BY <1>1, <1>2 DEF Back, Statuses
<1> DEFINE ll == SetHandler(m, th, f.errfunc)
           g == [f EXCEPT !.pc = "closing"]
           mm == At(CutCI(m, th, f.ci), g)
<1>4. Sound(Pop(ll, "ok"))
  <2>1. Keeps(m, ll)
    BY <1>2, <1>3, KeepsSelf, ThenHandler
  <2> HIDE DEF ll
  <2>2. "ok" \in Results
    BY DEF Results
  <2> QED
    BY <1>1, <1>2, <2>1, <2>2, PopSound
<1>5. Pop(ll, "ok") = SetHandler(Pop(m, "ok"), th, f.errfunc)
  BY <1>2, <1>3, KeepsSelf, ThenHandler
<1>6. /\ g \in [op : {"pcall"}, th : Threads, ci : Nat, errfunc : Int, top : Int, pc : Places, status : Statuses]
      /\ g.th = f.th /\ g.op = f.op /\ g.ci = f.ci
  BY <1>2 DEF Places
<1>7. g \in Activation
  BY <1>6, Zenon DEF Activation
<1>8. Similar(f, g)
  BY <1>1, <1>6 DEF Similar, Waits
<1> HIDE DEF g
<1>9. /\ Good(mm) /\ Past(mm) = Len(mm.cs) + 1 /\ Last(mm.cs) = g /\ Present(mm.cs, th) /\ mm.L[th].status = "ok"
      /\ g.op = "pcall" /\ Called(g) = th
  BY <1>1, <1>6, <1>7, <1>8, CutAtGood
<1> HIDE DEF mm
<1>10. Sound(closeprotected(mm, th, f.top, m.ret))
  BY <1>2, <1>3, <1>9, ClosepGood
<1>11. m' = SetHandler(Pop(m, "ok"), th, f.errfunc) \/ m' = closeprotected(mm, th, f.top, m.ret)
  BY DEF ProtectedDone, SetHandler, mm, g
<1> HIDE DEF ll
<1> QED
  BY <1>4, <1>5, <1>10, <1>11

LEMMA ProtectedFailedSound ==
  ASSUME Sound(m), ProtectedFailed
  PROVE  Sound(m')
<1>1. f.op = "pcall" /\ Back
  BY DEF ProtectedFailed, On
<1>2. /\ Core(m) /\ Good(m) /\ f = Last(m.cs) /\ f \in Activation /\ m.ret \in Statuses /\ th \in Threads
      /\ f \in [op : {"pcall"}, th : Threads, ci : Nat, errfunc : Int, top : Int, pc : Places, status : Statuses]
  BY <1>1, TopFacts, ActivationKinds, MachineFields
<1>3. f.errfunc \in Int /\ f.top + 1 \in Int /\ m.ret \in Results
  BY <1>1, <1>2 DEF Back, Statuses
<1> DEFINE ll == SetTop(m, th, f.top + 1)
           kk == shrinkstack(ll, th)
           mm == SetHandler(kk, th, f.errfunc)
<1>4. Keeps(m, ll)
  BY <1>2, <1>3, KeepsSelf, ThenTop
<1> HIDE DEF ll
<1>5. Keeps(m, kk)
  BY <1>2, <1>4, ThenShrink
<1> HIDE DEF kk
<1>6. Keeps(m, mm) /\ SetHandler(Pop(kk, m.ret), th, f.errfunc) = Pop(mm, m.ret)
  BY <1>2, <1>3, <1>5, ThenHandler
<1>7. m' = SetHandler(Pop(kk, m.ret), th, f.errfunc)
  BY DEF ProtectedFailed, SetHandler, ll, kk
<1> HIDE DEF mm
<1>8. Sound(Pop(mm, m.ret))
  BY <1>1, <1>2, <1>3, <1>6, PopSound
<1> QED
  BY <1>6, <1>7, <1>8

LEMMA SetTopFields ==
  ASSUME NEW mm \in MachineType, NEW h \in Threads, NEW n \in Int
  PROVE  LET nn == SetTop(mm, h, n)
         IN /\ nn \in MachineType /\ nn.cs = mm.cs /\ nn.ret = mm.ret /\ Others(mm, nn, h)
            /\ nn.L[h].errorJmp = mm.L[h].errorJmp /\ nn.L[h].nny = mm.L[h].nny /\ nn.L[h].status = mm.L[h].status
            /\ nn.L[h].ci = mm.L[h].ci /\ nn.L[h].top = n
<1>1. mm.L \in [Threads -> Thread] /\ mm.L[h] \in Thread
  BY MachineFields
<1> DEFINE x == [mm.L[h] EXCEPT !.top = n]
           nn == [mm EXCEPT !.L[h] = x]
<1>2. /\ x \in Thread
      /\ x.errorJmp = mm.L[h].errorJmp /\ x.nny = mm.L[h].nny /\ x.status = mm.L[h].status
      /\ x.ci = mm.L[h].ci /\ x.top = n
  BY <1>1 DEF Thread
<1>3. SetTop(mm, h, n) = nn
  BY <1>1 DEF SetTop
<1> HIDE DEF x
<1>4. nn \in MachineType /\ nn.cs = mm.cs /\ nn.ret = mm.ret /\ Others(mm, nn, h) /\ nn.L[h] = x
  BY <1>1, <1>2 DEF MachineType, Others
<1> HIDE DEF nn
<1> QED
  BY <1>2, <1>3, <1>4

(* The activation of a function ends with its CallInfo.                    *)
LEMMA FunctionEnds ==
  ASSUME Sound(m), Owns(f), NEW mm, Keeps(m, mm), NEW top \in Int, NEW b \in BOOLEAN
  PROVE  /\ Sound(Pop(SetTop(CutCI(mm, th, f.ci - 1), th, top), "done"))
         /\ Sound(Pop(lua_assert(SetTop(CutCI(mm, th, f.ci - 1), th, top), b), "done"))
<1> DEFINE q == f.ci - 1
           g == Last(mm.cs)
           ll == CutCI(mm, th, q)
           kk == SetTop(ll, th, top)
           jj == lua_assert(kk, b)
<1>1. /\ Core(m) /\ Good(m) /\ f = Last(m.cs) /\ f \in Activation /\ th \in Threads /\ f.op # "host"
      /\ f.ci \in 2..Len(m.L[th].ci) /\ Past(m) = Len(m.cs) + 1 /\ ~Waits(f) /\ f.op \notin {"ccall", "try", "closethread"}
  <2>1. /\ f.op # "host" /\ f.op # "resume" /\ f.op # "closethread" /\ ~Waits(f)
        /\ f.op \notin {"ccall", "try", "closethread"}
    BY DEF Owns, Waits
  <2> QED
    BY <2>1, TopFacts, CoreFacts DEF L
<1>2. /\ Core(mm) /\ Settled(mm) /\ Len(mm.cs) = Len(m.cs) /\ Similar(f, g) /\ g \in Activation /\ Past(mm) = Past(m)
      /\ g.ci = f.ci /\ mm \in MachineType /\ mm.cs # <<>>
  <2>1. Holds(f)
    BY DEF Holds
  <2> QED
    BY <1>1, <2>1, KeepsFacts, KeepsMachine DEF Good, Keeps
<1>3. g.th = th /\ Owns(g) /\ ~Waits(g) /\ g.op \notin {"host", "ccall", "try", "closethread"} /\ ~Crosses(g)
  <2>1. g.th = f.th /\ Owns(g) /\ ~Waits(g) /\ g.op \notin {"host", "ccall", "try", "closethread"}
    BY <1>1, <1>2, SimilarFacts
  <2> QED
    BY <2>1 DEF th, Waits, Crosses
<1>4. q \in Nat /\ q \in 0..Len(mm.L[th].ci) /\ q = g.ci - 1 /\ mm.L[th].ci \in Seq(CallInfo)
  <2>1. Len(mm.L[th].ci) = Len(m.L[th].ci)
    BY <1>1 DEF Keeps, SameThread, SameCalls
  <2> QED
    BY <1>1, <1>2, <2>1, MachineFields
<1> HIDE DEF q, g
<1>5. ll \in MachineType /\ ll.cs = mm.cs /\ Others(mm, ll, th) /\ ll.L[th] = [mm.L[th] EXCEPT !.ci = SubSeq(@, 1, q)]
  BY <1>1, <1>2, <1>4, CutCIFacts
<1> HIDE DEF ll
<1>6. /\ kk \in MachineType /\ kk.cs = ll.cs /\ Others(ll, kk, th)
      /\ kk.L[th].errorJmp = ll.L[th].errorJmp /\ kk.L[th].nny = ll.L[th].nny /\ kk.L[th].status = ll.L[th].status
      /\ kk.L[th].ci = ll.L[th].ci
  <2>1. ll \in MachineType /\ th \in Threads /\ top \in Int
    BY <1>1, <1>5
  <2> QED
    BY <2>1, SetTopFields
<1> HIDE DEF kk
<1>7. jj \in MachineType /\ jj.cs = kk.cs /\ jj.L = kk.L
  BY <1>6, AssertFacts
<1> HIDE DEF jj
<1>8. /\ \A t \in Threads : kk.L[t].errorJmp = mm.L[t].errorJmp /\ kk.L[t].nny = mm.L[t].nny /\ kk.L[t].status = mm.L[t].status
      /\ \A t \in Threads \ {th} : kk.L[t] = mm.L[t]
      /\ kk.L[th].ci = SubSeq(mm.L[th].ci, 1, q)
  <2>1. mm.L[th] \in Thread /\ ll.L[th] \in Thread
    BY <1>1, <1>2, <1>5, MachineFields
  <2>2. /\ ll.L[th].errorJmp = mm.L[th].errorJmp /\ ll.L[th].nny = mm.L[th].nny /\ ll.L[th].status = mm.L[th].status
        /\ ll.L[th].ci = SubSeq(mm.L[th].ci, 1, q)
    BY <1>5, <2>1 DEF Thread
  <2> QED
    BY <1>5, <1>6, <2>2 DEF Others
<1>9. /\ Len(kk.L[th].ci) = q
      /\ \A k \in 1..q : kk.L[th].ci[k] = mm.L[th].ci[k]
  BY <1>4, <1>8, CutFacts
<1>10. ASSUME NEW ii \in MachineType, ii.cs = kk.cs, ii.L = kk.L
       PROVE  Sound(Pop(ii, "done"))
  <2> DEFINE nn == Pop(ii, "done")
  <2>1. nn \in MachineType /\ nn.cs = Front(mm.cs) /\ nn.ret = "done" /\ nn.L = kk.L
    <3>1. "done" \in Statuses /\ ii.cs # <<>>
      BY <1>2, <1>5, <1>6, <1>10 DEF Statuses, Results
    <3> QED
      BY <1>5, <1>6, <1>10, <3>1, PopFacts
  <2> HIDE DEF nn
  <2>2. MayReturn(mm, g)
    BY <1>1, <1>2, <1>3 DEF MayReturn, g
  <2>3. ReturnsFrom(mm, nn, g)
    BY <1>3, <1>4, <1>8, <1>9, <2>1 DEF ReturnsFrom, SameCalls
  <2>4. \A t \in Threads : nn.L[t].status = mm.L[t].status
    BY <1>8, <2>1
  <2>5. Sound(nn)
    BY <1>2, <1>3, <2>2, <2>3, <2>4, ReturnSound DEF Good
  <2> QED
    BY <2>5 DEF nn
<1>11. Sound(Pop(kk, "done")) /\ Sound(Pop(jj, "done"))
  BY <1>6, <1>7, <1>10
<1> QED
  BY <1>11 DEF jj, kk, ll, q

LEMMA PosCallSound ==
  ASSUME Sound(m), PosCall
  PROVE  Sound(m')
<1> DEFINE c == [ci EXCEPT !.clsret = TRUE]
           d == [ci EXCEPT !.clsret = FALSE]
           g == [f EXCEPT !.pc = "closed"]
           ll == SetCI(m, c)
           mm == At(ll, g)
           kk == SetCI(m, d)
<1>1. f.op = "poscall"
  BY DEF PosCall, On
<1>2. /\ Core(m) /\ Good(m) /\ f = Last(m.cs) /\ f \in Activation /\ th \in Threads /\ Keeps(m, m) /\ ci \in CallInfo
      /\ f \in [op : {"poscall", "finishCcall"}, th : Threads, ci : Nat, pc : Places]
      /\ Works(m, th) /\ Owns(f) /\ ci = L.ci[current] /\ current = f.ci
  <2>1. MayFail(f) /\ ~Waits(f) /\ Owns(f)
    BY <1>1 DEF MayFail, Waits, Owns
  <2> QED
    BY <1>1, <2>1, TopFacts, ActivationKinds, KeepsSelf DEF ci
<1>3. c \in CallInfo /\ c.fn = ci.fn /\ c.fresh = ci.fresh /\ d \in CallInfo /\ d.fn = ci.fn /\ d.fresh = ci.fresh /\ ci.func \in Int
  BY <1>2 DEF CallInfo
<1> HIDE DEF c, d
<1>4. Keeps(m, ll) /\ Keeps(m, kk)
  BY <1>2, <1>3, ThenCI
<1>5. ll.cs = m.cs /\ kk.cs = m.cs
  BY <1>2, <1>3, ThenCI
<1>6. Sound(luaF_close(mm, th, ci.func, "ktop", TRUE))
  <2>1. /\ g \in [op : {"poscall", "finishCcall"}, th : Threads, ci : Nat, pc : Places]
        /\ g.th = f.th /\ g.op = f.op /\ g.ci = f.ci
    BY <1>2 DEF Places
  <2>2. g \in Activation
    BY <2>1, Zenon DEF Activation
  <2>3. Similar(f, g)
    BY <1>1, <2>1 DEF Similar, Waits
  <2> HIDE DEF g, ll
  <2>4. ll \in MachineType /\ ll.cs # <<>>
    BY <1>2, <1>4, KeepsMachine
  <2>5. mm \in MachineType /\ mm.cs = [ll.cs EXCEPT ![Len(ll.cs)] = g] /\ mm.L = ll.L
    BY <2>2, <2>4, AtFacts
  <2> HIDE DEF mm
  <2>6. Keeps(m, mm) /\ Last(mm.cs) = g
    <3>1. Similar(Last(ll.cs), g) /\ g.ci = Last(ll.cs).ci /\ g.op # "closethread"
      BY <1>1, <1>2, <1>5, <2>1, <2>3
    <3> QED
      BY <1>2, <1>4, <2>2, <2>5, <3>1, ThenActivation
  <2>7. Works(mm, th) /\ Free(Last(mm.cs))
    <3>1. Free(f)
      BY <1>1 DEF Free
    <3> QED
      BY <1>2, <2>6, <3>1, KeepsWorks
  <2>8. "ktop" \in Statuses /\ TRUE \in BOOLEAN
    BY DEF Statuses, Results
  <2> QED
    BY <1>3, <2>7, <2>8, CloseWorks
<1>7. Sound(Pop(Finished(kk, th), "done"))
  <2> DEFINE info == kk.L[th].ci[f.ci]
             b == ~info.ypcall /\ ~info.clsret
             top == info.func + 1
  <2>1. f.ci \in 2..Len(m.L[th].ci) /\ kk \in MachineType
    BY <1>2, <1>4, TopFacts, KeepsMachine DEF L
  <2>2. Len(kk.L[th].ci) = Len(m.L[th].ci) /\ kk.L[th].ci \in Seq(CallInfo)
    BY <1>2, <1>4, <2>1, MachineFields DEF Keeps, SameThread, SameCalls
  <2>3. info \in CallInfo
    BY <2>1, <2>2
  <2>4. top \in Int /\ b \in BOOLEAN
    <3> HIDE DEF info
    <3> QED
      BY <2>3, InfoFields
  <2>5. Last(kk.cs).ci = f.ci
    BY <1>2, <1>5
  <2>6. Finished(kk, th) = lua_assert(SetTop(CutCI(kk, th, f.ci - 1), th, top), b)
    BY <2>5 DEF Finished
  <2> HIDE DEF top, b, kk
  <2>7. Sound(Pop(lua_assert(SetTop(CutCI(kk, th, f.ci - 1), th, top), b), "done"))
    BY <1>2, <1>4, <2>4, FunctionEnds
  <2> QED
    BY <2>6, <2>7
<1>8. m' = luaF_close(mm, th, ci.func, "ktop", TRUE) \/ m' = Pop(Finished(kk, th), "done")
  BY DEF PosCall, c, d
<1> QED
  BY <1>6, <1>7, <1>8

LEMMA TopHolds ==
  ASSUME NEW mm, Core(mm), NEW h \in Threads, Holds(Last(mm.cs)), Last(mm.cs).th = h
  PROVE  LET n == Len(mm.cs)
             a == Last(mm.cs)
         IN /\ n \in HeldBy(mm, h) /\ n \in 1..n /\ a = mm.cs[n]
            /\ a.ci \in 1..Len(mm.L[h].ci)
            /\ \A i \in HeldBy(mm, h) : mm.cs[i].ci <= a.ci
            /\ Owns(a) => \A i \in HeldBy(mm, h) : i < n => \E k \in mm.cs[i].ci+1..a.ci : Afresh(mm.L[h].ci[k])
            /\ Len(mm.L[h].ci) >= 2 => Afresh(mm.L[h].ci[2])
            /\ \A i \in HeldBy(mm, h) : i \in 1..n /\ mm.cs[i].ci \in Nat
<1> DEFINE n == Len(mm.cs)
           a == Last(mm.cs)
<1>1. a.op # "closethread" /\ ~Waits(a)
  BY DEF Holds, Owns, Waits
<1>2. n \in Nat /\ n >= 1 /\ n \in 1..n /\ a = mm.cs[n] /\ a \in Activation /\ Past(mm) = n + 1 /\ \A i \in 1..n : mm.cs[i] \in Activation
  BY <1>1, CoreFacts
<1>3. DepthOf(mm, h, mm.L[h].ci)
  BY DEF Core, Depth
<1>4. n \in HeldBy(mm, h)
  <2>1. \A j \in n..Past(mm)-1 : j = n
    BY <1>2
  <2>2. \A j \in n..Past(mm)-1 : ~ResetsOf(mm.cs[j], h)
    BY <1>1, <1>2, <2>1 DEF ResetsOf
  <2> QED
    BY <1>2, <2>2 DEF HeldBy, Lives
<1>5. a.ci \in Nat
  BY <1>2, ActivationFields
<1>6. a.ci \in 1..Len(mm.L[h].ci)
  BY <1>2, <1>3, <1>4, <1>5 DEF DepthOf
<1>7. \A i \in HeldBy(mm, h) : i \in 1..n /\ mm.cs[i].ci \in Nat
  BY <1>2, ActivationFields DEF HeldBy
<1>8. ASSUME NEW i \in HeldBy(mm, h)
      PROVE  mm.cs[i].ci <= a.ci
  <2>1. CASE i = n
    BY <1>2, <1>5, <2>1
  <2>2. CASE i < n
    BY <1>2, <1>3, <1>4, <1>8, <2>2 DEF DepthOf
  <2> QED
    BY <1>2, <1>7, <1>8, <2>1, <2>2
<1>9. Owns(a) => \A i \in HeldBy(mm, h) : i < n => \E k \in mm.cs[i].ci+1..a.ci : Afresh(mm.L[h].ci[k])
  BY <1>2, <1>3, <1>4 DEF DepthOf
<1>10. Len(mm.L[h].ci) >= 2 => Afresh(mm.L[h].ci[2])
  BY <1>3 DEF DepthOf
<1> QED
  BY <1>2, <1>4, <1>6, <1>7, <1>8, <1>9, <1>10

LEMMA LeaveFacts ==
  ASSUME Sound(m), f.op = "execute", isLua(ci), ~ci.fresh
  PROVE  /\ f.ci - 1 \in 2..Len(m.L[th].ci) 
         /\ \A i \in HeldBy(m, th) : i < Len(m.cs) => \E k \in m.cs[i].ci+1..f.ci-1 : Afresh(m.L[th].ci[k])
<1>1. Core(m) /\ f = Last(m.cs) /\ Owns(f) /\ Holds(f) /\ th \in Threads /\ ci = m.L[th].ci[f.ci] /\ f.ci \in 2..Len(m.L[th].ci) /\ f.th = th
  <2>1. Owns(f) /\ Holds(f)
    BY DEF Owns, Holds
  <2> QED
    BY <2>1, TopFacts DEF ci, L, th
<1>2. ~Afresh(m.L[th].ci[f.ci])
  BY <1>1 DEF Afresh
<1>3. /\ Len(m.L[th].ci) >= 2 => Afresh(m.L[th].ci[2])
      /\ \A i \in HeldBy(m, th) : i < Len(m.cs) => \E k \in m.cs[i].ci+1..f.ci : Afresh(m.L[th].ci[k])
      /\ \A i \in HeldBy(m, th) : m.cs[i].ci \in Nat
  BY <1>1, TopHolds
<1>4. f.ci # 2
  BY <1>1, <1>2, <1>3
<1>5. f.ci - 1 \in 2..Len(m.L[th].ci)
  BY <1>1, <1>4
<1>6. ASSUME NEW i \in HeldBy(m, th), i < Len(m.cs)
      PROVE  \E k \in m.cs[i].ci+1..f.ci-1 : Afresh(m.L[th].ci[k])
  <2>1. PICK k \in m.cs[i].ci+1..f.ci : Afresh(m.L[th].ci[k])
    BY <1>3, <1>6
  <2>2. k # f.ci
    BY <1>2, <2>1
  <2>3. k \in m.cs[i].ci+1..f.ci-1
    BY <1>1, <1>3, <1>6, <2>2
  <2> QED
    BY <2>1, <2>3
<1> QED
  BY <1>5, <1>6

(* luaV_execute goes on in the function below.                             *)
LEMMA LeaveSound ==
  ASSUME Sound(m), f.op = "execute", isLua(ci), m' = Leave(m)
  PROVE  Sound(m')
<1> DEFINE q == f.ci - 1
           level == ci.func + 1
           done == SetTop(CutCI(m, th, q), th, level)
           g == execute(th, q)
           jj == At(done, g)
           b == isLua(Last(done.L[th].ci))
           nn == lua_assert([jj EXCEPT !.ret = "done"], b)
           aa == At(m, g)
           bb == CutCI(aa, th, q)
           ee == SetTop(bb, th, level)
<1>1. m' = IF ci.fresh THEN Pop(done, "done") ELSE nn
  BY DEF Leave
<1>2. /\ Core(m) /\ Good(m) /\ f = Last(m.cs) /\ f \in Activation /\ th \in Threads /\ Keeps(m, m) /\ ci \in CallInfo
      /\ Owns(f) /\ Holds(f) /\ m \in MachineType /\ m.cs # <<>> /\ f.ci \in 2..Len(m.L[th].ci) /\ f.th = th
      /\ m.cs \in Seq(Activation) /\ Len(m.cs) \in Nat /\ Len(m.cs) >= 1
  <2>1. Owns(f) /\ Holds(f)
    BY DEF Owns, Holds
  <2> QED
    BY <2>1, TopFacts, KeepsSelf DEF L, th
<1>3. level \in Int
  BY <1>2, InfoFields
<1>4. Sound(Pop(done, "done"))
  <2> HIDE DEF level
  <2>1. TRUE \in BOOLEAN
    OBVIOUS
  <2> QED
    BY <1>2, <1>3, <2>1, FunctionEnds
<1>5. ASSUME ~ci.fresh
      PROVE  Sound(nn)
  <2>1. /\ q \in 2..Len(m.L[th].ci)
        /\ \A i \in HeldBy(m, th) : i < Len(m.cs) => \E k \in m.cs[i].ci+1..q : Afresh(m.L[th].ci[k])
    BY <1>5, LeaveFacts
  <2>2. q \in Nat /\ q \in 1..Len(m.L[th].ci) /\ q \in 0..Len(m.L[th].ci) /\ q >= 2
    BY <2>1
  <2> HIDE DEF q, level
  <2>3. g \in Activation /\ g.op = "execute" /\ g.th = th /\ g.ci = q
    BY <1>2, <2>2 DEF execute, Activation
  <2>4. aa \in MachineType /\ aa.cs = [m.cs EXCEPT ![Len(m.cs)] = g] /\ aa.ret = "go" /\ aa.L = m.L
    <3> HIDE DEF g
    <3> QED
      BY <1>2, <2>3, AtFacts
  <2>5. Len(aa.cs) = Len(m.cs) /\ Last(aa.cs) = g /\ aa.cs \in Seq(Activation)
    <3> HIDE DEF g, aa
    <3> QED
      BY <1>2, <2>3, <2>4 DEF Last
  <2> HIDE DEF aa
  <2>6. Core(aa)
    BY <1>2, <2>1, <2>4, MoveCore
  <2> HIDE DEF g
  <2>7. \A i \in HeldBy(aa, th) : aa.cs[i].ci <= q
    <3>1. Holds(Last(aa.cs)) /\ Last(aa.cs).th = th
      BY <2>3, <2>5 DEF Holds, Owns
    <3> QED
      BY <1>2, <2>3, <2>5, <2>6, <3>1, TopHolds
  <2>8. /\ Core(bb) /\ bb.cs = aa.cs /\ bb.ret = aa.ret /\ Others(aa, bb, th)
        /\ bb.L[th].errorJmp = aa.L[th].errorJmp /\ bb.L[th].nny = aa.L[th].nny
        /\ bb.L[th].status = aa.L[th].status
    <3>1. q \in 1..Len(aa.L[th].ci)
      BY <2>2, <2>4
    <3>2. Present(aa.cs, th) /\ th # Called(Last(aa.cs)) => q >= 2
      BY <2>2
    <3> QED
      BY <1>2, <2>6, <2>7, <3>1, <3>2, CutInfosCore
  <2> HIDE DEF bb
  <2>9. bb \in MachineType /\ bb.cs # <<>>
    BY <2>8, CoreFacts
  <2>10. Keeps(bb, ee)
    BY <1>2, <1>3, <2>9, KeepTop
  <2>11. ee.cs = aa.cs /\ ee.ret = aa.ret
    BY <2>8 DEF SetTop
  <2>12. done \in MachineType /\ done.cs = m.cs
    <3>1. CutCI(m, th, q) \in MachineType /\ CutCI(m, th, q).cs = m.cs
      <4>1. m \in MachineType /\ th \in Threads /\ q \in 0..Len(m.L[th].ci)
        BY <1>2, <2>2
      <4> QED
        BY <4>1, CutCIFacts
    <3> QED
      BY <1>2, <1>3, <3>1, SetTopFields
  <2>13. done.L = ee.L
    <3>1. SetTop(CutCI(aa, th, q), th, level).L = SetTop(CutCI(m, th, q), th, level).L
      BY <1>2, <2>4 DEF SetTop, CutCI, MachineType
    <3> QED
      BY <3>1 DEF bb
  <2>14. b \in BOOLEAN
    BY DEF isLua
  <2> HIDE DEF done, b, ee
  <2>15. jj \in MachineType /\ jj.cs = [done.cs EXCEPT ![Len(done.cs)] = g] /\ jj.L = done.L
    BY <1>2, <2>3, <2>12, AtFacts
  <2> HIDE DEF jj
  <2> DEFINE ii == [jj EXCEPT !.ret = "done"]
  <2>16. ii \in MachineType /\ ii.cs = jj.cs /\ ii.L = jj.L /\ ii.ret = "done"
    BY <2>15 DEF MachineType, Statuses, Results
  <2> HIDE DEF ii
  <2>17. nn \in MachineType /\ nn.cs = ii.cs /\ nn.L = ii.L
    <3>1. nn = lua_assert(ii, b)
      BY DEF ii
    <3> QED
      BY <2>14, <2>16, <3>1, AssertFacts
  <2> HIDE DEF nn
  <2>18. nn.cs = aa.cs /\ nn.L = ee.L /\ bb.cs = aa.cs
    BY <2>4, <2>8, <2>12, <2>13, <2>15, <2>16, <2>17
  <2>19. Past(nn) = Past(bb)
    BY <2>3, <2>5, <2>18 DEF Past
  <2>20. /\ \A i \in 1..Len(bb.cs) : bb.cs[i] \in Activation
    BY <2>8, CoreFacts
  <2>21. Keeps(bb, nn)
    <3>1. SameStack(bb.cs, nn.cs)
      BY <2>18, <2>20, SimilarSelf DEF SameStack
    <3> QED
      BY <2>10, <2>17, <2>18, <2>19, <3>1 DEF Keeps
  <2>22. Core(nn) /\ (Settled(bb) => Settled(nn))
    BY <2>8, <2>21, KeepsFacts
  <2>23. Settled(bb)
    <3>1. \A t \in Threads : bb.L[t].status = m.L[t].status /\ (t # th => bb.L[t].ci = m.L[t].ci)
      BY <2>4, <2>8 DEF Others
    <3>2. Present(m.cs, th)
      BY TopFacts
    <3>3. \A t \in Threads : Present(bb.cs, t) <=> Present(m.cs, t)
      <4>1. Len(bb.cs) = Len(m.cs) /\ \A i \in 1..Len(m.cs) : bb.cs[i].th = m.cs[i].th
        <5>1. m.cs[Len(m.cs)].th = th
          BY <1>2 DEF Last
        <5> QED
          BY <1>2, <2>3, <2>4, <2>8, <5>1
      <4> QED
        BY <4>1 DEF Present
    <3>4. \A t \in Threads : bb.L[t].status = "yield" => t # th
      BY <1>2, <3>1, <3>2 DEF Good, Settled
    <3> QED
      BY <1>2, <3>1, <3>3, <3>4 DEF Good, Settled
  <2>24. Recoverable(nn)
    BY <2>3, <2>5, <2>18 DEF Recoverable
  <2> QED
    BY <2>22, <2>23, <2>24, GoodSound DEF Good
<1> HIDE DEF done, nn
<1> QED
  BY <1>1, <1>4, <1>5

LEMMA FastReturnSound ==
  ASSUME Sound(m), OP_RETURN1
  PROVE  Sound(m')
<1>1. f.op = "execute" /\ isLua(ci) /\ m' = Leave(m)
  BY DEF OP_RETURN1, Running, On
<1> QED
  BY <1>1, LeaveSound

LEMMA EndReturnSound ==
  ASSUME Sound(m), EndReturn
  PROVE  Sound(m')
<1>1. f.op = "execute" /\ isLua(ci) /\ m' = Leave(m)
  BY DEF EndReturn, On
<1> QED
  BY <1>1, LeaveSound

----------------------------------------------------------------------------
(* The end of a C function.                                                *)

LEMMA WorksKeepsSound ==
  ASSUME NEW mm, NEW h, Works(mm, h), NEW nn, Keeps(mm, nn)
  PROVE  Sound(nn)
<1>1. Works(nn, h)
  BY KeepsWorks
<1>2. Good(nn) /\ ~Waits(Last(nn.cs))
  BY <1>1 DEF Works
<1> QED
  BY <1>2, GoodSound DEF Recoverable, Waits

LEMMA ThenInfo ==
  ASSUME Sound(m), NEW mm, Keeps(m, mm)
  PROVE  Keeps(m, Unguarded(mm)) /\ Keeps(m, Guarded(mm)) /\ Keeps(m, Recovered(mm))
<1>1. Core(m) /\ th \in Threads /\ current \in 1..Len(m.L[th].ci) /\ ci \in CallInfo
  BY TopFacts DEF L
<1>2. mm \in MachineType /\ mm.cs # <<>> /\ m.cs \in Seq(Activation)
  BY <1>1, KeepsMachine
<1>3. current \in 1..Len(mm.L[th].ci) /\ mm.L \in [Threads -> Thread] /\ mm.L[th] \in Thread /\ mm.L[th].ci \in Seq(CallInfo)
  BY <1>1, <1>2, MachineFields DEF Keeps, SameThread, SameCalls
<1> DEFINE k == current
           h == th
<1>4. ASSUME NEW ll, Keeps(m, ll), NEW b \in BOOLEAN
      PROVE  Keeps(m, [ll EXCEPT !.L[h].ci[k].guard = b])
  <2> DEFINE c == [ll.L[h].ci[k] EXCEPT !.guard = b]
             nn == [ll EXCEPT !.L[h].ci[k] = c]
  <2>1. ll \in MachineType /\ ll.cs # <<>>
    BY <1>1, <1>4, KeepsMachine
  <2>2. k \in 1..Len(ll.L[h].ci) /\ ll.L[h].ci \in Seq(CallInfo)
    BY <1>1, <1>4, <2>1, MachineFields DEF Keeps, SameThread, SameCalls
  <2>3. ll.L[h].ci[k] \in CallInfo
    BY <2>2
  <2>4. c \in CallInfo /\ (Afresh(c) <=> Afresh(ll.L[h].ci[k]))
    BY <2>3 DEF CallInfo, Afresh, isLua
  <2> HIDE DEF c, k, h
  <2>5. Keeps(ll, nn)
    BY <1>1, <2>1, <2>2, <2>4, KeepCI DEF h
  <2> HIDE DEF nn
  <2>6. Keeps(m, nn)
    BY <1>2, <1>4, <2>5, KeepsTwice
  <2> QED
    BY <2>6 DEF nn, c
<1>5. Keeps(m, Unguarded(mm)) /\ Keeps(m, Guarded(mm))
  BY <1>4 DEF Unguarded, Guarded
<1>6. Keeps(m, Recovered(mm))
  <2> DEFINE ll == SetHandler(mm, h, ci.old)
             c == [ll.L[h].ci[k] EXCEPT !.ypcall = FALSE, !.recst = "ok"]
             nn == [ll EXCEPT !.L[h].ci[k] = c]
  <2>1. Keeps(m, ll)
    BY <1>1, InfoFields, ThenHandler
  <2>2. Recovered(mm) = nn
    BY DEF Recovered, SetHandler
  <2> HIDE DEF ll
  <2>3. ll \in MachineType /\ ll.cs # <<>>
    BY <1>1, <2>1, KeepsMachine
  <2>4. k \in 1..Len(ll.L[h].ci) /\ ll.L[h].ci \in Seq(CallInfo)
    BY <1>1, <2>1, <2>3, MachineFields DEF Keeps, SameThread, SameCalls
  <2>5. ll.L[h].ci[k] \in CallInfo
    BY <2>4
  <2>6. c \in CallInfo /\ (Afresh(c) <=> Afresh(ll.L[h].ci[k]))
    BY <2>5 DEF CallInfo, Afresh, isLua, Statuses, Results
  <2> HIDE DEF c, k, h
  <2>7. Keeps(ll, nn)
    BY <1>1, <2>3, <2>4, <2>6, KeepCI DEF h
  <2> HIDE DEF nn
  <2>8. Keeps(m, nn)
    BY <1>2, <2>1, <2>7, KeepsTwice
  <2> QED
    BY <2>2, <2>8
<1> QED
  BY <1>5, <1>6

LEMMA FunctionFacts ==
  ASSUME Sound(m), f.op \in {"cfunc", "finishCcall"}
  PROVE  /\ Core(m) /\ Good(m) /\ Works(m, th) /\ Free(Last(m.cs)) /\ f = Last(m.cs) /\ th \in Threads /\ f \in Activation
         /\ ci \in CallInfo /\ Keeps(m, m) /\ Past(m) = Len(m.cs) + 1 /\ Owns(f) /\ ~Waits(f) /\ f.th = th
         /\ f.ci \in Nat /\ m.ret \in Statuses /\ L \in Thread /\ L.top \in Int /\ L.errfunc \in Int
<1>1. MayFail(f) /\ ~Waits(f) /\ Free(f) /\ Owns(f) /\ f.op # "resume" /\ f.th = th
  BY DEF MayFail, Waits, Free, Owns, th
<1>2. /\ Core(m) /\ Works(m, th) /\ f = Last(m.cs) /\ ci \in CallInfo /\ th \in Threads /\ f \in Activation /\ m \in MachineType
      /\ Good(m) /\ L \in Thread /\ L.top \in Int /\ L.errfunc \in Int
  BY <1>1, TopFacts
<1>3. f.ci \in Nat
  BY <1>1, <1>2, ActivationFields DEF Holds
<1>4. m.ret \in Statuses
  BY <1>2, MachineFields
<1> QED
  BY <1>1, <1>2, <1>3, <1>4, KeepsSelf, WorksFacts

LEMMA PoscallKept ==
  ASSUME Sound(m), f.op \in {"cfunc", "finishCcall"}, NEW mm, Keeps(m, mm)
  PROVE  Sound(poscall(mm, th))
<1> DEFINE g == luaD_poscall(th, Last(mm.cs).ci)
           nn == At(mm, g)
<1>1. Core(m) /\ Works(m, th) /\ f = Last(m.cs) /\ f \in Activation /\ Owns(f) /\ Holds(f) /\ f.th = th /\ th \in Threads /\ f.ci \in Nat
  BY FunctionFacts DEF Holds
<1>2. mm \in MachineType /\ mm.cs # <<>> /\ Similar(f, Last(mm.cs)) /\ Last(mm.cs).ci = f.ci /\ Last(mm.cs) \in Activation
  BY <1>1, KeepsMachine, KeepsFacts
<1>3. g \in Activation /\ g.op = "poscall" /\ g.th = th /\ g.ci = f.ci
  BY <1>1, <1>2 DEF luaD_poscall, Activation, Places
<1>4. Similar(Last(mm.cs), g)
  <2>1. Last(mm.cs).op \in {"cfunc", "poscall", "finishCcall"} /\ Last(mm.cs).th = th /\ ~Waits(Last(mm.cs))
    <3>1. f.op \in {"cfunc", "poscall", "finishCcall"} /\ ~Waits(f)
      BY DEF Waits
    <3> QED
      BY <1>1, <1>2, <3>1, SimilarFacts
  <2> QED
    BY <1>3, <2>1 DEF Similar, Waits
<1> HIDE DEF g
<1>5. nn \in MachineType /\ nn.cs = [mm.cs EXCEPT ![Len(mm.cs)] = g] /\ nn.L = mm.L
  BY <1>2, <1>3, AtFacts
<1> HIDE DEF nn
<1>6. Keeps(m, nn)
  BY <1>1, <1>2, <1>3, <1>4, <1>5, ThenActivation
<1>7. Sound(nn)
  BY <1>1, <1>6, WorksKeepsSound
<1> QED
  BY <1>7 DEF poscall, nn, g

LEMMA FinishCallSound ==
  ASSUME Sound(m), FinishCall
  PROVE  Sound(m')
<1> DEFINE g == [f EXCEPT !.pc = "closed"]
           mm == At(m, g)
           done == IF ci.ypcall THEN Recovered(m) ELSE m
           shrunk == shrinkstack(SetTop(done, th, ci.idx + 1), th)
           ll == IF f.pc = "closed" THEN shrunk ELSE done
           nn == Unguarded(ll)
<1>1. f.op = "finishCcall"
  BY DEF FinishCall, On
<1>2. /\ Core(m) /\ Good(m) /\ Works(m, th) /\ Free(f) /\ f = Last(m.cs) /\ f \in Activation /\ th \in Threads
      /\ Keeps(m, m) /\ ci \in CallInfo /\ ci.idx \in Int /\ ci.recst \in Statuses
      /\ f \in [op : {"poscall", "finishCcall"}, th : Threads, ci : Nat, pc : Places] /\ m \in MachineType /\ m.cs # <<>>
  BY <1>1, FunctionFacts, ActivationKinds, InfoFields, CoreFacts
<1>3. Sound(luaF_close(mm, th, ci.idx, ci.recst, TRUE))
  <2>1. /\ g \in [op : {"poscall", "finishCcall"}, th : Threads, ci : Nat, pc : Places]
        /\ g.th = f.th /\ g.op = f.op /\ g.ci = f.ci
    BY <1>2 DEF Places
  <2>2. g \in Activation
    BY <2>1, Zenon DEF Activation
  <2>3. Similar(f, g) /\ g.op # "closethread"
    BY <1>1, <2>1 DEF Similar, Waits
  <2> HIDE DEF g
  <2>4. mm \in MachineType /\ mm.cs = [m.cs EXCEPT ![Len(m.cs)] = g] /\ mm.L = m.L
    BY <1>2, <2>2, AtFacts
  <2> HIDE DEF mm
  <2>5. Keeps(m, mm) /\ Last(mm.cs) = g
    BY <1>2, <2>1, <2>2, <2>3, <2>4, ThenActivation
  <2>6. Works(mm, th) /\ Free(Last(mm.cs))
    BY <1>2, <2>5, KeepsWorks
  <2> QED
    BY <1>2, <2>6, CloseWorks
<1>4. Keeps(m, done)
  BY <1>2, ThenInfo
<1> HIDE DEF done
<1>5. Keeps(m, shrunk)
  <2>1. ci.idx + 1 \in Int
    BY <1>2
  <2>2. Keeps(m, SetTop(done, th, ci.idx + 1))
    BY <1>2, <1>4, <2>1, ThenTop
  <2> QED
    BY <1>2, <2>2, ThenShrink
<1> HIDE DEF shrunk
<1>6. Keeps(m, ll)
  BY <1>4, <1>5
<1> HIDE DEF ll
<1>7. Keeps(m, nn)
  BY <1>6, ThenInfo
<1> HIDE DEF nn
<1>8. Sound(poscall(nn, th))
  BY <1>1, <1>7, PoscallKept
<1>9. m' = luaF_close(mm, th, ci.idx, ci.recst, TRUE) \/ m' = poscall(nn, th)
  BY DEF FinishCall, nn, ll, shrunk, done
<1> QED
  BY <1>3, <1>8, <1>9

----------------------------------------------------------------------------
(* Coroutines.                                                             *)

(* A coroutine is entered where nothing of it is in the stack of C.        *)
LEMMA Entered ==
  ASSUME NEW mm, Core(mm), NEW h \in Threads, Last(mm.cs).op \in {"resume", "unroll"}, Last(mm.cs).th = h
  PROVE  HeldBy(mm, h) = {} /\ Len(mm.cs) >= 3 /\ mm.cs[Len(mm.cs) - 2].op = "resumed"
<1> DEFINE n == Len(mm.cs)
           s == mm.cs
<1>1. n \in Nat /\ n >= 1 /\ s[n] = Last(s) /\ Stacked(s) /\ \A i \in 1..n : s[i] \in Activation
  BY CoreFacts
<1>2. n >= 2
  BY <1>1 DEF Stacked, Hosted
<1> DEFINE q == n - 1
<1>3. q \in 1..n-1 /\ q + 1 = n
  BY <1>1, <1>2
<1> HIDE DEF q
<1>4. MayCall(s[q], s[n])
  BY <1>1, <1>3 DEF Stacked, Linked
<1>5. s[q].op = "try" /\ s[q].th = h
  BY <1>1, <1>4 DEF MayCall, Called, Waits
<1>6. q # 1
  BY <1>1, <1>5 DEF Stacked, Hosted
<1> DEFINE p == q - 1
<1>7. p \in 1..n-1 /\ p + 1 = q /\ q \in 2..n-1
  BY <1>3, <1>6
<1>8. MayTry(s[q-1], s[q+1])
  BY <1>1, <1>5, <1>7 DEF Stacked, Tried
<1> HIDE DEF p
<1>9. q - 1 = p
  BY <1>7
<1>10. s[p].op = "resumed"
  BY <1>1, <1>3, <1>8, <1>9 DEF MayTry, Unyieldable
<1>11. s[p].co = h
  <2>1. MayCall(s[p], s[q])
    BY <1>1, <1>7 DEF Stacked, Linked
  <2> QED
    BY <1>5, <1>10, <2>1 DEF MayCall, Called, Waits
<1>12. \A j \in 1..p : s[j].th # h
  <2>1. p \in 1..n
    BY <1>7
  <2> QED
    BY <1>1, <1>10, <1>11, <2>1 DEF Stacked, Crossed, Crosses
<1>13. \A i \in 1..n : i \in 1..p \/ i = q \/ i = n
  BY <1>1, <1>3, <1>7
<1>14. HeldBy(mm, h) = {}
  BY <1>1, <1>5, <1>12, <1>13 DEF HeldBy, Lives, Holds, Owns
<1> QED
  BY <1>1, <1>3, <1>7, <1>10, <1>14

LEMMA GoOn ==
  ASSUME NEW mm, NEW h, Works(mm, h), Last(mm.cs).op \in {"resume", "unroll"}, Len(mm.L[h].ci) >= 2, NEW g \in Activation,
         g.th = h, g.op \in {"execute", "cfunc", "poscall", "finishCcall"}, g.ci = Len(mm.L[h].ci)
  PROVE  Works(Push(mm, g), h) /\ Sound(Push(mm, g)) /\ Last(Push(mm, g).cs) = g
<1> DEFINE nn == Push(mm, g)
<1>1. /\ Core(mm) /\ Good(mm) /\ mm \in MachineType /\ Past(mm) = Len(mm.cs) + 1 /\ mm.L[h].status = "ok" /\ Free(Last(mm.cs))
      /\ Last(mm.cs).th = h
  BY WorksFacts DEF Free, Good
<1>2. nn \in MachineType /\ nn.cs = Append(mm.cs, g) /\ nn.ret = "go" /\ nn.L = mm.L
  BY <1>1, PushFacts
<1> HIDE DEF nn
<1>3. Joins(mm.cs, g) /\ Present(mm.cs, g.th) /\ mm.cs[Len(mm.cs)].op # "closethread" /\ ~Crosses(g) /\ MayFail(g) /\ ~Waits(g)
  <2>1. Works(mm, h) /\ g \in Activation /\ Free(Last(mm.cs))
    BY <1>1
  <2>2. g.op \in {"execute", "cfunc", "poscall", "finishCcall", "ccall", "close", "errormsg"}
    OBVIOUS
  <2> QED
    BY <2>1, <2>2, WorksJoins
<1>4. HeldBy(mm, h) = {}
  <2>1. Core(mm) /\ Last(mm.cs).op \in {"resume", "unroll"} /\ Last(mm.cs).th = h /\ h \in Threads
    BY <1>1, WorksFacts
  <2> QED
    BY <2>1, Entered
<1>5. MayJoin(mm, g)
  BY <1>3, <1>4 DEF MayJoin
<1>6. CallsOn(mm, nn, g)
  BY <1>2 DEF CallsOn, SameCalls
<1>7. \A t \in Threads : nn.L[t].status = mm.L[t].status
  BY <1>2
<1> QED
  BY <1>1, <1>3, <1>5, <1>6, <1>7, CalledGood DEF nn

LEMMA ThenFinishOp ==
  ASSUME Sound(m)
  PROVE  Keeps(m, finishOp(m))
<1> DEFINE c == IF ci.op \in {"call", "meta"} THEN Waiting("none") ELSE ci
           b == ci.op \in {"call", "meta", "close", "return", "tail"}
           mm == SetCI(m, c)
<1>1. Core(m) /\ ci \in CallInfo /\ Keeps(m, m)
  BY TopFacts, KeepsSelf
<1>2. c \in CallInfo /\ c.fn = ci.fn /\ c.fresh = ci.fresh
  BY <1>1, WaitingFacts
<1> HIDE DEF c
<1>3. Keeps(m, mm)
  BY <1>1, <1>2, ThenCI
<1>4. b \in BOOLEAN
  OBVIOUS
<1> HIDE DEF mm, b
<1>5. Keeps(m, lua_assert(mm, b))
  BY <1>1, <1>3, <1>4, ThenAssert
<1> QED
  BY <1>5 DEF finishOp, mm, c, b

LEMMA UnrollSound ==
  ASSUME Sound(m), Unroll
  PROVE  Sound(m')
<1> DEFINE n == Len(L.ci)
           r == IF ci.op = "tail" THEN "done" ELSE "go"
           mm == finishOp(m)
           g == execute(th, n)
           nn == Push(mm, g)
           kk == [nn EXCEPT !.ret = r]
<1>1. f.op = "unroll"
  BY DEF Unroll, On
<1>2. /\ Core(m) /\ Good(m) /\ Works(m, th) /\ f = Last(m.cs) /\ f \in Activation /\ th \in Threads /\ Keeps(m, m) /\ ci \in CallInfo
      /\ n \in Nat /\ n >= 1 /\ L = m.L[th] /\ m \in MachineType
  <2>1. MayFail(f) /\ ~Waits(f)
    BY <1>1 DEF MayFail, Waits
  <2> QED
    BY <1>1, <2>1, TopFacts, KeepsSelf DEF L
<1>3. Sound(Pop(m, "done"))
  <2>1. "done" \in Results
    BY DEF Results
  <2> QED
    BY <1>1, <1>2, <2>1, PopSound
<1>4. ASSUME NEW ll, Keeps(m, ll), n >= 2, NEW a \in Activation, a.th = th,
             a.op \in {"execute", "cfunc", "poscall", "finishCcall"}, a.ci = n
      PROVE  Works(Push(ll, a), th) /\ Sound(Push(ll, a)) /\ Last(Push(ll, a).cs) = a
  <2>1. Works(ll, th)
    BY <1>2, <1>4, KeepsWorks
  <2>2. Len(ll.L[th].ci) = n
    BY <1>2, <1>4 DEF Keeps, SameThread, SameCalls
  <2>3. Last(ll.cs).op \in {"resume", "unroll"}
    <3>1. Similar(f, Last(ll.cs)) /\ Last(ll.cs) \in Activation
      BY <1>2, <1>4, KeepsFacts
    <3> QED
      BY <1>1, <1>2, <3>1, SimilarFacts
  <2> QED
    BY <1>4, <2>1, <2>2, <2>3, GoOn
<1>5. ASSUME n >= 2 PROVE Sound(kk)
  <2>1. g \in Activation /\ g.th = th /\ g.op = "execute" /\ g.ci = n
    BY <1>2 DEF execute, Activation
  <2> HIDE DEF g
  <2>2. Keeps(m, mm)
    BY ThenFinishOp
  <2> HIDE DEF mm, n
  <2>3. Works(nn, th) /\ Last(nn.cs) = g
    BY <1>4, <1>5, <2>1, <2>2
  <2>4. Core(nn) /\ Keeps(nn, nn)
    BY <2>3, WorksFacts, KeepsSelf
  <2> HIDE DEF nn
  <2>5. r \in Statuses /\ Last(nn.cs).op # "closethread"
    BY <2>1, <2>3 DEF Statuses, Results
  <2> HIDE DEF r
  <2>6. Keeps(nn, kk)
    BY <2>4, <2>5, ThenRet
  <2> QED
    BY <2>3, <2>6, WorksKeepsSound
<1>6. ASSUME n >= 2 PROVE Sound(finishCcall)
  <2> DEFINE b == ci.k = "cont" /\ yieldable(L)
             ll == lua_assert(m, ci.tbc)
             jj == lua_assert(m, b)
             a == luaD_poscall(th, n)
             c == [op |-> "finishCcall", th |-> th, ci |-> n, pc |-> "start"]
  <2>1. ci.tbc \in BOOLEAN /\ b \in BOOLEAN
    BY <1>2, InfoFields DEF yieldable
  <2> HIDE DEF b
  <2>2. Keeps(m, ll) /\ Keeps(m, jj)
    BY <1>2, <2>1, ThenAssert
  <2>3. /\ a \in Activation /\ a.th = th /\ a.op = "poscall" /\ a.ci = n
        /\ c \in Activation /\ c.th = th /\ c.op = "finishCcall" /\ c.ci = n
    BY <1>2 DEF luaD_poscall, Activation, Places
  <2>4. finishCcall = IF ci.clsret THEN Push(ll, a) ELSE Push(jj, c)
    BY DEF finishCcall, b
  <2> HIDE DEF ll, jj, a, c, n
  <2>5. Sound(Push(ll, a)) /\ Sound(Push(jj, c))
    BY <1>4, <1>6, <2>2, <2>3
  <2> QED
    BY <2>4, <2>5
<1>7. m' = Pop(m, "done") \/ (n >= 2 /\ m' = kk) \/ (n >= 2 /\ m' = finishCcall)
  <2>1. n = 1 \/ n >= 2
    BY <1>2, OneOrMore
  <2> QED
    BY <2>1 DEF Unroll, ExecuteAgain
<1> HIDE DEF kk, n
<1> QED
  BY <1>3, <1>5, <1>6, <1>7

LEMMA ResumeSound ==
  ASSUME Sound(m), Resume
  PROVE  Sound(m')
<1> DEFINE g == [op |-> "unroll", th |-> th]
           rest == At(m, g)
           x == [rest.L[th] EXCEPT !.status = "ok"]
           woken == [rest EXCEPT !.L[th] = x]
           n == Len(L.ci)
           a == IF ci.k = "cont" THEN [op |-> "cfunc", th |-> th, ci |-> n, pc |-> "continued", co |-> th]
                ELSE luaD_poscall(th, n)
           b == L.status = "yield" /\ ci.k # "junk"
           nn == lua_assert(Push(woken, a), b)
<1>1. f.op = "resume" /\ m' = IF L.status = "ok" THEN ccall(rest, th, 1, "lua", 0, 0) ELSE nn
  <2>1. [rest EXCEPT !.L[th].status = "ok"] = woken
    OBVIOUS
  <2> QED
    BY <2>1 DEF Resume, On
<1>2. /\ Core(m) /\ f = Last(m.cs) /\ f \in Activation /\ th \in Threads /\ Keeps(m, m) /\ ci \in CallInfo /\ f.th = th
      /\ n \in Nat /\ n >= 1 /\ L = m.L[th] /\ m \in MachineType /\ m.cs # <<>> /\ Present(m.cs, th)
  BY TopFacts, KeepsSelf DEF L, th
<1>3. /\ \A t \in Threads : Present(m.cs, t) => m.L[t].status = "ok" \/ (t = th /\ m.L[t].status = "yield")
      /\ \A t \in Threads : m.L[t].status = "yield" => Len(m.L[t].ci) >= 2
  BY <1>2 DEF Sound, Awake, Waking
<1>4. g \in Activation /\ g.op = "unroll" /\ g.th = th
  BY <1>2 DEF Activation
<1>5. Similar(f, g) /\ ~Holds(g) /\ g.op # "closethread"
  BY <1>1, <1>2, <1>4 DEF Similar, Waits, Holds, Owns
<1> HIDE DEF g
<1>6. rest \in MachineType /\ rest.cs = [m.cs EXCEPT ![Len(m.cs)] = g] /\ rest.L = m.L
  BY <1>2, <1>4, AtFacts
<1> HIDE DEF rest
<1>7. Keeps(m, rest) /\ Last(rest.cs) = g
  BY <1>2, <1>4, <1>5, <1>6, KeepActivation
<1>8. ASSUME L.status = "ok" PROVE Sound(ccall(rest, th, 1, "lua", 0, 0))
  <2>1. Settled(m)
    BY <1>2, <1>3, <1>8 DEF Settled
  <2>2. Works(m, th) /\ MayFail(f) /\ ~Waits(f)
    BY <1>1, <1>2, <2>1 DEF Works, Good, MayFail, Waits
  <2>3. Works(rest, th)
    BY <1>7, <2>2, KeepsWorks
  <2>4. Free(Last(rest.cs)) /\ 0 \in Int /\ 0 \in {0, 1} /\ 1 \in Int /\ "lua" \in FunctionNames
    BY <1>4, <1>7 DEF Free, FunctionNames
  <2> QED
    BY <2>3, <2>4, CcallWorks
<1>9. ASSUME L.status # "ok" PROVE Sound(nn)
  <2>1. L.status = "yield" /\ n >= 2
    BY <1>2, <1>3, <1>9
  <2>2. x \in Thread /\ x.errorJmp = m.L[th].errorJmp /\ x.nny = m.L[th].nny /\ x.ci = m.L[th].ci /\ x.status = "ok"
    <3>1. rest.L[th] \in Thread /\ rest.L[th] = m.L[th]
      BY <1>2, <1>6, MachineFields
    <3> QED
      BY <3>1 DEF Thread
  <2> HIDE DEF x
  <2>3. woken \in MachineType /\ woken.cs = rest.cs /\ woken.ret = rest.ret /\ woken.L[th] = x /\ \A t \in Threads \ {th} : woken.L[t] = m.L[t]
    BY <1>2, <1>6, <2>2 DEF MachineType
  <2> HIDE DEF woken
  <2>4. Core(rest) /\ \A t \in Threads : Present(rest.cs, t) <=> Present(m.cs, t)
    BY <1>2, <1>7, KeepsFacts
  <2>5. Core(woken)
    <3>1. SameStack(rest.cs, woken.cs)
      BY <2>3, <2>4, CoreFacts, SimilarSelf DEF SameStack
    <3>2. \A t \in Threads : SameThread(rest.L[t], woken.L[t])
      BY <1>6, <2>2, <2>3 DEF SameThread, SameCalls
    <3>3. Past(woken) = Past(rest)
      BY <2>3 DEF Past
    <3> QED
      BY <2>3, <2>4, <3>1, <3>2, <3>3, StayCore
  <2>6. Settled(woken)
    BY <1>3, <2>2, <2>3, <2>4 DEF Settled
  <2>7. Works(woken, th)
    BY <1>4, <1>7, <2>3, <2>5, <2>6 DEF Works, Good, MayFail, Waits
  <2>8. Len(woken.L[th].ci) = n /\ n >= 2 /\ Last(woken.cs).op \in {"resume", "unroll"}
    BY <1>2, <1>4, <1>7, <2>1, <2>2, <2>3
  <2>9. a \in Activation /\ a.th = th /\ a.op \in {"execute", "cfunc", "poscall", "finishCcall"} /\ a.ci = n
    BY <1>2 DEF luaD_poscall, Activation, Places
  <2> HIDE DEF a, n
  <2>10. Works(Push(woken, a), th)
    BY <2>7, <2>8, <2>9, GoOn
  <2>11. b \in BOOLEAN
    OBVIOUS
  <2> DEFINE kk == Push(woken, a)
  <2> HIDE DEF b, kk
  <2>12. Works(kk, th)
    BY <2>10 DEF kk
  <2>13. Core(kk) /\ Keeps(kk, kk)
    BY <2>12, WorksFacts, KeepsSelf
  <2>14. Keeps(kk, lua_assert(kk, b))
    BY <2>11, <2>13, ThenAssert
  <2> QED
    BY <2>12, <2>14, WorksKeepsSound DEF kk
<1> HIDE DEF nn
<1> QED
  BY <1>1, <1>8, <1>9

LEMMA CoroutineFacts ==
  ASSUME Sound(m), f.op \in {"resumed", "closethread"}
  PROVE  /\ co \in Coroutines /\ co \in Threads /\ co # Main /\ Core(m) /\ Good(m) /\ m \in MachineType /\ m.cs # <<>>
         /\ f = Last(m.cs) /\ f \in Activation /\ th \in Threads /\ f.th = th /\ f.co = co /\ Called(f) = co /\ Waits(f)
         /\ Crosses(f) => ~Present(m.cs, co) /\ co # th
         /\ m.ret \in Statuses /\ Keeps(m, m) /\ Present(m.cs, th)
<1>1. /\ Core(m) /\ Good(m) /\ m \in MachineType /\ m.cs # <<>>
      /\ f = Last(m.cs) /\ f \in Activation /\ th \in Threads /\ f.th = th /\ Present(m.cs, th)
  BY TopFacts DEF th
<1>2. Waits(f) /\ f.co = co
  BY DEF Waits, co
<1>3. co \in Coroutines /\ Called(f) = co
  BY <1>1, <1>2, ActivationFields DEF Called
<1>4. co \in Threads /\ co # Main
  BY <1>3, ThreadsAssumption DEF Threads
<1>5. ASSUME Crosses(f) PROVE ~Present(m.cs, co)
  <2>1. Len(m.cs) \in 1..Len(m.cs) /\ f = m.cs[Len(m.cs)] /\ Stacked(m.cs) /\ Len(m.cs) \in Nat
    BY <1>1, CoreFacts, TopFacts
  <2>2. \A j \in 1..Len(m.cs) : m.cs[j].th # f.co
    BY <1>5, <2>1 DEF Stacked, Crossed
  <2> QED
    BY <1>2, <2>2 DEF Present
<1>6. Crosses(f) => co # th
  BY <1>1, <1>5
<1>7. m.ret \in Statuses
  BY <1>1, <1>4, MachineFields
<1> QED
  BY <1>1, <1>2, <1>3, <1>4, <1>5, <1>6, <1>7, KeepsSelf

LEMMA RecoverSound ==
  ASSUME Sound(m), Recover
  PROVE  Sound(m')
<1> DEFINE h == co
<1>1. f.op = "resumed" /\ m.ret \in Errors
  BY DEF Recover, On
<1>2. PICK p \in RecoverPoints(m.L[h]) :
        m' = Push(rawrunprotected([CutCI(m, h, p) EXCEPT !.L[h].ci[p].recst = m.ret], h), [op |-> "unroll", th |-> h])
  BY DEF Recover
<1>3. /\ h \in Coroutines /\ h \in Threads /\ h # Main /\ Core(m) /\ Good(m) /\ m \in MachineType /\ m.cs # <<>>
      /\ f = Last(m.cs) /\ f \in Activation /\ Called(f) = h /\ ~Present(m.cs, h) /\ m.ret \in Statuses
      /\ Past(m) = Len(m.cs) + 1
  BY <1>1, CoroutineFacts, CoreFacts DEF Crosses
<1>4. m.L[h].status = "ok" /\ m.L[h].nny = 0
  BY <1>1, <1>3 DEF Sound, Awake, Recoverable, co
<1>5. p \in 1..Len(m.L[h].ci) /\ m.L[h].ci \in Seq(CallInfo) /\ Len(m.L[h].ci) \in Nat /\ p \in 0..Len(m.L[h].ci)
  <2>1. p \in 1..Len(m.L[h].ci) /\ m.L[h].ci \in Seq(CallInfo)
    BY <1>2, <1>3, MachineFields DEF RecoverPoints
  <2> QED
    BY <2>1
<1>6. Len(m.L[h].ci) >= 2 => Afresh(m.L[h].ci[2])
  BY <1>3 DEF Core, Depth, DepthOf
<1> DEFINE ll == CutCI(m, h, p)
           c == [ll.L[h].ci[p] EXCEPT !.recst = m.ret]
           mm == [ll EXCEPT !.L[h].ci[p] = c]
           nn == rawrunprotected(mm, h)
           g == [op |-> "unroll", th |-> h]
           kk == Push(nn, g)
<1>7. m' = kk
  <2>1. [ll EXCEPT !.L[h].ci[p].recst = m.ret] = mm
    OBVIOUS
  <2> QED
    BY <1>2, <2>1
<1> HIDE DEF h
<1>8. ll \in MachineType /\ ll.cs = m.cs /\ ll.ret = m.ret /\ Others(m, ll, h) /\ ll.L[h] = [m.L[h] EXCEPT !.ci = SubSeq(@, 1, p)]
  <2>1. m \in MachineType /\ h \in Threads /\ p \in 0..Len(m.L[h].ci)
    BY <1>3, <1>5
  <2> QED
    BY <2>1, CutCIFacts
<1>9. /\ ll.L[h].ci \in Seq(CallInfo) /\ Len(ll.L[h].ci) = p /\ \A i \in 1..p : ll.L[h].ci[i] = m.L[h].ci[i]
      /\ ll.L[h].errorJmp = m.L[h].errorJmp /\ ll.L[h].nny = m.L[h].nny /\ ll.L[h].status = m.L[h].status
  <2>1. m.L[h] \in Thread
    BY <1>3, MachineFields
  <2>2. /\ ll.L[h].ci = SubSeq(m.L[h].ci, 1, p)
        /\ ll.L[h].errorJmp = m.L[h].errorJmp /\ ll.L[h].nny = m.L[h].nny /\ ll.L[h].status = m.L[h].status
    BY <1>8, <2>1 DEF Thread
  <2> QED
    BY <1>5, <2>2, CutFacts
<1>10. c \in CallInfo /\ (Afresh(c) <=> Afresh(ll.L[h].ci[p]))
  <2>1. ll.L[h].ci[p] \in CallInfo
    BY <1>5, <1>9
  <2> QED
    BY <1>3, <2>1 DEF CallInfo, Afresh, isLua
<1> HIDE DEF ll, c
<1>11. Keeps(ll, mm) /\ mm.cs = m.cs /\ mm.ret = m.ret
  <2>1. ll \in MachineType /\ ll.cs # <<>> /\ h \in Threads /\ p \in 1..Len(ll.L[h].ci)
    BY <1>3, <1>5, <1>8, <1>9
  <2>2. Keeps(ll, mm)
    BY <1>10, <2>1, KeepCI
  <2>3. mm.cs = ll.cs /\ mm.ret = ll.ret
    BY <2>1 DEF MachineType
  <2> QED
    BY <1>8, <2>2, <2>3
<1>12. Others(m, mm, h)
  <2>1. \A t \in Threads \ {h} : mm.L[t] = ll.L[t]
    BY <1>8, <1>3 DEF MachineType
  <2> QED
    BY <1>8, <2>1 DEF Others
<1> HIDE DEF mm
<1>13. /\ mm \in MachineType /\ mm.L[h].errorJmp = m.L[h].errorJmp /\ mm.L[h].nny = 0 /\ mm.L[h].status = "ok"
       /\ Len(mm.L[h].ci) = p /\ \A k \in 1..p : Afresh(mm.L[h].ci[k]) <=> Afresh(m.L[h].ci[k])
  BY <1>3, <1>4, <1>9, <1>11 DEF Keeps, SameThread, SameCalls
<1>14. Core(mm) /\ Past(mm) = Past(m)
  <2>1. Past(mm) = Past(m)
    BY <1>11 DEF Past
  <2>2. Len(mm.L[h].ci) >= 1 /\ (Len(mm.L[h].ci) >= 2 => Afresh(mm.L[h].ci[2]))
    BY <1>5, <1>6, <1>13
  <2> QED
    BY <1>3, <1>11, <1>12, <1>13, <2>1, <2>2, AbsentCore
<1>15. LET n == Len(mm.cs)
       IN /\ Core(nn) /\ nn.ret = "go" /\ Len(nn.cs) = n + 1 /\ n \in Nat /\ n >= 1
          /\ Last(nn.cs).op = "try" /\ Last(nn.cs).th = h /\ nn.cs[n + 1] = Last(nn.cs) /\ nn.cs[n] = Last(mm.cs)
          /\ Past(nn) = Len(nn.cs) + 1
          /\ \A t \in Threads : nn.L[t].status = mm.L[t].status /\ nn.L[t].ci = mm.L[t].ci /\ nn.L[t].nny = mm.L[t].nny
          /\ \A t \in Threads : Present(nn.cs, t) <=> Present(mm.cs, t) \/ t = h
  <2>1. Past(mm) = Len(mm.cs) + 1 /\ Last(mm.cs) = f
    BY <1>3, <1>11, <1>14
  <2>2. f.op \in {"resumed", "pcall", "closep"}
    BY <1>1
  <2> QED
    BY <1>3, <1>13, <1>14, <2>1, <2>2, TryCore
<1> HIDE DEF nn
<1>16. Good(nn)
  <2>1. \A t \in Threads : nn.L[t].status = m.L[t].status /\ (t # h => nn.L[t].ci = m.L[t].ci)
    BY <1>4, <1>12, <1>13, <1>15 DEF Others
  <2>2. \A t \in Threads : Present(nn.cs, t) <=> Present(m.cs, t) \/ t = h
    BY <1>11, <1>15
  <2> QED
    BY <1>3, <1>4, <1>15, <2>1, <2>2 DEF Good, Settled
<1>17. g \in Activation /\ g.op = "unroll" /\ g.th = h
  BY <1>3 DEF Activation
<1> HIDE DEF g
<1>18. MayJoin(nn, g)
  <2>1. nn.cs[Len(nn.cs)].op = "try" /\ nn.cs[Len(nn.cs)].th = h /\ nn.cs[Len(nn.cs)-1] = f /\ Len(nn.cs) \in Nat /\ Len(nn.cs) >= 2
    BY <1>3, <1>11, <1>15
  <2>2. MayCall(nn.cs[Len(nn.cs)], g)
    BY <1>17, <2>1 DEF MayCall, Called, Waits
  <2>3. MayTry(nn.cs[Len(nn.cs)-1], g)
    BY <1>1, <1>17, <2>1 DEF MayTry
  <2>4. \E j \in 1..Len(nn.cs) : nn.cs[j].op = "try" /\ nn.cs[j].th = g.th
    BY <1>17, <2>1
  <2>5. Joins(nn.cs, g)
    BY <1>17, <2>2, <2>3, <2>4 DEF Joins, Crosses
  <2>6. Present(nn.cs, g.th)
    BY <1>3, <1>15, <1>17
  <2> QED
    BY <1>17, <2>1, <2>5, <2>6 DEF MayJoin, Holds, Owns, Crosses
<1>19. nn \in MachineType
  BY <1>15, CoreFacts
<1>20. kk \in MachineType /\ kk.cs = Append(nn.cs, g) /\ kk.ret = "go" /\ kk.L = nn.L
  BY <1>17, <1>19, PushFacts
<1> HIDE DEF kk
<1>21. CallsOn(nn, kk, g)
  BY <1>17, <1>20 DEF CallsOn, SameCalls
<1>22. nn.L[g.th].status = "ok" /\ \A t \in Threads : kk.L[t].status = nn.L[t].status
  BY <1>3, <1>13, <1>15, <1>17, <1>20
<1>23. Sound(kk)
  BY <1>15, <1>16, <1>17, <1>18, <1>21, <1>22, CalledGood
<1> QED
  BY <1>7, <1>23

(* What waits for another thread returns, and sets fields of that thread.  *)
LEMMA WaitEnds ==
  ASSUME Sound(m), Crosses(f), Past(m) = Len(m.cs) + 1, NEW x \in Thread,
         x.errorJmp = m.L[co].errorJmp, x.nny = m.L[co].nny, x.ci = m.L[co].ci,
         x.status = m.L[co].status \/ x.status \in Errors, NEW b \in BOOLEAN, NEW r \in Results
  PROVE  /\ Sound(Pop([m EXCEPT !.L[co] = x], r))
         /\ Sound(Pop(lua_assert([m EXCEPT !.L[co] = x], b), r))
<1> DEFINE h == co
           ll == [m EXCEPT !.L[h] = x]
           kk == lua_assert(ll, b)
<1>1. f.op \in {"resumed", "closethread"}
  BY DEF Crosses
<1>2. /\ h \in Threads /\ Core(m) /\ Good(m) /\ m \in MachineType /\ m.cs # <<>> /\ f = Last(m.cs) /\ f \in Activation /\ f.co = h
      /\ m.L \in [Threads -> Thread] /\ f.op \notin {"host", "try", "ccall"} /\ ~Owns(f)
  <2>1. /\ h \in Threads /\ Core(m) /\ Good(m) /\ m \in MachineType /\ m.cs # <<>> /\ f = Last(m.cs) /\ f \in Activation /\ f.co = h
    BY <1>1, CoroutineFacts
  <2>2. f.op \notin {"host", "try", "ccall"} /\ ~Owns(f)
    BY <1>1 DEF Owns
  <2> QED
    BY <2>1, <2>2, MachineFields
<1> HIDE DEF h
<1>3. ll \in MachineType /\ ll.cs = m.cs /\ ll.L[h] = x /\ \A t \in Threads \ {h} : ll.L[t] = m.L[t]
  BY <1>2 DEF MachineType
<1> HIDE DEF ll
<1>4. kk \in MachineType /\ kk.cs = m.cs /\ kk.L = ll.L
  BY <1>3, AssertFacts
<1> HIDE DEF kk
<1>5. x.errorJmp = m.L[h].errorJmp /\ x.nny = m.L[h].nny /\ x.ci = m.L[h].ci /\ (x.status = m.L[h].status \/ x.status \in Errors)
  BY DEF h
<1>6. ASSUME NEW ii \in MachineType, ii.cs = m.cs, ii.L = ll.L
      PROVE  Sound(Pop(ii, r))
  <2> DEFINE nn == Pop(ii, r)
  <2>1. r \in Statuses /\ r # "go"
    BY DEF Statuses, Results, Errors
  <2>2. nn \in MachineType /\ nn.cs = Front(m.cs) /\ nn.ret = r /\ nn.L = ll.L
    BY <1>2, <1>6, <2>1, PopFacts
  <2> HIDE DEF nn
  <2>3. MayReturn(m, f)
    BY <1>2 DEF MayReturn
  <2>4. ReturnsFrom(m, nn, f)
    BY <1>2, <1>3, <1>5, <2>1, <2>2 DEF ReturnsFrom, SameCalls
  <2>5. \A t \in Threads : nn.L[t].status = m.L[t].status \/ (Crosses(f) /\ t = f.co /\ nn.L[t].status \in Errors)
    BY <1>2, <1>3, <1>5, <2>2
  <2>6. Sound(nn)
    BY <1>2, <2>3, <2>4, <2>5, ReturnSound
  <2> QED
    BY <2>6 DEF nn
<1>7. Sound(Pop(ll, r)) /\ Sound(Pop(kk, r))
  BY <1>3, <1>4, <1>6
<1> QED
  BY <1>7 DEF kk, ll, h

LEMMA EndResumeSound ==
  ASSUME Sound(m), EndResume
  PROVE  Sound(m')
<1> DEFINE x == [m.L[co] EXCEPT !.status = m.ret]
           y == [m.L[co] EXCEPT !.top = IF m.ret = "ok" THEN @ - 1 ELSE @]
           b == m.ret = m.L[co].status
<1>1. f.op = "resumed" /\ Back
  BY DEF EndResume, On
<1>2. m' = IF m.ret \in Errors THEN Pop([m EXCEPT !.L[co] = x], m.ret)
           ELSE Pop(lua_assert([m EXCEPT !.L[co] = y], b), m.ret)
  <2>1. [m EXCEPT !.L[co].status = m.ret] = [m EXCEPT !.L[co] = x]
    OBVIOUS
  <2>2. [m EXCEPT !.L[co].top = IF m.ret = "ok" THEN @ - 1 ELSE @] = [m EXCEPT !.L[co] = y]
    OBVIOUS
  <2> QED
    BY <2>1, <2>2 DEF EndResume
<1>3. Crosses(f) /\ Core(m) /\ co \in Threads /\ m.ret \in Results /\ m \in MachineType /\ Past(m) = Len(m.cs) + 1 /\ b \in BOOLEAN
  <2>1. Crosses(f) /\ f = Last(m.cs) /\ Core(m) /\ m.ret \in Statuses /\ co \in Threads /\ m \in MachineType
    BY <1>1, CoroutineFacts DEF Crosses
  <2> QED
    BY <1>1, <2>1, CoreFacts DEF Back, Statuses
<1>4. m.L[co] \in Thread
  BY <1>3, MachineFields
<1>5. CASE m.ret \in Errors
  <2>1. /\ x \in Thread /\ x.errorJmp = m.L[co].errorJmp /\ x.nny = m.L[co].nny /\ x.ci = m.L[co].ci
        /\ x.status \in Errors
    BY <1>4, <1>5 DEF Thread
  <2> HIDE DEF x
  <2>2. Sound(Pop([m EXCEPT !.L[co] = x], m.ret))
    BY <1>3, <2>1, WaitEnds
  <2> QED
    BY <1>2, <1>5, <2>2
<1>6. CASE m.ret \notin Errors
  <2>1. /\ y \in Thread /\ y.errorJmp = m.L[co].errorJmp /\ y.nny = m.L[co].nny /\ y.ci = m.L[co].ci
        /\ y.status = m.L[co].status
    <3>1. m.L[co].top \in Int
      BY <1>3, MachineFields
    <3> DEFINE v == IF m.ret = "ok" THEN m.L[co].top - 1 ELSE m.L[co].top
    <3>2. v \in Int /\ y = [m.L[co] EXCEPT !.top = v]
      BY <3>1
    <3> HIDE DEF v, y
    <3> QED
      BY <1>4, <3>2 DEF Thread
  <2> HIDE DEF y, b
  <2>2. Sound(Pop(lua_assert([m EXCEPT !.L[co] = y], b), m.ret))
    BY <1>3, <2>1, WaitEnds
  <2> QED
    BY <1>2, <1>6, <2>2
<1> QED
  BY <1>5, <1>6

LEMMA CloseThreadSound ==
  ASSUME Sound(m), CloseThread
  PROVE  Sound(m')
<1> DEFINE h == co
           status == IF m.L[h].status = "yield" THEN "ok" ELSE m.L[h].status
           base == [Head(m.L[h].ci) EXCEPT !.k = "none"]
           dis == <<base>>
           count == L.nC
           x == [m.L[h] EXCEPT !.ci = dis, !.status = "ok", !.errfunc = 0, !.nC = count, !.nny = 0]
           reset == [m EXCEPT !.L[h] = x]
           mid == [reset EXCEPT !.ret = "done"]
<1>1. f.op = "closethread" /\ m.ret = "go"
  BY DEF CloseThread, On, Back
<1>2. m' = closeprotected(reset, h, 1, status)
  BY DEF CloseThread
<1>3. /\ h \in Coroutines /\ h \in Threads /\ h # Main /\ Core(m) /\ Good(m) /\ m \in MachineType /\ m.cs # <<>>
      /\ f = Last(m.cs) /\ Called(f) = h /\ f.co = h
  BY <1>1, CoroutineFacts
<1> HIDE DEF h
<1>4. m.L \in [Threads -> Thread] /\ m.L[h] \in Thread /\ m.L[h].ci \in Seq(CallInfo) /\ L.nC \in Int
      /\ m.L[h].status \in {"ok", "yield"} \cup Errors /\ Len(m.L[h].ci) >= 1
  <2>1. DepthOf(m, h, m.L[h].ci)
    BY <1>3 DEF Core, Depth
  <2>2. Len(m.L[h].ci) >= 1
    BY <2>1 DEF DepthOf
  <2>3. m.L \in [Threads -> Thread] /\ m.L[h] \in Thread /\ m.L[h].ci \in Seq(CallInfo)
        /\ m.L[h].status \in {"ok", "yield"} \cup Errors
    BY <1>3, MachineFields
  <2> QED
    BY <2>2, <2>3, TopFacts
<1>5. status \in Results
  BY <1>4 DEF Results
<1> HIDE DEF status
<1>6. base \in CallInfo
  <2>1. m.L[h].ci[1] \in CallInfo /\ Head(m.L[h].ci) = m.L[h].ci[1]
    BY <1>4
  <2> QED
    BY <2>1 DEF CallInfo
<1> HIDE DEF base
<1>7. dis \in Seq(CallInfo) /\ Len(dis) = 1
  BY <1>6
<1> HIDE DEF dis
<1>8. x \in Thread /\ x.errorJmp = m.L[h].errorJmp /\ x.nny = 0 /\ x.status = "ok" /\ Len(x.ci) = 1
  <2>1. count \in Int
    BY <1>4
  <2> HIDE DEF count
  <2>2. m.L[h] \in Thread
    BY <1>4
  <2>3. x \in Thread
    <3> DEFINE y == [m.L[h] EXCEPT !.ci = dis, !.status = "ok"]
    <3>1. y \in Thread
      BY <1>7, <2>2 DEF Thread
    <3> DEFINE zero == 0
               z == [y EXCEPT !.errfunc = zero, !.nC = count, !.nny = zero]
    <3>2. x = z
      BY <2>2 DEF Thread
    <3>3. zero \in Int
      OBVIOUS
    <3> HIDE DEF y, x, zero
    <3>4. z \in Thread
      BY <2>1, <3>1, <3>3 DEF Thread
    <3> QED
      BY <3>2, <3>4
  <2>4. x.errorJmp = m.L[h].errorJmp /\ x.nny = 0 /\ x.status = "ok" /\ x.ci = dis
    BY <2>2 DEF Thread
  <2> HIDE DEF x
  <2> QED
    BY <1>7, <2>3, <2>4
<1> HIDE DEF x
<1>9. reset \in MachineType /\ reset.cs = m.cs /\ reset.L[h] = x /\ \A t \in Threads \ {h} : reset.L[t] = m.L[t]
  BY <1>3, <1>4, <1>8 DEF MachineType
<1> HIDE DEF reset
<1>10. mid \in MachineType /\ mid.cs = m.cs /\ mid.L = reset.L /\ mid.ret = "done"
  BY <1>9 DEF MachineType, Statuses, Results
<1>11. closeprotected(mid, h, 1, status) = closeprotected(reset, h, 1, status)
  BY <1>9 DEF closeprotected, Push, MachineType
<1> HIDE DEF mid
<1>12. Core(mid) /\ Past(mid) = Len(mid.cs) + 1
  <2>1. Others(m, mid, h) /\ mid.ret # "go" /\ mid.L[h].errorJmp = m.L[h].errorJmp /\ mid.L[h].nny = 0 /\ Len(mid.L[h].ci) = 1
    BY <1>8, <1>9, <1>10 DEF Others
  <2> QED
    BY <1>1, <1>3, <1>10, <2>1, ResetCore
<1>13. Settled(mid)
  <2>1. \A t \in Threads : mid.L[t].status = m.L[t].status \/ mid.L[t].status = "ok"
    BY <1>8, <1>9, <1>10
  <2>2. \A t \in Threads : t # h => mid.L[t] = m.L[t]
    BY <1>9, <1>10
  <2>3. mid.L[h].status = "ok"
    BY <1>8, <1>9, <1>10
  <2> QED
    BY <1>3, <1>10, <2>1, <2>2, <2>3 DEF Good, Settled
<1>14. Sound(closeprotected(mid, h, 1, status))
  <2>1. mid.L[h].status = "ok" /\ mid.L[h].nny = 0 /\ Len(mid.L[h].ci) = 1
    BY <1>8, <1>9, <1>10
  <2>2. Last(mid.cs).op = "closethread" /\ Called(Last(mid.cs)) = h /\ Last(mid.cs).op \in {"host", "pcall", "closethread"}
    BY <1>1, <1>3, <1>10
  <2>3. Good(mid) /\ 1 \in Int
    BY <1>12, <1>13 DEF Good
  <2> QED
    BY <1>3, <1>5, <1>12, <2>1, <2>2, <2>3, ClosepGood
<1> QED
  BY <1>2, <1>11, <1>14

LEMMA ThreadClosedSound ==
  ASSUME Sound(m), ThreadClosed
  PROVE  Sound(m')
<1> DEFINE h == co
           n == IF m.ret = "ok" THEN 1 ELSE 2
           ll == SetTop(m, h, n)
           x == [ll.L[h] EXCEPT !.over = FALSE]
           closed == [ll EXCEPT !.L[h] = x]
           jumps == closed.L[h].errorJmp
           p == Head(jumps)
           front == <<>>
           nn == throwTo(closed, h, p, front, m.ret)
<1>1. f.op = "closethread" /\ m.ret # "go"
  BY DEF ThreadClosed, On, Back
<1>2. m' = IF h = th THEN nn ELSE Pop(closed, m.ret)
  <2>1. [ll EXCEPT !.L[h].over = FALSE] = closed
    OBVIOUS
  <2> QED
    BY <2>1 DEF ThreadClosed, luaD_throwbaselevel
<1>3. /\ h \in Coroutines /\ h \in Threads /\ h # Main /\ Core(m) /\ Good(m) /\ m \in MachineType /\ m.cs # <<>>
      /\ f = Last(m.cs) /\ f \in Activation /\ Called(f) = h /\ f.co = h /\ m.ret \in Results /\ Keeps(m, m) /\ f.th = th /\ Present(m.cs, th)
      /\ th \in Threads
  BY <1>1, CoroutineFacts DEF Statuses
<1> HIDE DEF h
<1>4. Keeps(m, ll)
  BY <1>3, ThenTop
<1> HIDE DEF ll
<1>5. x \in Thread /\ SameThread(ll.L[h], x) /\ x.status = ll.L[h].status
  <2>1. ll.L[h] \in Thread
    BY <1>3, <1>4, KeepsMachine, MachineFields
  <2> QED
    BY <2>1 DEF Thread, SameThread, SameCalls
<1> HIDE DEF x
<1>6. Keeps(m, closed)
  BY <1>3, <1>4, <1>5, ThenThread
<1> HIDE DEF closed
<1>7. ASSUME h # th PROVE Sound(Pop(closed, m.ret))
  <2>1. Crosses(f)
    BY <1>1, <1>3, <1>7 DEF Crosses
  <2> QED
    BY <1>1, <1>3, <1>6, <2>1, PopSound
<1>8. ASSUME h = th PROVE Sound(nn)
  <2>1. /\ Core(closed) /\ Settled(closed) /\ Similar(f, Last(closed.cs)) /\ Last(closed.cs) \in Activation
        /\ \A t \in Threads : Present(closed.cs, t) <=> Present(m.cs, t)
        /\ Past(closed) = Past(m) /\ Len(closed.cs) = Len(m.cs)
    BY <1>3, <1>6, KeepsFacts DEF Good, Keeps
  <2>2. Last(closed.cs).op = "closethread" /\ Last(closed.cs).th = h /\ Called(Last(closed.cs)) = h
    <3>1. Last(closed.cs).op = "closethread" /\ Last(closed.cs).th = f.th /\ Called(Last(closed.cs)) = Called(f)
      BY <1>1, <1>3, <2>1, SimilarFacts
    <3> QED
      BY <1>3, <1>8, <3>1
  <2>3. Past(closed) = Len(closed.cs) + 1
    <3>1. Past(m) = Len(m.cs) + 1
      BY <1>1, <1>3, CoreFacts
    <3> QED
      BY <2>1, <3>1
  <2>4. jumps \in Seq(Nat) /\ closed \in MachineType
    BY <1>3, <2>1, MachineFields, CoreFacts
  <2>5. jumps # <<>>
    <3>1. Len(closed.cs) \in 1..Len(closed.cs) /\ Len(closed.cs) \in Nat /\ Last(closed.cs) = closed.cs[Len(closed.cs)] /\ Stacked(closed.cs)
      BY <2>1, CoreFacts
    <3>2. MayFail(Last(closed.cs))
      BY <2>2 DEF MayFail
    <3>3. PICK j \in 1..Len(closed.cs)-1 : closed.cs[j].op = "try" /\ closed.cs[j].th = h
      BY <2>2, <3>1, <3>2 DEF Stacked, Caught
    <3>4. IsTry(closed.cs, h, j)
      BY <3>1, <3>3 DEF IsTry
    <3>5. \E i \in 1..Len(jumps) : jumps[i] = j
      BY <1>3, <2>1, <3>4 DEF Core, Jumps, JumpsOf
    <3> QED
      BY <2>4, <3>5
  <2>6. p = jumps[1] /\ 1 \in 1..Len(jumps)
    BY <2>4, <2>5
  <2> HIDE DEF p
  <2>7. MayThrow(closed, h, p, 1)
    BY <1>3, <2>2, <2>3, <2>6 DEF MayThrow
  <2>8. MayLeave(closed, h, p, 1)
    BY <1>3 DEF MayLeave
  <2>9. front \in Seq(Nat) /\ Len(front) = 1 - 1 /\ \A i \in 1..1-1 : front[i] = closed.L[h].errorJmp[i]
    OBVIOUS
  <2> HIDE DEF front
  <2>10. /\ Core(nn)
         /\ \A t \in Threads : Present(nn.cs, t) => Present(closed.cs, t)
         /\ Last(nn.cs).op = "resumed" => Last(nn.cs).co = h /\ nn.L[h].nny = 0
         /\ \A t \in Threads : nn.L[t].status = closed.L[t].status /\ nn.L[t].ci = closed.L[t].ci
    <3> DEFINE j == 1
    <3>1. MayThrow(closed, h, p, j) /\ MayLeave(closed, h, p, j) /\ Len(front) = j - 1 /\ \A i \in 1..j-1 : front[i] = closed.L[h].errorJmp[i]
      BY <2>7, <2>8, <2>9
    <3>2. Core(closed) /\ m.ret \in Results /\ front \in Seq(Nat)
      BY <1>3, <2>1, <2>9
    <3> HIDE DEF j, jumps
    <3> QED
      BY <3>1, <3>2, ThrowsCore
  <2> HIDE DEF nn
  <2>11. closed.L[h].status = "ok"
    BY <1>3, <1>8, <2>1 DEF Settled
  <2>12. Settled(nn)
    <3>1. Settled(closed)
      BY <2>1
    <3>2. /\ \A t \in Threads : Present(nn.cs, t) => Present(closed.cs, t)
          /\ \A t \in Threads : nn.L[t].status = closed.L[t].status /\ nn.L[t].ci = closed.L[t].ci
      BY <2>10
    <3> QED
      BY <3>1, <3>2 DEF Settled
  <2>13. Recoverable(nn)
    BY <1>3, <2>10, <2>11 DEF Recoverable
  <2> QED
    BY <2>10, <2>12, <2>13, GoodSound DEF Good
<1> HIDE DEF nn
<1> QED
  BY <1>2, <1>7, <1>8

----------------------------------------------------------------------------
(* The C functions.                                                        *)

LEMMA LaterKept ==
  ASSUME NEW ll, Core(ll), NEW mm, Keeps(ll, mm), mm.cs = ll.cs, Last(ll.cs).op \in {"cfunc", "host"}, NEW pc \in Places
  PROVE  /\ Keeps(ll, Later(mm, pc))
         /\ Later(mm, pc).L = mm.L /\ Later(mm, pc).ret = mm.ret /\ Later(mm, pc) \in MachineType
         /\ Last(Later(mm, pc).cs).op = Last(ll.cs).op /\ Last(Later(mm, pc).cs).th = Last(ll.cs).th
         /\ Last(Later(mm, pc).cs) \in Activation /\ Len(Later(mm, pc).cs) = Len(ll.cs)
<1> DEFINE n == Len(ll.cs)
           a == Last(ll.cs)
           g == [a EXCEPT !.pc = pc]
           nn == [mm EXCEPT !.cs[n] = g]
<1>1. /\ mm \in MachineType /\ mm.cs # <<>> /\ ll.cs \in Seq(Activation) /\ n \in Nat /\ n >= 1 /\ a = ll.cs[n] /\ a \in Activation
  BY KeepsMachine, CoreFacts
<1>2. /\ a.op = "cfunc" => a \in [op : {"cfunc"}, th : Threads, ci : Nat, pc : Places, co : Threads]
      /\ a.op = "host" => a \in [op : {"host"}, th : {Main}, pc : Places]
  BY <1>1, ActivationKinds
<1>3. g \in Activation /\ g.op = a.op /\ g.th = a.th /\ (Holds(a) => g.ci = a.ci)
  <2>1. CASE a.op = "cfunc"
    <3>1. /\ g \in [op : {"cfunc"}, th : Threads, ci : Nat, pc : Places, co : Threads] 
          /\ g.op = a.op /\ g.th = a.th /\ g.ci = a.ci
      BY <1>2, <2>1
    <3> HIDE DEF g, a
    <3> QED
      BY <3>1, Zenon DEF Activation
  <2>2. CASE a.op = "host"
    <3>1. g \in [op : {"host"}, th : {Main}, pc : Places] /\ g.op = a.op /\ g.th = a.th
      BY <1>2, <2>2
    <3>2. ~Holds(a)
      BY <2>2 DEF Holds, Owns
    <3> HIDE DEF g, a
    <3> QED
      BY <3>1, <3>2, Zenon DEF Activation
  <2> QED
    BY <2>1, <2>2
<1>4. Similar(a, g) /\ (Holds(g) => g.ci = a.ci)
  <2>1. ~Waits(a) /\ a.op \notin {"ccall", "close", "try"}
    BY DEF Waits
  <2>2. Holds(g) => Holds(a)
    BY <1>3 DEF Holds, Owns
  <2> HIDE DEF g, a
  <2> QED
    BY <1>3, <2>1, <2>2 DEF Similar
<1>5. Later(mm, pc) = nn
  <2>1. mm.cs[Len(mm.cs)] = a
    BY <1>1
  <2> HIDE DEF a
  <2> QED
    BY <2>1 DEF Later
<1> HIDE DEF g
<1>6. nn.cs = [mm.cs EXCEPT ![Len(mm.cs)] = g] /\ nn.L = mm.L /\ nn.ret = mm.ret /\ nn \in MachineType
  <2>1. [mm.cs EXCEPT ![n] = g] \in Seq(Activation)
    BY <1>1, <1>3
  <2> QED
    BY <1>1, <2>1 DEF MachineType
<1> HIDE DEF nn
<1>7. Keeps(ll, nn) /\ Last(nn.cs) = g
  <2>1. Similar(Last(mm.cs), g) /\ (Holds(g) => g.ci = Last(mm.cs).ci)
    BY <1>4
  <2> QED
    BY <1>3, <1>6, <2>1, ThenActivation
<1>8. Len(nn.cs) = n
  BY <1>7 DEF Keeps, SameStack
<1> QED
  BY <1>3, <1>5, <1>6, <1>7, <1>8

LEMMA FunctionLater ==
  ASSUME Sound(m), f.op = "cfunc", NEW mm, Keeps(m, mm), mm.cs = m.cs, NEW pc \in Places
  PROVE  Keeps(m, Later(mm, pc)) /\ Works(Later(mm, pc), th) /\ Free(Last(Later(mm, pc).cs)) /\ Last(Later(mm, pc).cs).op = "cfunc"
<1>1. Core(m) /\ Works(m, th) /\ f = Last(m.cs)
  BY FunctionFacts
<1> DEFINE nn == Later(mm, pc)
<1>2. Keeps(m, nn) /\ Last(nn.cs).op = "cfunc"
  BY <1>1, LaterKept
<1> HIDE DEF nn
<1>3. Works(nn, th)
  BY <1>1, <1>2, KeepsWorks
<1> QED
  BY <1>2, <1>3 DEF Free, nn

LEMMA CalleeFacts ==
  ASSUME Sound(m), f.op = "cfunc"
  PROVE  Callee \in Int /\ Handler \in Int /\ ci.func \in Int
<1>1. ci.func \in Int
  BY FunctionFacts, InfoFields
<1>2. NArgs(ci.fn) \in Int
  BY DEF NArgs
<1> QED
  BY <1>1, <1>2 DEF Callee, Handler

LEMMA PcallSound ==
  ASSUME Sound(m), lua_pcallk
  PROVE  Sound(m')
<1> DEFINE h == th
           callee == Callee
           e == Handler
           c == [ci EXCEPT !.k = "cont", !.idx = callee, !.old = L.errfunc, !.ypcall = TRUE, !.guard = TRUE]
           mm == SetCI(m, c)
           x == [mm.L[h] EXCEPT !.errfunc = e, !.top = callee]
           kk == [mm EXCEPT !.L[h] = x]
           called == "called"
           one == 1
           zero == 0
           gg == SetTop(Guarded(m), h, callee)
           lua == "lua"
<1>1. f.op = "cfunc"
  BY DEF lua_pcallk, Fn, On
<1>2. m' = IF yieldable(L) THEN ccall(Later(kk, called), h, callee, lua, one, zero)
           ELSE luaD_pcall(Later(gg, called), h, callee, lua, e)
  <2>1. [mm EXCEPT !.L[h].errfunc = e, !.L[h].top = callee] = kk
    BY Zenon
  <2> QED
    BY <2>1 DEF lua_pcallk, luaD_call
<1>3. /\ h \in Threads /\ Core(m) /\ Keeps(m, m) /\ ci \in CallInfo /\ L.errfunc \in Int /\ callee \in Int /\ e \in Int
      /\ called \in Places /\ lua \in FunctionNames /\ one \in Int /\ zero \in {0, 1} /\ f = Last(m.cs)
      /\ Past(m) = Len(m.cs) + 1 /\ h = th
  BY <1>1, FunctionFacts, CalleeFacts DEF Places, FunctionNames
<1> HIDE DEF h, callee, e, called, lua, one, zero
<1>4. c \in CallInfo /\ c.fn = ci.fn /\ c.fresh = ci.fresh
  <2> DEFINE d == [ci EXCEPT !.k = "cont", !.idx = callee, !.old = L.errfunc]
  <2>1. d \in CallInfo /\ d.fn = ci.fn /\ d.fresh = ci.fresh
    BY <1>3 DEF CallInfo
  <2>2. c = [d EXCEPT !.ypcall = TRUE, !.guard = TRUE]
    BY <1>3 DEF CallInfo
  <2> HIDE DEF d, c
  <2> QED
    BY <2>1, <2>2 DEF CallInfo
<1> HIDE DEF c
<1>5. Keeps(m, mm) /\ mm.cs = m.cs
  BY <1>3, <1>4, ThenCI
<1> HIDE DEF mm
<1>6. x \in Thread /\ SameThread(mm.L[h], x) /\ x.status = mm.L[h].status
  <2>1. mm.L[h] \in Thread
    BY <1>3, <1>5, KeepsMachine, MachineFields
  <2> QED
    BY <1>3, <2>1 DEF Thread, SameThread, SameCalls
<1> HIDE DEF x
<1>7. Keeps(m, kk) /\ kk.cs = m.cs
  <2>1. Keeps(m, kk)
    BY <1>3, <1>5, <1>6, ThenThread
  <2> QED
    BY <1>5, <2>1
<1> HIDE DEF kk
<1>8. Sound(ccall(Later(kk, called), h, callee, lua, one, zero))
  <2> DEFINE ll == Later(kk, called)
  <2>1. Works(ll, h) /\ Free(Last(ll.cs))
    BY <1>1, <1>3, <1>7, FunctionLater
  <2> HIDE DEF ll
  <2>2. Sound(ccall(ll, h, callee, lua, one, zero))
    BY <1>3, <2>1, CcallWorks
  <2> QED
    BY <2>2 DEF ll
<1>9. Keeps(m, gg) /\ gg.cs = m.cs
  <2> DEFINE ii == Guarded(m)
  <2>1. Keeps(m, ii)
    BY <1>3, ThenInfo
  <2>2. ii.cs = m.cs /\ ii \in MachineType
    BY <1>3, <2>1, KeepsMachine DEF Guarded
  <2> HIDE DEF ii
  <2>3. Keeps(m, SetTop(ii, h, callee))
    BY <1>3, <2>1, ThenTop
  <2>4. SetTop(ii, h, callee).cs = ii.cs
    BY <1>3, <2>2, SetTopFacts
  <2> QED
    BY <2>2, <2>3, <2>4 DEF ii
<1> HIDE DEF gg
<1>10. Sound(luaD_pcall(Later(gg, called), h, callee, lua, e))
  <2> DEFINE ll == Later(gg, called)
  <2>1. Works(ll, h) /\ Last(ll.cs).op = "cfunc"
    BY <1>1, <1>3, <1>9, FunctionLater
  <2> HIDE DEF ll
  <2>2. Good(ll) /\ Past(ll) = Len(ll.cs) + 1 /\ Last(ll.cs).th = h
    BY <2>1, WorksFacts DEF Works
  <2>3. Last(ll.cs).op \in {"host", "cfunc"}
    BY <2>1
  <2>4. Sound(luaD_pcall(ll, h, callee, lua, e))
    BY <1>3, <2>2, <2>3, PcallGood
  <2> QED
    BY <2>4 DEF ll
<1> QED
  BY <1>2, <1>8, <1>10

LEMMA PcallDoneSound ==
  ASSUME Sound(m), pcallDone
  PROVE  Sound(m')
<1> DEFINE done == IF ci.ypcall THEN Recovered(m) ELSE m
           mm == Unguarded(done)
<1>1. f.op = "cfunc"
  BY DEF pcallDone, Fn, On
<1>2. m' = poscall(mm, th)
  BY DEF pcallDone
<1>3. Keeps(m, m)
  BY <1>1, FunctionFacts
<1>4. Keeps(m, done)
  BY <1>3, ThenInfo
<1> HIDE DEF done
<1>5. Keeps(m, mm)
  BY <1>4, ThenInfo
<1> HIDE DEF mm
<1> QED
  BY <1>1, <1>2, <1>5, PoscallKept

LEMMA FunctionReturns ==
  ASSUME Sound(m), f.op = "cfunc"
  PROVE  Sound(poscall(m, th)) /\ Sound(luaG_errormsg(m, th))
<1>1. Keeps(m, m) /\ Works(m, th) /\ Free(Last(m.cs))
  BY FunctionFacts
<1>2. Sound(poscall(m, th))
  BY <1>1, PoscallKept
<1>3. Sound(luaG_errormsg(m, th))
  BY <1>1, ErrorWorks
<1> QED
  BY <1>2, <1>3

LEMMA ReturnsSound ==
  ASSUME Sound(m), Returns
  PROVE  Sound(m')
<1>1. f.op = "cfunc" /\ m' = poscall(m, th)
  BY DEF Returns, Fn, On
<1> QED
  BY <1>1, FunctionReturns

LEMMA ErrorSound ==
  ASSUME Sound(m), lua_error
  PROVE  Sound(m')
<1>1. f.op = "cfunc" /\ m' = luaG_errormsg(m, th)
  BY DEF lua_error, Fn, On
<1> QED
  BY <1>1, FunctionReturns

LEMMA WrapFailsSound ==
  ASSUME Sound(m), auxwrapFails
  PROVE  Sound(m')
<1>1. f.op = "cfunc" /\ m' = luaG_errormsg(m, th)
  BY DEF auxwrapFails, Fn, On
<1> QED
  BY <1>1, FunctionReturns

LEMMA CallkSound ==
  ASSUME Sound(m), lua_callk
  PROVE  Sound(m')
<1> DEFINE h == th
           callee == Callee
           c == [ci EXCEPT !.k = "cont"]
           mm == SetCI(m, c)
           called == "called"
           one == 1
           zero == 0
           lua == "lua"
<1>1. f.op = "cfunc"
  BY DEF lua_callk, Fn, On
<1>2. \/ m' = ccall(Later(mm, called), h, callee, lua, one, zero)
      \/ m' = ccall(Later(m, called), h, callee, lua, one, one)
  BY DEF lua_callk, luaD_call, luaD_callnoyield
<1>3. /\ h \in Threads /\ Core(m) /\ Keeps(m, m) /\ ci \in CallInfo /\ callee \in Int
      /\ called \in Places /\ lua \in FunctionNames /\ one \in Int /\ zero \in {0, 1} /\ one \in {0, 1} /\ h = th
  BY <1>1, FunctionFacts, CalleeFacts DEF Places, FunctionNames
<1> HIDE DEF h, callee, called, lua, one, zero
<1>4. c \in CallInfo /\ c.fn = ci.fn /\ c.fresh = ci.fresh
  BY <1>3 DEF CallInfo
<1> HIDE DEF c
<1>5. Keeps(m, mm) /\ mm.cs = m.cs
  BY <1>3, <1>4, ThenCI
<1> HIDE DEF mm
<1>6. ASSUME NEW ll, Keeps(m, ll), ll.cs = m.cs, NEW n \in {0, 1}
      PROVE  Sound(ccall(Later(ll, called), h, callee, lua, one, n))
  <2> DEFINE kk == Later(ll, called)
  <2>1. Works(kk, h) /\ Free(Last(kk.cs))
    BY <1>1, <1>3, <1>6, FunctionLater
  <2> HIDE DEF kk
  <2>2. Sound(ccall(kk, h, callee, lua, one, n))
    BY <1>3, <2>1, CcallWorks
  <2> QED
    BY <2>2 DEF kk
<1>7. Sound(ccall(Later(mm, called), h, callee, lua, one, zero))
  BY <1>3, <1>5, <1>6
<1>8. Sound(ccall(Later(m, called), h, callee, lua, one, one))
  BY <1>3, <1>6
<1> QED
  BY <1>2, <1>7, <1>8

LEMMA ToCloseSound ==
  ASSUME Sound(m), lua_toclose
  PROVE  Sound(m')
<1> DEFINE h == th
           c == [ci EXCEPT !.tbc = TRUE]
           mm == SetCI(m, c)
           slot == ci.func + 1
           x == [mm.L[h] EXCEPT !.tbc = Append(@, slot)]
           kk == [mm EXCEPT !.L[h] = x]
           marked == "marked"
<1>1. f.op = "cfunc"
  BY DEF lua_toclose, Fn, On
<1>2. m' = Later(kk, marked)
  <2>1. [mm EXCEPT !.L[h].tbc = Append(@, slot)] = kk
    OBVIOUS
  <2> QED
    BY <2>1 DEF lua_toclose
<1>3. h \in Threads /\ Core(m) /\ Keeps(m, m) /\ ci \in CallInfo /\ marked \in Places /\ h = th /\ slot \in Int
  BY <1>1, FunctionFacts, CalleeFacts DEF Places
<1> HIDE DEF h, marked, slot
<1>4. c \in CallInfo /\ c.fn = ci.fn /\ c.fresh = ci.fresh
  BY <1>3 DEF CallInfo
<1> HIDE DEF c
<1>5. Keeps(m, mm) /\ mm.cs = m.cs
  BY <1>3, <1>4, ThenCI
<1> HIDE DEF mm
<1>6. x \in Thread /\ SameThread(mm.L[h], x) /\ x.status = mm.L[h].status
  <2>1. mm.L[h] \in Thread /\ mm.L[h].tbc \in Seq(Int)
    BY <1>3, <1>5, KeepsMachine, MachineFields
  <2>2. Append(mm.L[h].tbc, slot) \in Seq(Int)
    BY <1>3, <2>1
  <2> QED
    BY <2>1, <2>2 DEF Thread, SameThread, SameCalls
<1> HIDE DEF x
<1>7. Keeps(m, kk) /\ kk.cs = m.cs
  <2>1. Keeps(m, kk)
    BY <1>3, <1>5, <1>6, ThenThread
  <2> QED
    BY <1>5, <2>1
<1> HIDE DEF kk
<1>8. Keeps(m, Later(kk, marked)) /\ Works(m, th)
  BY <1>1, <1>3, <1>7, FunctionLater, FunctionFacts
<1>9. Sound(Later(kk, marked))
  BY <1>8, WorksKeepsSound
<1> QED
  BY <1>2, <1>9

LEMMA AfterMarkSound ==
  ASSUME Sound(m), AfterMark
  PROVE  Sound(m')
<1> DEFINE h == th
           level == ci.func + 1
           closed == "closed"
           status == "ktop"
           yy == FALSE
<1>1. f.op = "cfunc"
  BY DEF AfterMark, On
<1>2. \/ m' = poscall(m, th) 
      \/ m' = luaG_errormsg(m, th)
      \/ m' = luaF_close(Later(m, closed), h, level, status, yy)
  BY DEF AfterMark
<1>3. Sound(poscall(m, th)) /\ Sound(luaG_errormsg(m, th))
  BY <1>1, FunctionReturns
<1>4. h = th /\ Keeps(m, m) /\ level \in Int /\ closed \in Places /\ status \in Statuses /\ yy \in BOOLEAN
  BY <1>1, FunctionFacts, CalleeFacts DEF Places, Statuses, Results
<1> HIDE DEF h, level, closed, status, yy
<1>5. Sound(luaF_close(Later(m, closed), h, level, status, yy))
  <2> DEFINE kk == Later(m, closed)
  <2>1. Works(kk, h) /\ Free(Last(kk.cs))
    BY <1>1, <1>4, FunctionLater
  <2> HIDE DEF kk
  <2>2. Sound(luaF_close(kk, h, level, status, yy))
    BY <1>4, <2>1, CloseWorks
  <2> QED
    BY <2>2 DEF kk
<1> QED
  BY <1>2, <1>3, <1>5

(* A thread that may yield is under the setjmp of a resume.                *)
LEMMA YieldFacts ==
  ASSUME NEW mm, NEW h, Works(mm, h), Free(Last(mm.cs)), mm.L[h].nny = 0
  PROVE  /\ h \in Coroutines /\ Last(mm.L[h].errorJmp) - 1 \in 1..Len(mm.cs) 
         /\ mm.cs[Last(mm.L[h].errorJmp) - 1].op = "resumed"
<1> DEFINE s == mm.cs
           n == Len(s)
           p == Last(mm.L[h].errorJmp)
<1>1. /\ Core(mm) /\ h \in Threads /\ n \in Nat /\ n >= 1 /\ s \in Seq(Activation) /\ Last(s) = s[n] /\ Last(s).th = h
      /\ MayFail(Last(s)) /\ Past(mm) = n + 1 /\ Present(s, h)
  BY WorksFacts
<1>2. IsTry(s, h, p) /\ \A i \in p..n : s[i].op # "closethread"
  BY LastJump
<1>3. s[p].op = "try" /\ s[p].th = h /\ p \in 1..n
  BY <1>2 DEF IsTry
<1>4. Hosted(s) /\ Linked(s) /\ Tried(s) /\ Convex(s)
  BY <1>1 DEF Core, Stacked
<1> HIDE DEF p
<1>5. mm.L[h].nny = Unyielding(s, h, n + 1) /\ n + 1 \in Nat
  BY <1>1 DEF Core, Counts
<1>6. IsFiniteSet(Counting(s, h, n + 1)) /\ Cardinality(Counting(s, h, n + 1)) \in Nat
  BY <1>1, <1>5, CountingFinite
<1>7. h # Main /\ Cardinality(Counting(s, h, n + 1)) = 0
  BY <1>5, <1>6 DEF Unyielding
<1>8. Counting(s, h, n + 1) = {}
  BY <1>6, <1>7, FS_EmptySet
<1>9. p # 1 /\ p # n /\ p \in 2..n-1 /\ p - 1 \in 1..n-1
  <2>1. p # 1
    BY <1>3, <1>4 DEF Hosted
  <2>2. p # n
    BY <1>1, <1>3 DEF MayFail
  <2> QED
    BY <1>1, <1>3, <2>1, <2>2
<1>10. s[p-1].op \in {"resumed", "pcall", "closep"}
  <2>1. MayCall(s[p-1], s[p-1+1]) /\ p-1+1 = p
    BY <1>4, <1>9 DEF Linked
  <2> QED
    BY <1>3, <2>1 DEF MayCall
<1>11. MayTry(s[p-1], s[p+1])
  BY <1>3, <1>4, <1>9 DEF Tried
<1>12. \A i \in p..n : s[i].th = h
  <2>1. p \in 1..n /\ n \in 1..n /\ s[p].th = s[n].th
    BY <1>1, <1>3
  <2>2. \A i \in p..n : i \in 1..n /\ p <= i /\ i <= n
    BY <1>1, <1>3
  <2> QED
    BY <1>3, <1>4, <2>1, <2>2 DEF Convex
<1>13. \A i \in p..n : ~(s[i].op = "ccall" /\ s[i].n = 1)
  <2>1. SUFFICES ASSUME NEW i \in p..n, s[i].op = "ccall", s[i].n = 1 PROVE FALSE
    OBVIOUS
  <2>2. i \in 1..(n+1)-1 /\ s[i].th = h
    BY <1>1, <1>3, <1>12
  <2>3. \A j \in i..(n+1)-1 : ~ResetsOf(s[j], h)
    <3>1. \A j \in i..(n+1)-1 : j \in p..n
      BY <1>1, <1>3
    <3> QED
      BY <1>2, <3>1 DEF ResetsOf
  <2>4. i \in Counting(s, h, n + 1)
    BY <2>1, <2>2, <2>3 DEF Counting
  <2> QED
    BY <1>8, <2>4
<1>14. p + 1 \in p..n
  BY <1>9
<1>15. ASSUME s[p-1].op # "resumed" PROVE FALSE
  <2>1. Unyieldable(s[p+1])
    BY <1>11, <1>15 DEF MayTry
  <2>2. s[p+1].op = "close" /\ ~s[p+1].yy
    BY <1>13, <1>14, <2>1 DEF Unyieldable
  <2>3. p + 1 # n
    BY <1>1, <2>2 DEF Free
  <2>4. p + 1 \in 1..n-1 /\ (p + 1) + 1 \in p..n
    BY <1>1, <1>9, <2>3
  <2>5. MayCall(s[p+1], s[(p+1)+1])
    BY <1>4, <2>4 DEF Linked
  <2>6. s[(p+1)+1].op = "ccall" /\ s[(p+1)+1].n = 1
    BY <2>2, <2>5 DEF MayCall, Unyieldable
  <2> QED
    BY <1>13, <2>4, <2>6
<1>16. h \in Coroutines
  BY <1>1, <1>7 DEF Threads
<1>17. p - 1 \in 1..Len(mm.cs)
  BY <1>1, <1>9
<1> QED
  BY <1>15, <1>16, <1>17 DEF p

LEMMA YieldWorks ==
  ASSUME NEW mm, NEW h, Works(mm, h), Free(Last(mm.cs)), mm.L[h].nny = 0, Len(mm.L[h].ci) >= 2, NEW yield, yield = "yield"
  PROVE  Sound(luaD_throw([mm EXCEPT !.L[h].status = yield], h, yield))
<1> DEFINE x == [mm.L[h] EXCEPT !.status = yield]
           kk == [mm EXCEPT !.L[h] = x]
           jumps == mm.L[h].errorJmp
           front == Front(jumps)
           p == Last(jumps)
           j == Len(jumps)
           nn == throwTo(kk, h, p, front, yield)
<1>1. [mm EXCEPT !.L[h].status = yield] = kk
  OBVIOUS
<1>2. /\ Core(mm) /\ Settled(mm) /\ h \in Threads /\ mm \in MachineType /\ mm.cs # <<>> /\ mm.L[h] \in Thread /\ mm.L \in [Threads -> Thread]
      /\ \A i \in 1..Len(mm.cs) : mm.cs[i] \in Activation
  BY WorksFacts, MachineFields, CoreFacts
<1>3. x \in Thread /\ x.errorJmp = mm.L[h].errorJmp /\ x.nny = mm.L[h].nny /\ x.ci = mm.L[h].ci /\ x.status = yield
  BY <1>2 DEF Thread
<1> HIDE DEF x
<1>4. kk \in MachineType /\ kk.cs = mm.cs /\ kk.ret = mm.ret /\ kk.L = [mm.L EXCEPT ![h] = x]
  BY <1>2, <1>3 DEF MachineType
<1> HIDE DEF kk
<1>5. kk.L[h] = x /\ \A t \in Threads : t # h => kk.L[t] = mm.L[t]
  BY <1>2, <1>4
<1>6. Core(kk)
  <2>1. Past(kk) = Past(mm)
    BY <1>4 DEF Past
  <2>2. \A t \in Threads : SameThread(mm.L[t], kk.L[t])
    BY <1>3, <1>5 DEF SameThread, SameCalls
  <2>3. SameStack(mm.cs, kk.cs)
    BY <1>2, <1>4, SimilarSelf DEF SameStack
  <2> QED
    BY <1>2, <1>4, <2>1, <2>2, <2>3, StayCore
<1>7. kk.L[h].errorJmp = jumps /\ luaD_throw(kk, h, yield) = nn
  <2>1. kk.L[h].errorJmp = jumps
    BY <1>3, <1>5
  <2> QED
    BY <2>1 DEF luaD_throw
<1>8. /\ MayThrow(mm, h, p, j) /\ \A i \in p..Len(mm.cs) : mm.cs[i].op # "closethread"
      /\ front \in Seq(Nat) /\ Len(front) = j - 1 /\ \A i \in 1..j-1 : front[i] = jumps[i]
  BY LastJump
<1>9. h \in Coroutines /\ p - 1 \in 1..Len(mm.cs) /\ mm.cs[p-1].op = "resumed"
  BY YieldFacts
<1> HIDE DEF p, front, j
<1>10. MayThrow(kk, h, p, j)
  <2>1. Past(kk) = Past(mm)
    BY <1>4 DEF Past
  <2> QED
    BY <1>4, <1>7, <1>8, <2>1 DEF MayThrow
<1>11. MayLeave(kk, h, p, j)
  BY <1>4, <1>8 DEF MayLeave
<1>12. front \in Seq(Nat) /\ Len(front) = j - 1 /\ (\A i \in 1..j-1 : front[i] = kk.L[h].errorJmp[i]) /\ yield \in Results
  BY <1>7, <1>8 DEF Results
<1> HIDE DEF jumps
<1>13. /\ Core(nn) /\ nn.ret = yield /\ Last(nn.cs) = kk.cs[p - 1]
       /\ \A t \in Threads : Present(nn.cs, t) => Present(kk.cs, t)
       /\ Last(nn.cs).op = "resumed" => ~Present(nn.cs, h)
       /\ \A t \in Threads : nn.L[t].status = kk.L[t].status /\ nn.L[t].ci = kk.L[t].ci
  BY <1>2, <1>6, <1>10, <1>11, <1>12, ThrowsCore
<1> HIDE DEF nn
<1>14. Settled(nn)
  <2>1. ~Present(nn.cs, h)
    BY <1>4, <1>9, <1>13
  <2>2. \A t \in Threads : Present(nn.cs, t) => nn.L[t].status = "ok"
    BY <1>2, <1>4, <1>5, <1>13, <2>1 DEF Settled
  <2>3. \A t \in Threads : nn.L[t].status = "yield" => Len(nn.L[t].ci) >= 2
    <3>1. nn.L[h].ci = mm.L[h].ci
      BY <1>2, <1>3, <1>5, <1>13
    <3> QED
      BY <1>2, <1>5, <1>13, <3>1 DEF Settled
  <2> QED
    BY <2>2, <2>3 DEF Settled
<1>15. Recoverable(nn)
  BY <1>13 DEF Recoverable, Errors
<1> QED
  BY <1>1, <1>7, <1>13, <1>14, <1>15, GoodSound DEF Good

LEMMA YieldSound ==
  ASSUME Sound(m), lua_yieldk
  PROVE  Sound(m')
<1> DEFINE h == th
           c == [ci EXCEPT !.k = IF ci.fn = "yieldk" THEN "cont" ELSE "none"]
           mm == SetCI(m, c)
           yield == "yield"
           nn == luaD_throw([mm EXCEPT !.L[h].status = yield], h, yield)
<1>1. f.op = "cfunc"
  BY DEF lua_yieldk, Fn, On
<1>2. m' = IF ~yieldable(L) THEN luaG_errormsg(m, th) ELSE nn
  BY DEF lua_yieldk
<1>3. Sound(luaG_errormsg(m, th))
  BY <1>1, FunctionReturns
<1>4. /\ h \in Threads /\ Core(m) /\ Keeps(m, m) /\ Works(m, h) /\ Free(Last(m.cs)) /\ ci \in CallInfo /\ h = th
      /\ Len(m.L[h].ci) >= 2 /\ L = m.L[h]
  <2>1. h \in Threads /\ Core(m) /\ Keeps(m, m) /\ Works(m, h) /\ Free(Last(m.cs)) /\ ci \in CallInfo /\ h = th /\ Owns(f)
    BY <1>1, FunctionFacts
  <2>2. f.ci \in 2..Len(L.ci) /\ Len(L.ci) \in Nat
    BY <2>1, TopFacts
  <2>3. L = m.L[h]
    BY DEF L
  <2> HIDE DEF h
  <2> QED
    BY <2>1, <2>2, <2>3
<1> HIDE DEF h, yield
<1>5. c \in CallInfo /\ c.fn = ci.fn /\ c.fresh = ci.fresh
  <2> DEFINE k == IF ci.fn = "yieldk" THEN "cont" ELSE "none"
  <2>1. k \in {"none", "junk", "cont"}
    OBVIOUS
  <2> HIDE DEF k
  <2> QED
    BY <1>4, <2>1 DEF CallInfo
<1> HIDE DEF c
<1>6. Keeps(m, mm)
  BY <1>4, <1>5, ThenCI
<1> HIDE DEF mm
<1>7. /\ Works(mm, h) /\ Free(Last(mm.cs)) /\ mm.L[h].nny = m.L[h].nny /\ Len(mm.L[h].ci) = Len(m.L[h].ci)
  BY <1>4, <1>6, KeepsWorks DEF Keeps, SameThread, SameCalls
<1>8. ASSUME yieldable(L) PROVE Sound(nn)
  <2>1. mm.L[h].nny = 0 /\ Len(mm.L[h].ci) >= 2
    BY <1>4, <1>7, <1>8 DEF yieldable
  <2>2. yield = "yield"
    BY DEF yield
  <2> QED
    BY <1>7, <2>1, <2>2, YieldWorks
<1> HIDE DEF nn
<1> QED
  BY <1>2, <1>3, <1>8

(* A coroutine that is not in the stack of C is resumed.                   *)
LEMMA ResumedGood ==
  ASSUME NEW mm, NEW h, Works(mm, h), Last(mm.cs).op = "cfunc", NEW c \in Coroutines, ~Present(mm.cs, c), Len(mm.L[h].ci) >= 2,
         NEW x \in Thread, x.errorJmp = mm.L[c].errorJmp, x.ci = mm.L[c].ci, x.status = mm.L[c].status, x.nny = 0, 
         NEW ll \in MachineType, ll.cs = mm.cs, ll.ret = mm.ret, ll.L[c] = x, Others(mm, ll, c), NEW g,
         g = [op |-> "resumed", th |-> h, co |-> c]
  PROVE  LET nn == Push(ll, g)
         IN /\ Good(nn) /\ Past(nn) = Len(nn.cs) + 1 /\ Last(nn.cs) = g /\ Called(g) = c /\ nn.L[c] = x
            /\ \A t \in Threads : nn.L[t].status = mm.L[t].status /\ nn.L[t].ci = mm.L[t].ci
            /\ \A t \in Threads : Present(nn.cs, t) => Present(mm.cs, t)
<1> DEFINE nn == Push(ll, g)
           n == Len(mm.cs)
<1>1. /\ Core(mm) /\ Settled(mm) /\ mm \in MachineType /\ h \in Threads /\ n \in Nat /\ n >= 1 /\ mm.cs \in Seq(Activation)
      /\ Last(mm.cs) = mm.cs[n] /\ Last(mm.cs).th = h /\ Past(mm) = n + 1 /\ Present(mm.cs, h) /\ mm.L[h].status = "ok"
      /\ Called(Last(mm.cs)) = h /\ mm.L \in [Threads -> Thread] /\ c \in Threads /\ c # h
      /\ \E j \in 1..n : mm.cs[j].op = "try" /\ mm.cs[j].th = h
  <2>1. /\ Core(mm) /\ Settled(mm) /\ mm \in MachineType /\ h \in Threads /\ n \in Nat /\ n >= 1 /\ mm.cs \in Seq(Activation)
        /\ Last(mm.cs) = mm.cs[n] /\ Last(mm.cs).th = h /\ Past(mm) = n + 1 /\ Present(mm.cs, h) /\ mm.L[h].status = "ok"
        /\ Called(Last(mm.cs)) = h
        /\ \E j \in 1..n : mm.cs[j].op = "try" /\ mm.cs[j].th = h
    BY WorksFacts
  <2>2. c \in Threads /\ c # h
    BY <2>1 DEF Threads
  <2> QED
    BY <2>1, <2>2, MachineFields
<1>2. /\ g \in Activation /\ g.th = h /\ g.co = c /\ g.op = "resumed" /\ ~Owns(g) /\ ~Holds(g) /\ Crosses(g) /\ Waits(g) /\ Called(g) = c
  BY <1>1 DEF Activation, Owns, Holds, Crosses, Waits, Called
<1>3. ll \in MachineType /\ ll.cs = mm.cs /\ ll.ret = mm.ret /\ ll.L[c] = x /\ \A t \in Threads : t # c => ll.L[t] = mm.L[t]
  BY DEF Others
<1>4. Core(ll) /\ Past(ll) = n + 1
  <2>1. Past(ll) = Past(mm)
    BY <1>3 DEF Past
  <2>2. DepthOf(mm, c, mm.L[c].ci)
    BY <1>1 DEF Core, Depth
  <2>3. Len(ll.L[c].ci) >= 1 /\ (Len(ll.L[c].ci) >= 2 => Afresh(ll.L[c].ci[2]))
    BY <1>3, <2>2 DEF DepthOf
  <2>4. Others(mm, ll, c) /\ ll.L[c].errorJmp = mm.L[c].errorJmp
    BY <1>3 DEF Others
  <2> QED
    BY <1>1, <1>3, <2>1, <2>3, <2>4, AbsentCore
<1>5. \A t \in Threads : ll.L[t].status = mm.L[t].status /\ ll.L[t].ci = mm.L[t].ci
  BY <1>3
<1>6. Good(ll)
  BY <1>1, <1>3, <1>4, <1>5 DEF Good, Settled
<1>7. nn \in MachineType /\ nn.cs = Append(ll.cs, g) /\ nn.ret = "go" /\ nn.L = ll.L
  BY <1>2, <1>3, PushFacts
<1> HIDE DEF nn
<1>8. CallsOn(ll, nn, g)
  BY <1>2, <1>7 DEF CallsOn, SameCalls
<1>9. Joins(ll.cs, g)
  <2>1. MayCall(mm.cs[n], g)
    BY <1>1, <1>2 DEF MayCall
  <2> QED
    BY <1>1, <1>2, <1>3, <2>1 DEF Joins
<1>10. MayJoin(ll, g)
  <2>1. Len(ll.L[h].ci) >= 2
    BY <1>1, <1>5
  <2>2. ll.cs[Len(ll.cs)].op # "closethread"
    BY <1>1, <1>3
  <2> QED
    BY <1>1, <1>2, <1>3, <1>9, <2>1, <2>2 DEF MayJoin
<1>11. Good(nn) /\ Last(nn.cs) = g
  <2>1. Past(ll) = Len(ll.cs) + 1 /\ ll.L[g.th].status = "ok" /\ \A t \in Threads : nn.L[t].status = ll.L[t].status
    BY <1>1, <1>2, <1>3, <1>4, <1>5, <1>7
  <2> QED
    BY <1>2, <1>6, <1>8, <1>10, <2>1, CalledGood
<1>12. Past(nn) = Len(nn.cs) + 1
  BY <1>2, <1>11 DEF Past
<1>13. \A t \in Threads : Present(nn.cs, t) => Present(mm.cs, t)
  <2>1. Stacked(mm.cs)
    BY <1>1 DEF Core
  <2>2. \A t \in Threads : Present(Append(mm.cs, g), t) <=> Present(mm.cs, t) \/ t = g.th
    BY <1>1, <1>2, <1>3, <1>9, <2>1, JoinFacts
  <2> QED
    BY <1>1, <1>2, <1>3, <1>7, <2>2
<1> QED
  BY <1>2, <1>3, <1>5, <1>7, <1>11, <1>12, <1>13 DEF nn

LEMMA ResumedSound ==
  ASSUME NEW mm, NEW h, Works(mm, h), Last(mm.cs).op = "cfunc", NEW c \in Coroutines, ~Present(mm.cs, c), Len(mm.L[h].ci) >= 2,
         mm.L[c].status \in {"ok", "yield"}
  PROVE  Sound(lua_resume(mm, h, c))
<1> DEFINE count == mm.L[h].nC + 1
           zero == 0
           x == [mm.L[c] EXCEPT !.nC = count, !.nny = zero]
           g == [op |-> "resumed", th |-> h, co |-> c]
           ll == [mm EXCEPT !.L[c] = x]
           nn == Push(ll, g)
           tt == rawrunprotected(nn, c)
           a == [op |-> "resume", th |-> c]
           uu == Push(tt, a)
<1>1. lua_resume(mm, h, c) = uu
  <2>1. [mm EXCEPT !.L[c].nC = count, !.L[c].nny = zero] = ll
    BY Zenon
  <2> HIDE DEF x, ll
  <2> QED
    BY <2>1 DEF lua_resume
<1>2. /\ mm \in MachineType /\ h \in Threads /\ c \in Threads /\ mm.L[c] \in Thread /\ count \in Int /\ zero \in Int /\ zero = 0
      /\ Core(mm) /\ Settled(mm)
  <2>1. mm \in MachineType /\ h \in Threads /\ c \in Threads /\ Core(mm) /\ Settled(mm)
    BY WorksFacts DEF Threads
  <2>2. mm.L[h].nC \in Int /\ mm.L[c] \in Thread
    BY <2>1, MachineFields
  <2> QED
    BY <2>1, <2>2
<1> HIDE DEF count, zero
<1>3. x \in Thread /\ x.errorJmp = mm.L[c].errorJmp /\ x.ci = mm.L[c].ci /\ x.status = mm.L[c].status /\ x.nny = 0
  BY <1>2 DEF Thread
<1> HIDE DEF x
<1>4. g = [op |-> "resumed", th |-> h, co |-> c] /\ g.op = "resumed"
  OBVIOUS
<1> HIDE DEF g
<1>41. ll \in MachineType /\ ll.cs = mm.cs /\ ll.ret = mm.ret /\ ll.L[c] = x /\ Others(mm, ll, c)
  BY <1>2, <1>3 DEF MachineType, Others
<1> HIDE DEF ll
<1>5. /\ Good(nn) /\ Past(nn) = Len(nn.cs) + 1 /\ Last(nn.cs) = g /\ Called(g) = c /\ nn.L[c] = x
      /\ \A t \in Threads : nn.L[t].status = mm.L[t].status /\ nn.L[t].ci = mm.L[t].ci
      /\ \A t \in Threads : Present(nn.cs, t) => Present(mm.cs, t)
  BY <1>3, <1>4, <1>41, ResumedGood
<1> HIDE DEF nn
<1>6. /\ Core(tt) /\ tt.ret = "go" /\ Len(tt.cs) = Len(nn.cs) + 1 /\ Len(nn.cs) \in Nat /\ Len(nn.cs) >= 1
      /\ Last(tt.cs).op = "try" /\ Last(tt.cs).th = c /\ tt.cs[Len(nn.cs) + 1] = Last(tt.cs) /\ tt.cs[Len(nn.cs)] = g
      /\ Past(tt) = Len(tt.cs) + 1
      /\ \A t \in Threads : tt.L[t].status = nn.L[t].status /\ tt.L[t].ci = nn.L[t].ci /\ tt.L[t].nny = nn.L[t].nny
      /\ \A t \in Threads : Present(tt.cs, t) <=> Present(nn.cs, t) \/ t = c
  <2>1. ~Present(nn.cs, c) /\ nn.L[c].nny = 0
    BY <1>2, <1>3, <1>5
  <2>2. Core(nn) /\ Last(nn.cs).op \in {"resumed", "pcall", "closep"} /\ Called(Last(nn.cs)) = c
    BY <1>4, <1>5 DEF Good
  <2>3. c # Main
    BY ThreadsAssumption
  <2>4. /\ Core(tt) /\ tt.ret = "go" /\ Len(tt.cs) = Len(nn.cs) + 1 /\ Len(nn.cs) \in Nat /\ Len(nn.cs) >= 1
        /\ Last(tt.cs).op = "try" /\ Last(tt.cs).th = c /\ tt.cs[Len(nn.cs) + 1] = Last(tt.cs) /\ tt.cs[Len(nn.cs)] = Last(nn.cs)
        /\ Past(tt) = Len(tt.cs) + 1
        /\ \A t \in Threads : tt.L[t].status = nn.L[t].status /\ tt.L[t].ci = nn.L[t].ci /\ tt.L[t].nny = nn.L[t].nny
        /\ \A t \in Threads : Present(tt.cs, t) <=> Present(nn.cs, t) \/ t = c
    BY <1>2, <1>5, <2>1, <2>2, <2>3, TryCore
  <2> QED
    BY <1>5, <2>4
<1> HIDE DEF tt
<1>7. /\ a \in Activation /\ a.op = "resume" /\ a.th = c /\ ~Crosses(a) /\ ~Holds(a) /\ ~Owns(a)
  BY <1>2 DEF Activation, Crosses, Holds, Owns
<1> HIDE DEF a
<1>8. uu \in MachineType /\ uu.cs = Append(tt.cs, a) /\ uu.ret = "go" /\ uu.L = tt.L
  BY <1>6, <1>7, PushFacts, CoreFacts
<1> HIDE DEF uu
<1> DEFINE n == Len(tt.cs)
<1>9. n \in Nat /\ n >= 2 /\ n - 1 = Len(nn.cs) /\ Last(tt.cs) = tt.cs[n]
  BY <1>6
<1>10. Joins(tt.cs, a)
  <2>1. MayCall(tt.cs[n], a)
    BY <1>6, <1>7, <1>9 DEF MayCall, Called, Waits
  <2>2. MayTry(tt.cs[n-1], a)
    BY <1>4, <1>6, <1>7, <1>9 DEF MayTry
  <2>3. \E j \in 1..n : tt.cs[j].op = "try" /\ tt.cs[j].th = a.th
    <3>1. n \in 1..n
      BY <1>9
    <3> QED
      BY <1>6, <1>7, <1>9, <3>1
  <2> QED
    BY <1>7, <2>1, <2>2, <2>3 DEF Joins
<1>11. MayJoin(tt, a)
  <2>1. Present(tt.cs, a.th)
    BY <1>2, <1>6, <1>7
  <2>2. tt.cs[Len(tt.cs)].op # "closethread"
    BY <1>6, <1>9
  <2> QED
    BY <1>7, <1>10, <2>1, <2>2 DEF MayJoin
<1>12. CallsOn(tt, uu, a)
  BY <1>7, <1>8 DEF CallsOn, SameCalls
<1>13. Core(uu)
  BY <1>6, <1>7, <1>11, <1>12, CallCore
<1>14. Last(uu.cs) = a
  <2>1. tt.cs \in Seq(Activation)
    BY <1>6, CoreFacts
  <2>2. uu.cs \in Seq(Activation) /\ Len(uu.cs) = Len(tt.cs) + 1 /\ uu.cs[Len(tt.cs) + 1] = a
    BY <1>7, <1>8, <2>1, AppendFacts
  <2> QED
    BY <2>2 DEF Last
<1>15. \A t \in Threads : Present(uu.cs, t) => Present(mm.cs, t) \/ t = c
  <2>1. Stacked(tt.cs) /\ tt.cs \in Seq(Activation)
    BY <1>6, CoreFacts
  <2>2. \A t \in Threads : Present(Append(tt.cs, a), t) <=> Present(tt.cs, t) \/ t = a.th
    BY <1>7, <1>10, <2>1, JoinFacts
  <2> QED
    BY <1>5, <1>6, <1>7, <1>8, <2>2
<1>16. \A t \in Threads : uu.L[t].status = mm.L[t].status /\ uu.L[t].ci = mm.L[t].ci
  BY <1>5, <1>6, <1>8
<1>17. Awake(uu)
  <2>1. Waking(uu, c) /\ uu.L[c].status \in {"ok", "yield"}
    BY <1>2, <1>7, <1>14, <1>16 DEF Waking
  <2>2. \A t \in Threads : Present(uu.cs, t) => uu.L[t].status = "ok" \/ (Waking(uu, t) /\ uu.L[t].status = "yield")
    BY <1>2, <1>15, <1>16, <2>1 DEF Settled
  <2>3. \A t \in Threads : uu.L[t].status = "yield" => Len(uu.L[t].ci) >= 2
    BY <1>2, <1>16 DEF Settled
  <2>4. Recoverable(uu)
    BY <1>7, <1>14 DEF Recoverable
  <2> QED
    BY <2>2, <2>3, <2>4 DEF Awake
<1> QED
  BY <1>1, <1>13, <1>17 DEF Sound

LEMMA FunctionOf ==
  ASSUME Sound(m), NEW mm, Keeps(m, mm), Last(mm.cs).op = "cfunc", NEW c \in Threads
  PROVE  LET nn == Of(mm, c)
         IN Keeps(m, nn) /\ Last(nn.cs).op = "cfunc" /\ nn.L = mm.L
<1> DEFINE n == Len(mm.cs)
           a == Last(mm.cs)
           g == [a EXCEPT !.co = c]
           nn == [mm EXCEPT !.cs[n] = g]
<1>1. Core(m) /\ mm \in MachineType /\ mm.cs # <<>> /\ mm.cs \in Seq(Activation)
  BY TopFacts, KeepsMachine, MachineFields
<1>2. n \in Nat /\ n >= 1 /\ a = mm.cs[n] /\ a \in Activation
  BY <1>1, LastFacts
<1>3. a \in [op : {"cfunc"}, th : Threads, ci : Nat, pc : Places, co : Threads]
  BY <1>2, ActivationKinds
<1>4. g \in [op : {"cfunc"}, th : Threads, ci : Nat, pc : Places, co : Threads] /\ g.op = "cfunc" /\ g.th = a.th /\ g.ci = a.ci
  BY <1>3
<1>5. Of(mm, c) = nn
  BY <1>2, Zenon DEF Of
<1> HIDE DEF g
<1>6. g \in Activation
  BY <1>4, Zenon DEF Activation
<1>7. Similar(a, g) /\ (Holds(g) => g.ci = a.ci)
  <2>1. ~Waits(a)
    BY DEF Waits
  <2> HIDE DEF a
  <2> QED
    BY <1>4, <2>1 DEF Similar, a
<1>8. nn.cs = [mm.cs EXCEPT ![n] = g] /\ nn.L = mm.L /\ nn.ret = mm.ret /\ nn \in MachineType
  <2>1. [mm.cs EXCEPT ![n] = g] \in Seq(Activation)
    BY <1>1, <1>2, <1>6
  <2> QED
    BY <1>1, <2>1 DEF MachineType
<1> HIDE DEF nn
<1>9. Keeps(m, nn) /\ Last(nn.cs) = g
  BY <1>1, <1>6, <1>7, <1>8, ThenActivation
<1> QED
  BY <1>4, <1>5, <1>8, <1>9

(* Who is not in the stack of C.                                           *)
LEMMA NotInStack ==
  ASSUME Sound(m), f.op = "cfunc", NEW c \in Threads, 
         m.L[c].status # "ok" \/ (c # th /\ Len(m.L[c].ci) = 1)
  PROVE  c \in Coroutines /\ ~Present(m.cs, c)
<1>1. Core(m) /\ Good(m) /\ f = Last(m.cs) /\ ~Waits(f) /\ f.th = th
  BY FunctionFacts
<1>2. ~Present(m.cs, c)
  <2>1. CASE m.L[c].status # "ok"
    BY <1>1, <2>1 DEF Good, Settled
  <2>2. CASE c # th /\ Len(m.L[c].ci) = 1
    <3>1. Called(Last(m.cs)) = th
      BY <1>1 DEF Called
    <3>2. Present(m.cs, c) => Len(m.L[c].ci) >= 2
      BY <1>1, <2>2, <3>1 DEF Core, Apart
    <3> QED
      BY <2>2, <3>2
  <2> QED
    BY <2>1, <2>2
<1>3. Present(m.cs, Main)
  <2>1. Hosted(m.cs) /\ m.cs \in Seq(Activation) /\ Len(m.cs) \in Nat
    BY <1>1, CoreFacts DEF Core, Stacked
  <2>2. 1 \in 1..Len(m.cs) /\ m.cs[1] \in Activation /\ m.cs[1].op = "host"
    BY <2>1 DEF Hosted
  <2>3. m.cs[1].th = Main
    BY <2>2, ActivationFields
  <2> QED
    BY <2>2, <2>3 DEF Present
<1> QED
  BY <1>2, <1>3 DEF Threads

LEMMA CoresumeSound ==
  ASSUME Sound(m), NEW c \in Threads, luaB_coresume(c)
  PROVE  Sound(m')
<1> DEFINE h == th
           called == "called"
           ll == Later(m, called)
           mm == Of(ll, c)
<1>1. f.op = "cfunc"
  BY DEF luaB_coresume, Fn, On
<1>2. \/ CanResume(c) /\ m' = lua_resume(mm, h, c)
      \/ m' = poscall(m, th)
      \/ m' = luaG_errormsg(m, th)
  BY DEF luaB_coresume
<1>3. Sound(poscall(m, th)) /\ Sound(luaG_errormsg(m, th))
  BY <1>1, FunctionReturns
<1>4. /\ h \in Threads /\ Core(m) /\ Good(m) /\ m \in MachineType /\ Keeps(m, m) /\ called \in Places /\ h = th /\ L = m.L[h]
      /\ Len(m.L[h].ci) >= 2 /\ m.L[h].status = "ok" /\ f = Last(m.cs)
  <2>1. h \in Threads /\ Core(m) /\ Good(m) /\ Keeps(m, m) /\ h = th /\ Owns(f) /\ Works(m, h) /\ f = Last(m.cs)
    BY <1>1, FunctionFacts
  <2>2. f.ci \in 2..Len(L.ci) /\ Len(L.ci) \in Nat /\ m \in MachineType
    BY <2>1, TopFacts
  <2>3. L = m.L[h] /\ called \in Places
    BY DEF L, Places
  <2>4. m.L[h].status = "ok"
    BY <2>1, WorksFacts
  <2> HIDE DEF h, called
  <2> QED
    BY <2>1, <2>2, <2>3, <2>4
<1> HIDE DEF h, called
<1>5. Keeps(m, ll) /\ Last(ll.cs).op = "cfunc" /\ ll.L = m.L
  <2>1. Last(m.cs).op \in {"cfunc", "host"}
    BY <1>1, <1>4
  <2> QED
    BY <1>1, <1>4, <2>1, LaterKept
<1> HIDE DEF ll
<1>6. Keeps(m, mm) /\ Last(mm.cs).op = "cfunc" /\ mm.L = m.L
  BY <1>5, FunctionOf
<1> HIDE DEF mm
<1>7. ASSUME CanResume(c) PROVE Sound(lua_resume(mm, h, c))
  <2>1. m.L[c].status \in {"ok", "yield"}
    <3>1. m.L[c].status \in {"ok", "yield"} \cup Errors
      BY <1>4, MachineFields
    <3> QED
      BY <1>7, <3>1 DEF CanResume
  <2>2. m.L[c].status # "ok" \/ (c # th /\ Len(m.L[c].ci) = 1)
    <3>1. m.L[c].status = "ok" => Len(m.L[c].ci) = 1
      BY <1>7 DEF CanResume
    <3>2. CASE c = h
      <4>1. m.L[c].status = "ok" /\ Len(m.L[c].ci) >= 2
        BY <1>4, <3>2
      <4>2. Len(m.L[c].ci) = 1
        BY <3>1, <4>1
      <4> QED
        BY <4>1, <4>2
    <3>3. CASE c # h
      BY <1>4, <3>1, <3>3
    <3> QED
      BY <3>2, <3>3
  <2>3. c \in Coroutines /\ ~Present(m.cs, c)
    BY <1>1, <2>2, NotInStack
  <2>4. Works(mm, h) /\ ~Present(mm.cs, c)
    <3>1. Works(m, h)
      BY <1>1, <1>4, FunctionFacts
    <3>2. \A t \in Threads : Present(mm.cs, t) <=> Present(m.cs, t)
      BY <1>4, <1>6, KeepsFacts
    <3> QED
      BY <1>6, <2>3, <3>1, <3>2, KeepsWorks
  <2>5. Len(mm.L[h].ci) >= 2 /\ mm.L[c].status \in {"ok", "yield"}
    BY <1>4, <1>6, <2>1
  <2> QED
    BY <1>6, <2>3, <2>4, <2>5, ResumedSound
<1> QED
  BY <1>2, <1>3, <1>7

(* lua_closethread is called for the running thread, or one that waits.    *)
LEMMA ClosesThread ==
  ASSUME Sound(m), f.op = "cfunc", NEW c \in Coroutines, c = th \/ ~Present(m.cs, c), NEW pc \in Places
  PROVE  Sound(Push(Later(m, pc), [op |-> "closethread", th |-> th, co |-> c]))
<1> DEFINE h == th
           mm == Later(m, pc)
           g == [op |-> "closethread", th |-> h, co |-> c]
           nn == Push(mm, g)
           n == Len(mm.cs)
<1>1. /\ h \in Threads /\ Core(m) /\ Keeps(m, m) /\ h = th /\ Len(m.L[h].ci) >= 2 /\ c \in Threads /\ f = Last(m.cs)
  <2>1. h \in Threads /\ Core(m) /\ Keeps(m, m) /\ h = th /\ Owns(f) /\ f = Last(m.cs)
    BY FunctionFacts
  <2>2. f.ci \in 2..Len(L.ci) /\ Len(L.ci) \in Nat
    BY <2>1, TopFacts
  <2>3. L = m.L[h] /\ c \in Threads
    BY DEF L, Threads
  <2> HIDE DEF h
  <2> QED
    BY <2>1, <2>2, <2>3
<1>2. Keeps(m, mm) /\ Works(mm, h) /\ Last(mm.cs).op = "cfunc"
  BY <1>1, FunctionLater
<1>3. mm.L = m.L
  <2>1. Last(m.cs).op \in {"cfunc", "host"}
    BY <1>1
  <2> QED
    BY <1>1, <2>1, LaterKept
<1>4. g \in Activation /\ g.th = h /\ g.co = c /\ g.op = "closethread" /\ ~Owns(g) /\ ~Holds(g) /\ Waits(g)
  BY <1>1 DEF Activation, Owns, Holds, Waits
<1>5. h # c => ~Present(mm.cs, c)
  <2>1. \A t \in Threads : Present(mm.cs, t) <=> Present(m.cs, t)
    BY <1>1, <1>2, KeepsFacts
  <2> QED
    BY <1>1, <2>1
<1>6. Push(Later(m, pc), [op |-> "closethread", th |-> th, co |-> c]) = nn
  OBVIOUS
<1> HIDE DEF h, mm, g
<1>7. /\ Good(mm) /\ mm \in MachineType /\ n \in Nat /\ n >= 1 /\ mm.cs \in Seq(Activation)
      /\ Last(mm.cs) = mm.cs[n] /\ Last(mm.cs).th = h /\ Past(mm) = n + 1 /\ Present(mm.cs, h) /\ mm.L[h].status = "ok"
      /\ Called(Last(mm.cs)) = h
      /\ \E j \in 1..n : mm.cs[j].op = "try" /\ mm.cs[j].th = h
  BY <1>2, WorksFacts DEF Works
<1>8. nn \in MachineType /\ nn.cs = Append(mm.cs, g) /\ nn.ret = "go" /\ nn.L = mm.L
  BY <1>4, <1>7, PushFacts
<1> HIDE DEF nn
<1>9. CallsOn(mm, nn, g)
  BY <1>4, <1>8 DEF CallsOn, SameCalls
<1>10. Joins(mm.cs, g)
  <2>1. MayCall(mm.cs[n], g)
    BY <1>2, <1>4, <1>7 DEF MayCall
  <2>2. Crosses(g) => g.th # g.co /\ ~Present(mm.cs, g.co)
    BY <1>4, <1>5 DEF Crosses
  <2> QED
    BY <1>2, <1>4, <1>7, <2>1, <2>2 DEF Joins
<1>11. MayJoin(mm, g)
  BY <1>1, <1>2, <1>3, <1>4, <1>7, <1>10 DEF MayJoin
<1>12. Sound(nn)
  BY <1>4, <1>7, <1>8, <1>9, <1>11, CalledGood
<1> QED
  BY <1>6, <1>12

LEMMA CloseCoroutineSound ==
  ASSUME Sound(m), NEW c \in Threads, luaB_close(c)
  PROVE  Sound(m')
<1> DEFINE called == "called"
<1>1. f.op = "cfunc"
  BY DEF luaB_close, Fn, On
<1>2. m' = IF Status(c) = "normal" \/ c = Main THEN luaG_errormsg(m, th)
           ELSE Push(Later(m, called), [op |-> "closethread", th |-> th, co |-> c])
  BY DEF luaB_close
<1>3. Sound(luaG_errormsg(m, th))
  BY <1>1, FunctionReturns
<1>4. called \in Places
  BY DEF Places
<1> HIDE DEF called
<1>5. ASSUME Status(c) # "normal", c # Main
      PROVE  Sound(Push(Later(m, called), [op |-> "closethread", th |-> th, co |-> c]))
  <2>1. c \in Coroutines
    BY <1>5 DEF Threads
  <2>2. c = th \/ ~Present(m.cs, c)
    <3>1. SUFFICES ASSUME c # th PROVE ~Present(m.cs, c)
      OBVIOUS
    <3>2. Core(m) /\ m \in MachineType
      BY TopFacts
    <3>3. m.L[c].status \in {"ok", "yield"} \cup Errors /\ m.L[c].ci \in Seq(CallInfo) /\ Len(m.L[c].ci) \in Nat
      BY <3>2, MachineFields
    <3>4. Len(m.L[c].ci) >= 1
      BY <3>2 DEF Core, Depth, DepthOf
    <3>5. m.L[c].status = "ok" => ~(Len(m.L[c].ci) > 1)
      <4>1. "ok" # "yield" /\ "ok" \notin Errors
        BY DEF Errors
      <4> QED
        BY <1>5, <3>1, <4>1 DEF Status
    <3>6. m.L[c].status # "ok" \/ (c # th /\ Len(m.L[c].ci) = 1)
      <4>1. CASE m.L[c].status = "ok"
        <5>1. Len(m.L[c].ci) = 1
          <6> DEFINE k == Len(m.L[c].ci)
          <6>1. k \in Nat /\ k >= 1 /\ ~(k > 1)
            BY <3>3, <3>4, <3>5, <4>1
          <6> HIDE DEF k
          <6>2. k = 1
            BY <6>1
          <6> QED
            BY <6>2 DEF k
        <5> QED
          BY <3>1, <5>1
      <4>2. CASE m.L[c].status # "ok"
        BY <4>2
      <4> QED
        BY <4>1, <4>2
    <3> QED
      BY <1>1, <3>6, NotInStack
  <2> QED
    BY <1>1, <1>4, <2>1, <2>2, ClosesThread
<1> QED
  BY <1>2, <1>3, <1>5

LEMMA WrapSound ==
  ASSUME Sound(m), auxwrap
  PROVE  Sound(m')
<1> DEFINE closed == "closed"
           c == f.co
<1>1. f.op = "cfunc"
  BY DEF auxwrap, Fn, On
<1>2. \/ m' = poscall(m, th)
      \/ m.L[c].status \in Errors /\ m' = Push(Later(m, closed), [op |-> "closethread", th |-> th, co |-> c])
      \/ m' = luaG_errormsg(m, th)
  BY DEF auxwrap
<1>3. Sound(poscall(m, th)) /\ Sound(luaG_errormsg(m, th))
  BY <1>1, FunctionReturns
<1>4. closed \in Places
  BY DEF Places
<1>5. c \in Threads
  <2>1. f \in Activation
    BY <1>1, FunctionFacts
  <2>2. f \in [op : {"cfunc"}, th : Threads, ci : Nat, pc : Places, co : Threads]
    BY <1>1, <2>1, ActivationKinds
  <2> QED
    BY <2>2
<1> HIDE DEF closed, c
<1>6. ASSUME m.L[c].status \in Errors
      PROVE  Sound(Push(Later(m, closed), [op |-> "closethread", th |-> th, co |-> c]))
  <2>1. m.L[c].status # "ok"
    BY <1>6 DEF Errors
  <2>2. c \in Coroutines /\ ~Present(m.cs, c)
    BY <1>1, <1>5, <2>1, NotInStack
  <2> QED
    BY <1>1, <1>4, <2>2, ClosesThread
<1> QED
  BY <1>2, <1>3, <1>6

----------------------------------------------------------------------------
(* The host.                                                               *)

LEMMA HostFacts ==
  ASSUME Sound(m), f.op = "host"
  PROVE  /\ Core(m) /\ Good(m) /\ f = Last(m.cs) /\ th = Main /\ Main \in Threads /\ Keeps(m, m) /\ Past(m) = Len(m.cs) + 1
         /\ Called(f) = Main /\ HeldBy(m, Main) = {} /\ Present(m.cs, Main) /\ m \in MachineType /\ m.L[Main].status = "ok"
<1>1. Core(m) /\ Good(m) /\ f = Last(m.cs) /\ f \in Activation /\ m \in MachineType /\ f = m.cs[Len(m.cs)] /\ Present(m.cs, th)
      /\ Len(m.cs) \in Nat /\ Len(m.cs) >= 1
  BY TopFacts
<1>2. th = Main /\ f.th = Main /\ Main \in Threads
  BY <1>1, ActivationFields DEF th, Threads
<1>3. Called(f) = Main /\ ~Holds(f)
  BY <1>2 DEF Called, Waits, Holds, Owns
<1>4. Past(m) = Len(m.cs) + 1
  BY <1>1, CoreFacts
<1>5. Len(m.cs) = 1
  <2>1. SUFFICES ASSUME Len(m.cs) # 1 PROVE FALSE
    OBVIOUS
  <2> DEFINE n == Len(m.cs)
             i == n - 1
  <2>2. i \in 1..Len(m.cs)-1 /\ i + 1 = Len(m.cs)
    <3>1. n \in Nat /\ n >= 1 /\ n # 1
      BY <1>1, <2>1
    <3> HIDE DEF n
    <3>2. i \in 1..n-1 /\ i + 1 = n
      BY <3>1
    <3> QED
      BY <3>2 DEF n
  <2> HIDE DEF i
  <2>3. MayCall(m.cs[i], m.cs[i + 1])
    BY <1>1, <2>2 DEF Core, Stacked, Linked
  <2> QED
    BY <1>1, <2>2, <2>3 DEF MayCall
<1>6. HeldBy(m, Main) = {}
  BY <1>1, <1>3, <1>5 DEF HeldBy
<1> QED
  BY <1>1, <1>2, <1>3, <1>4, <1>6, KeepsSelf DEF Good, Settled

LEMMA HostCallsSound ==
  ASSUME Sound(m), HostCalls
  PROVE  Sound(m')
<1> DEFINE one == 1
           zero == 0
           lua == "lua"
           called == "called"
           mm == SetTop(m, Main, one)
           ll == Later(mm, called)
<1>1. f.op = "host"
  BY DEF HostCalls, On
<1>2. m' = luaD_pcall(ll, Main, one, lua, zero)
  BY DEF HostCalls
<1>3. /\ Core(m) /\ Good(m) /\ f = Last(m.cs) /\ Main \in Threads /\ Keeps(m, m) /\ one \in Int /\ zero \in Int
      /\ lua \in FunctionNames /\ called \in Places /\ m \in MachineType /\ f.th = Main /\ Past(m) = Len(m.cs) + 1
  BY <1>1, HostFacts DEF th, Places, FunctionNames
<1> HIDE DEF one, zero, lua, called
<1>4. Keeps(m, mm) /\ mm.cs = m.cs
  BY <1>3, ThenTop, SetTopFields
<1> HIDE DEF mm
<1>5. Keeps(m, ll) /\ Last(ll.cs).op = "host" /\ Last(ll.cs).th = Main
  <2>1. Last(m.cs).op \in {"cfunc", "host"}
    BY <1>1, <1>3
  <2> QED
    BY <1>1, <1>3, <1>4, <2>1, LaterKept
<1> HIDE DEF ll
<1>6. Good(ll) /\ Past(ll) = Len(ll.cs) + 1
  BY <1>3, <1>5, KeepsFacts DEF Good, Keeps
<1>7. Sound(luaD_pcall(ll, Main, one, lua, zero))
  <2>1. Last(ll.cs).op \in {"host", "cfunc"}
    BY <1>5
  <2> QED
    BY <1>3, <1>5, <1>6, <2>1, PcallGood
<1> QED
  BY <1>2, <1>7

LEMMA CloseStateSound ==
  ASSUME Sound(m), CloseState
  PROVE  Sound(m')
<1> DEFINE h == Main
           one == 1
           zero == 0
           ok == "ok"
           closed == "closed"
           cut == CutCI(m, h, one)
           x == [cut.L[h] EXCEPT !.errfunc = zero]
           mm == [cut EXCEPT !.L[h] = x]
           ll == Later(mm, closed)
<1>1. f.op = "host"
  BY DEF CloseState, On
<1>2. m' = closeprotected(ll, h, one, ok)
  <2>1. [cut EXCEPT !.L[h].errfunc = zero] = mm
    OBVIOUS
  <2> QED
    BY <2>1 DEF CloseState
<1>3. /\ Core(m) /\ Settled(m) /\ f = Last(m.cs) /\ h \in Threads /\ one \in Int /\ zero \in Int
      /\ ok \in Results /\ closed \in Places /\ m \in MachineType /\ Past(m) = Len(m.cs) + 1
      /\ Called(Last(m.cs)) = h /\ HeldBy(m, h) = {} /\ Present(m.cs, h) /\ m.L[h].status = "ok"
  BY <1>1, HostFacts DEF Places, Results, Good
<1>4. one \in 1..Len(m.L[h].ci)
  <2>1. DepthOf(m, h, m.L[h].ci)
    BY <1>3 DEF Core, Depth
  <2>2. Len(m.L[h].ci) >= 1 /\ Len(m.L[h].ci) \in Nat
    BY <1>3, <2>1, MachineFields DEF DepthOf
  <2> QED
    BY <2>2
<1> HIDE DEF h, one, zero, ok, closed
<1>5. Core(cut) /\ cut.cs = m.cs /\ cut.ret = m.ret /\ Others(m, cut, h) /\ cut.L[h].status = m.L[h].status
  BY <1>3, <1>4, CutInfosCore
<1> HIDE DEF cut
<1>6. Settled(cut)
  <2>1. \A t \in Threads : cut.L[t].status = m.L[t].status
    BY <1>5 DEF Others
  <2>2. \A t \in Threads : t # h => cut.L[t] = m.L[t]
    BY <1>5 DEF Others
  <2>3. cut.L[h].status # "yield"
    BY <1>3, <1>5
  <2> QED
    BY <1>3, <1>5, <2>1, <2>2, <2>3 DEF Settled
<1>7. x \in Thread /\ SameThread(cut.L[h], x) /\ x.status = cut.L[h].status
  <2>1. cut.L[h] \in Thread
    BY <1>3, <1>5, CoreFacts, MachineFields
  <2> QED
    BY <1>3, <2>1 DEF Thread, SameThread, SameCalls
<1> HIDE DEF x
<1>8. Keeps(cut, mm) /\ mm.cs = cut.cs
  <2>1. Keeps(cut, mm)
    BY <1>3, <1>5, <1>7, KeepsSelf, ThenThread
  <2>2. cut \in MachineType
    BY <1>5, CoreFacts
  <2> QED
    BY <2>1, <2>2 DEF MachineType
<1> HIDE DEF mm
<1>9. Keeps(cut, ll) /\ Last(ll.cs).op = "host" /\ Last(ll.cs).th = Last(cut.cs).th
  <2>1. Last(cut.cs).op \in {"cfunc", "host"} /\ Last(cut.cs).op = "host"
    BY <1>1, <1>3, <1>5
  <2> QED
    BY <1>3, <1>5, <1>8, <2>1, LaterKept
<1> HIDE DEF ll
<1>10. Core(ll) /\ Settled(ll) /\ Len(ll.cs) = Len(cut.cs) /\ Past(ll) = Past(cut) /\ \A t \in Threads : Present(ll.cs, t) <=> Present(cut.cs, t)
  BY <1>5, <1>6, <1>9, KeepsFacts DEF Keeps
<1>11. Past(cut) = Past(m)
  BY <1>5 DEF Past
<1>12. /\ Good(ll) /\ Past(ll) = Len(ll.cs) + 1 /\ Present(ll.cs, h) /\ ll.L[h].status = "ok"
  BY <1>3, <1>5, <1>10, <1>11 DEF Good, Settled
<1>13. Called(Last(ll.cs)) = h
  BY <1>3, <1>5, <1>9, <1>1 DEF Called, Waits
<1>14. Sound(closeprotected(ll, h, one, ok))
  <2>1. Last(ll.cs).op \in {"host", "pcall", "closethread"} /\ Last(ll.cs).op # "closethread"
    BY <1>9
  <2> QED
    BY <1>3, <1>12, <1>13, <2>1, ClosepGood
<1> QED
  BY <1>2, <1>14

----------------------------------------------------------------------------
(* The theorems.                                                           *)

LEMMA NewThreadFacts ==
  ASSUME NEW b \in BOOLEAN
  PROVE  /\ NewThread(b) \in Thread /\ NewThread(b).errorJmp = <<>> /\ NewThread(b).status = "ok"
         /\ NewThread(b).nny = (IF b THEN 1 ELSE 0) /\ Len(NewThread(b).ci) = 1
<1> DEFINE zero == 0
           one == 1
           top == 1 + MinStack
           c == prepCallInfo("base", zero, top, FALSE)
           cis == <<base_ci>>
           t == IF b THEN one ELSE 2
           n == IF b THEN one ELSE zero
           jumps == <<>>
           x == [ci |-> cis, top |-> t, open |-> {}, tbc |-> jumps, errfunc |-> zero,
                 nC |-> zero, nny |-> n, status |-> "ok", errorJmp |-> jumps, over |-> FALSE]
<1>1. NewThread(b) = x
  BY DEF NewThread
<1>2. base_ci = [c EXCEPT !.k = "none"]
  BY DEF base_ci
<1>3. zero \in Int /\ top \in Int /\ t \in Int /\ n \in Int /\ jumps \in Seq(Int) /\ jumps \in Seq(Nat)
  BY DEF MinStack
<1> HIDE DEF zero, top, t, jumps
<1>4. c \in CallInfo
  BY <1>3 DEF prepCallInfo, CallInfo, Statuses, Results
<1> HIDE DEF c
<1>5. base_ci \in CallInfo
  BY <1>2, <1>4 DEF CallInfo
<1>6. cis \in Seq(CallInfo) /\ Len(cis) = 1
  BY <1>5
<1> HIDE DEF cis
<1>7. x \in Thread
  BY <1>3, <1>6 DEF Thread
<1>8. x.errorJmp = jumps /\ x.status = "ok" /\ x.nny = n /\ x.ci = cis
  OBVIOUS
<1> HIDE DEF x
<1>9. NewThread(b) \in Thread /\ Len(NewThread(b).ci) = 1
  BY <1>1, <1>6, <1>7, <1>8
<1>10. NewThread(b).errorJmp = <<>> /\ NewThread(b).status = "ok" /\ NewThread(b).nny = (IF b THEN 1 ELSE 0)
  BY <1>1, <1>8 DEF jumps, zero
<1> QED
  BY <1>9, <1>10

LEMMA InitSound ==
  ASSUME Init
  PROVE  Sound(m)
<1> DEFINE g == [op |-> "host", th |-> Main, pc |-> "start"]
           s == <<g>>
           ls == [t \in Threads |-> NewThread(t = Main)]
<1>1. m = [L |-> ls, cs |-> s, ret |-> "go", asserts |-> TRUE]
  BY DEF Init
<1>2. g \in [op : {"host"}, th : {Main}, pc : Places] /\ g.op = "host" /\ g.th = Main
  BY DEF Places
<1> HIDE DEF g
<1>3. g \in Activation
  BY <1>2, Zenon DEF Activation
<1>4. s \in Seq(Activation) /\ Len(s) = 1 /\ s[1] = g /\ Last(s) = g
  BY <1>3 DEF Last
<1> HIDE DEF s
<1>5. \A t \in Threads : /\ ls[t] \in Thread /\ ls[t].errorJmp = <<>> /\ ls[t].status = "ok"
                         /\ ls[t].nny = (IF t = Main THEN 1 ELSE 0) /\ Len(ls[t].ci) = 1
  <2> TAKE t \in Threads
  <2> DEFINE b == t = Main
  <2>1. b \in BOOLEAN /\ ls[t] = NewThread(b)
    OBVIOUS
  <2>2. b <=> t = Main
    OBVIOUS
  <2> HIDE DEF b, ls
  <2> QED
    BY <2>1, <2>2, NewThreadFacts
<1>6. ls \in [Threads -> Thread]
  BY <1>5
<1> HIDE DEF ls
<1>7. m \in MachineType /\ m.L = ls /\ m.cs = s /\ m.ret = "go"
  BY <1>1, <1>4, <1>6 DEF MachineType, Statuses
<1>8. ~Waits(g) /\ ~Crosses(g) /\ ~MayFail(g) /\ ~Holds(g) /\ Called(g) = Main
  BY <1>2 DEF Waits, Crosses, MayFail, Holds, Owns, Called
<1>9. \A i \in 1..Len(s) : i = 1 /\ s[i] = g
  BY <1>4
<1>10. Stacked(s)
  <2>1. Hosted(s) /\ Linked(s) /\ Tried(s)
    BY <1>2, <1>4 DEF Hosted, Linked, Tried
  <2>2. Crossed(s) /\ Convex(s)
    BY <1>8, <1>9 DEF Crossed, Convex
  <2>3. Caught(s) /\ Saved(s)
    BY <1>2, <1>8, <1>9 DEF Caught, Saved
  <2> QED
    BY <2>1, <2>2, <2>3 DEF Stacked
<1>11. \A t \in Threads : Present(s, t) => t = Main
  BY <1>2, <1>9 DEF Present
<1>12. Jumps(m)
  <2>1. \A t \in Threads : JumpsOf(s, t, ls[t].errorJmp)
    <3> TAKE t \in Threads
    <3>1. Len(ls[t].errorJmp) = 0
      BY <1>5
    <3>2. \A p \in 1..Len(s) : ~IsTry(s, t, p)
      BY <1>2, <1>9 DEF IsTry
    <3> QED
      BY <3>1, <3>2 DEF JumpsOf
  <2> QED
    BY <1>7, <2>1 DEF Jumps
<1>13. Past(m) = 2
  <2>1. Last(m.cs) = g /\ Len(m.cs) = 1 /\ g.op # "closethread"
    BY <1>2, <1>4, <1>7
  <2>2. Past(m) = Len(m.cs) + 1
    BY <2>1 DEF Past
  <2> QED
    BY <2>1, <2>2
<1>14. Counts(m)
  <2>1. SUFFICES ASSUME NEW t \in Threads, Present(s, t) PROVE ls[t].nny = Unyielding(s, t, 2)
    BY <1>7, <1>13 DEF Counts
  <2>2. t = Main
    BY <1>11, <2>1
  <2>3. Counting(s, t, 2) = {}
    BY <1>2, <1>4 DEF Counting
  <2>4. Cardinality(Counting(s, t, 2)) = 0
    BY <2>3, FS_EmptySet
  <2> QED
    BY <1>5, <2>2, <2>4 DEF Unyielding
<1>15. Depth(m)
  <2>1. \A t \in Threads : HeldBy(m, t) = {}
    BY <1>7, <1>8, <1>9 DEF HeldBy
  <2>2. \A t \in Threads : Len(m.L[t].ci) = 1
    BY <1>5, <1>7
  <2> QED
    BY <2>1, <2>2 DEF Depth, DepthOf
<1>16. Apart(m) /\ Based(m.cs)
  <2>1. Called(Last(m.cs)) = Main
    BY <1>4, <1>7, <1>8
  <2>2. Apart(m)
    BY <1>7, <1>11, <2>1 DEF Apart
  <2>3. Based(m.cs)
    <3>1. Len(m.cs) = 1
      BY <1>4, <1>7
    <3>2. \A i \in 1..Len(m.cs)-1 : FALSE
      BY <3>1
    <3> QED
      BY <3>2 DEF Based
  <2> QED
    BY <2>2, <2>3
<1>17. Awake(m)
  BY <1>2, <1>4, <1>5, <1>7 DEF Awake, Recoverable
<1> QED
  BY <1>7, <1>10, <1>12, <1>14, <1>15, <1>16, <1>17 DEF Sound, Core

LEMMA MachineSound ==
  ASSUME Sound(m), Machine
  PROVE  Sound(m')
<1>1. CASE EndReturn BY <1>1, EndReturnSound
<1>2. CASE EndOp BY <1>2, EndOpSound
<1>3. CASE EndCall BY <1>3, EndCallSound
<1>4. CASE EndTry BY <1>4, EndTrySound
<1>5. CASE ErrorMessage BY <1>5, ErrorMessageSound
<1>6. CASE EndClose BY <1>6, EndCloseSound
<1>7. CASE CloseProtected BY <1>7, CloseProtectedSound
<1>8. CASE ProtectedDone BY <1>8, ProtectedDoneSound
<1>9. CASE ProtectedFailed BY <1>9, ProtectedFailedSound
<1>10. CASE PosCall BY <1>10, PosCallSound
<1>11. CASE Resume BY <1>11, ResumeSound
<1>12. CASE Unroll BY <1>12, UnrollSound
<1>13. CASE FinishCall BY <1>13, FinishCallSound
<1>14. CASE Recover BY <1>14, RecoverSound
<1>15. CASE EndResume BY <1>15, EndResumeSound
<1>16. CASE CloseThread BY <1>16, CloseThreadSound
<1>17. CASE ThreadClosed BY <1>17, ThreadClosedSound
<1>18. CASE pcallDone BY <1>18, PcallDoneSound
<1>19. CASE Returns BY <1>19, ReturnsSound
<1>20. CASE auxwrapFails BY <1>20, WrapFailsSound
<1>21. CASE auxwrap BY <1>21, WrapSound
<1>22. CASE HostCalls BY <1>22, HostCallsSound
<1>23. CASE CloseState BY <1>23, CloseStateSound
<1> QED
  BY <1>1, <1>2, <1>3, <1>4, <1>5, <1>6, <1>7, <1>8, <1>9, <1>10, <1>11, <1>12, <1>13, <1>14, <1>15, <1>16, <1>17,
     <1>18, <1>19, <1>20, <1>21, <1>22, <1>23 DEF Machine

LEMMA ProgramSound ==
  ASSUME Sound(m), program \in Programs, Program
  PROVE  Sound(m')
<1> USE DEF Functions
<1>1. \A fn \in Functions : fn \in FunctionNames
  OBVIOUS
<1>2. \A fn \in program.methods : fn \in FunctionNames
  BY MethodsAssumption
<1>3. CASE \E fn \in Functions : OP_CALL(fn)
  BY <1>1, <1>3, CallSound
<1>4. CASE \E fn \in Functions : Uses("tail") /\ OP_TAILCALL(fn)
  BY <1>1, <1>4, TailCallSound
<1>5. CASE Uses("meta") /\ \E fn \in program.methods : CallMethod(fn)
  BY <1>2, <1>5, MethodSound
<1>6. CASE \E fn \in program.methods : CloseNext(fn)
  BY <1>2, <1>6, CloseNextSound
<1>7. CASE Uses("upvalue") /\ OP_CLOSURE
  BY <1>7, ClosureSound
<1>8. CASE Uses("variable") /\ OP_TBC
  BY <1>8, TbcSound
<1>9. CASE Uses("fail") /\ Fail
  BY <1>9, FailSound
<1>10. CASE Uses("memory") /\ OutOfMemory
  BY <1>10, OutOfMemorySound
<1>11. CASE lua_pcallk \/ lua_callk
  BY <1>11, PcallSound, CallkSound
<1>12. CASE OP_CLOSE \/ OP_RETURN \/ OP_RETURN1
  BY <1>12, CloseSound, ReturnOpSound, FastReturnSound
<1>13. CASE lua_toclose \/ AfterMark
  BY <1>13, ToCloseSound, AfterMarkSound
<1>14. CASE lua_error \/ lua_yieldk
  BY <1>14, ErrorSound, YieldSound
<1>15. CASE \E c \in Threads : luaB_coresume(c) \/ luaB_close(c)
  BY <1>15, CoresumeSound, CloseCoroutineSound
<1> QED
  BY <1>3, <1>4, <1>5, <1>6, <1>7, <1>8, <1>9, <1>10, <1>11, <1>12, <1>13, <1>14, <1>15, Zenon DEF Program

(* The inductive invariant.  Nothing weaker is inductive: what a counter   *)
(* is after a longjmp is what the setjmp has saved, so every setjmp in the *)
(* stack of C must have saved the right number; that a longjmp cuts only   *)
(* its thread needs the stack of C to be made of one piece for each        *)
(* thread; and what goes on after it needs its CallInfo to be there still. *)
CallsInv == Sound(m) /\ program \in Programs

(* Whatever the program does, from any size of the stack and of the stack  *)
(* of C, the activations call each other as the functions of ldo.c,        *)
(* lcorolib.c and lvm.c do, and agree with what each thread knows.         *)
THEOREM StackIsSound == Spec => []CallsInv
<1>1. Init => CallsInv
  BY InitSound DEF CallsInv, Init
<1>2. CallsInv /\ [Next]_vars => CallsInv'
  <2>1. SUFFICES ASSUME CallsInv, [Next]_vars PROVE CallsInv'
    OBVIOUS
  <2>2. ASSUME m' = m, program' = program PROVE CallsInv'
    BY <2>1, <2>2 DEF CallsInv
  <2>3. CASE Program /\ UNCHANGED program
    <3>1. Sound(m) /\ program \in Programs
      BY <2>1 DEF CallsInv
    <3>2. Sound(m')
      BY <2>3, <3>1, ProgramSound
    <3> QED
      BY <2>3, <3>1, <3>2 DEF CallsInv
  <2>4. CASE Machine /\ UNCHANGED program
    <3>1. Sound(m) /\ program \in Programs
      BY <2>1 DEF CallsInv
    <3>2. Sound(m')
      BY <2>4, <3>1, MachineSound
    <3> QED
      BY <2>4, <3>1, <3>2 DEF CallsInv
  <2> QED
    BY <2>1, <2>2, <2>3, <2>4 DEF Next, vars
<1> QED
  BY <1>1, <1>2, PTL DEF Spec

(* nCcalls: whatever was cut by an error, yielded or closed, a thread      *)
(* counts the calls that may not yield as they are in the stack of C.      *)
THEOREM CallsAreCounted == Spec => []CallsCounted
<1>1. CallsInv => CallsCounted
  <2>1. SUFFICES ASSUME CallsInv, NEW t \in Threads, Frames(t, "try") # {}
        PROVE  m.L[t].nny = (IF t = Main THEN 1 ELSE 0)
                 + Cardinality({i \in Frames(t, "ccall") : m.cs[i].n = 1 /\ \A j \in Resets(t) : j < i})
    BY DEF CallsCounted
  <2> DEFINE n == Len(m.cs)
             p == Past(m)
             counted == {i \in Frames(t, "ccall") : m.cs[i].n = 1 /\ \A j \in Resets(t) : j < i}
  <2>2. Core(m)
    BY <2>1 DEF CallsInv, Sound
  <2>3. n \in Nat /\ n >= 1 /\ (p = n \/ p = n + 1) /\ Last(m.cs) = m.cs[n]
    BY <2>2, CoreFacts
  <2>4. p = n => m.cs[n].op = "closethread" /\ m.ret = "go"
    BY <2>3 DEF Past
  <2>5. p = n + 1 => ~(m.cs[n].op = "closethread" /\ m.ret = "go")
    BY <2>3 DEF Past
  <2> HIDE DEF n, p
  <2>6. Present(m.cs, t)
    BY <2>1 DEF Frames, Present
  <2>7. m.L[t].nny = Unyielding(m.cs, t, p)
    BY <2>2, <2>6 DEF Core, Counts, p
  <2>8. ASSUME NEW j \in 1..n PROVE j \in Resets(t) <=> j < p /\ ResetsOf(m.cs[j], t)
    <3>1. CASE p = n
      BY <2>3, <2>4, <2>8, <3>1 DEF Resets, ResetsOf, n
    <3>2. CASE p = n + 1
      BY <2>3, <2>5, <2>8, <3>2 DEF Resets, ResetsOf, n
    <3> QED
      BY <2>3, <3>1, <3>2
  <2>9. \A j \in Resets(t) : j \in 1..n
    BY DEF Resets, n
  <2>10. ASSUME NEW i \in 1..n, m.cs[i].op = "ccall"
         PROVE  (\A j \in Resets(t) : j < i) <=> (\A j \in i..p-1 : ~ResetsOf(m.cs[j], t))
    <3>1. ASSUME \A j \in Resets(t) : j < i, NEW j \in i..p-1 PROVE ~ResetsOf(m.cs[j], t)
      <4>1. j \in 1..n /\ j < p /\ ~(j < i)
        BY <2>3, <2>10, <3>1
      <4> QED
        BY <2>8, <3>1, <4>1
    <3>2. ASSUME \A j \in i..p-1 : ~ResetsOf(m.cs[j], t), NEW j \in Resets(t) PROVE j < i
      <4>1. j \in 1..n /\ j < p /\ ResetsOf(m.cs[j], t)
        BY <2>8, <2>9, <3>2
      <4>2. ~(j \in i..p-1)
        BY <3>2, <4>1
      <4> QED
        BY <2>3, <2>10, <4>1, <4>2
    <3> QED
      BY <3>1, <3>2
  <2>11. ASSUME NEW i \in 1..n, m.cs[i].op = "ccall" PROVE i \in 1..p-1
    BY <2>3, <2>4, <2>11
  <2>12. \A i \in 1..p-1 : i \in 1..n
    BY <2>3
  <2>13. counted = Counting(m.cs, t, p)
    <3>1. ASSUME NEW i \in counted PROVE i \in Counting(m.cs, t, p)
      <4>1. i \in 1..n /\ m.cs[i].op = "ccall" /\ m.cs[i].th = t /\ m.cs[i].n = 1 /\ \A j \in Resets(t) : j < i
        BY <3>1 DEF Frames, n
      <4>2. i \in 1..p-1 /\ \A j \in i..p-1 : ~ResetsOf(m.cs[j], t)
        BY <2>10, <2>11, <4>1
      <4> QED
        BY <4>1, <4>2 DEF Counting
    <3>2. ASSUME NEW i \in Counting(m.cs, t, p) PROVE i \in counted
      <4>1. i \in 1..p-1 /\ m.cs[i].op = "ccall" /\ m.cs[i].th = t /\ m.cs[i].n = 1 /\ \A j \in i..p-1 : ~ResetsOf(m.cs[j], t)
        BY <3>2 DEF Counting
      <4>2. i \in 1..n /\ \A j \in Resets(t) : j < i
        BY <2>10, <2>12, <4>1
      <4>3. i \in Frames(t, "ccall")
        BY <4>1, <4>2 DEF Frames, n
      <4> QED
        BY <4>1, <4>2, <4>3
    <3> QED
      BY <3>1, <3>2
  <2> QED
    BY <2>7, <2>13 DEF Unyielding
<1> QED
  BY <1>1, StackIsSound, PTL

(* L->errorJmp: it leads to the setjmps of the thread that are in the      *)
(* stack of C, all of them and no others, so that no longjmp goes to a     *)
(* function of C that has ended (luaD_rawrunprotected, luaD_throw).        *)
THEOREM JumpsLeadToSetjmps == Spec => []JumpsLead
<1>1. CallsInv => JumpsLead
  <2>1. SUFFICES ASSUME CallsInv, NEW t \in Threads PROVE ToSet(m.L[t].errorJmp) = Frames(t, "try")
    BY DEF JumpsLead
  <2> DEFINE jumps == m.L[t].errorJmp
  <2>2. Core(m)
    BY <2>1 DEF CallsInv, Sound
  <2>3. JumpsOf(m.cs, t, jumps) /\ jumps \in Seq(Nat)
    BY <2>2, CoreFacts, MachineFields DEF Core, Jumps
  <2> HIDE DEF jumps
  <2>4. \A p : p \in Frames(t, "try") <=> IsTry(m.cs, t, p)
    BY DEF Frames, IsTry
  <2>5. \A p : IsTry(m.cs, t, p) => p \in 1..Len(m.cs)
    BY DEF IsTry
  <2>6. \A p : p \in ToSet(jumps) <=> \E j \in 1..Len(jumps) : jumps[j] = p
    BY <2>3 DEF ToSet
  <2>7. ToSet(jumps) = Frames(t, "try")
    BY <2>3, <2>4, <2>5, <2>6 DEF JumpsOf
  <2> QED
    BY <2>7 DEF jumps
<1> QED
  BY <1>1, StackIsSound, PTL

=============================================================================
