---------------------------- MODULE CodeGenShape ----------------------------
(***************************************************************************)
(* Control never leaves the code of a finished function, the lookup tables *)
(* agree with the lists they index, and what has been emitted stays: the   *)
(* inductive invariants CodeInv and TablesAgree, for all programs and      *)
(* constants.  Before that come facts about sequences and numbers, and the *)
(* types of all variables.                                                 *)
(*                                                                         *)
(* A piece of code is well formed if its pairs are whole and its jumps     *)
(* lead to entries of it or to its end.  That is kept by concatenation     *)
(* (emit) and by sending a jump to an entry (backpatching), which is all   *)
(* the generator does to its code.                                         *)
(*                                                                         *)
(* A generator changes its constants by addConstant and its locals by      *)
(* addLocal only; each keeps its table.  Suspending a generator and taking *)
(* it up again moves both tables together.                                 *)
(***************************************************************************)
EXTENDS CodeGenProperties, Integers, Sequences, TLAPS, WellFoundedInduction, SequenceTheorems

----------------------------------------------------------------------------
(* Sequences, numbers and types.                                           *)

LEMMA ConcatFacts ==
  ASSUME NEW S, NEW s \in Seq(S), NEW t \in Seq(S)
  PROVE  /\ s \o t \in Seq(S)
         /\ Len(s \o t) = Len(s) + Len(t)
         /\ \A n \in 1..Len(s) : (s \o t)[n] = s[n]
         /\ \A n \in 1..Len(t) : (s \o t)[Len(s) + n] = t[n]
  OBVIOUS

LEMMA AppendFacts ==
  ASSUME NEW S, NEW s \in Seq(S), NEW x \in S
  PROVE  /\ Append(s, x) \in Seq(S)
         /\ Len(Append(s, x)) = Len(s) + 1
         /\ \A n \in 1..Len(s) : Append(s, x)[n] = s[n]
         /\ Append(s, x)[Len(s) + 1] = x
  OBVIOUS

LEMMA AppendFunction ==
  ASSUME NEW S, NEW s \in Seq(S), NEW x \in S
  PROVE  Append(s, x) = [n \in 1..Len(s)+1 |-> IF n = Len(s) + 1 THEN x ELSE s[n]]
<1> DEFINE F == [n \in 1..Len(s)+1 |-> IF n = Len(s) + 1 THEN x ELSE s[n]]
<1>1. Append(s, x) \in Seq(S) /\ Len(Append(s, x)) = Len(s) + 1 /\ Len(s) \in Nat
  BY AppendFacts
<1>2. Append(s, x) \in [1..Len(s)+1 -> S]
  <2>1. \A q \in Seq(S) : q \in [1..Len(q) -> S]
    OBVIOUS
  <2> QED
    BY <1>1, <2>1, Zenon
<1>3. F \in [1..Len(s)+1 -> S]
  <2>1. \A n \in 1..Len(s)+1 : n # Len(s) + 1 => s[n] \in S
    BY <1>1
  <2> QED
    BY <2>1
<1>4. \A n \in 1..Len(s)+1 : Append(s, x)[n] = F[n]
  BY <1>1, AppendFacts
<1> HIDE DEF F
<1>5. Append(s, x) = F
  BY <1>2, <1>3, <1>4
<1> QED
  BY <1>5 DEF F

LEMMA TailFacts ==
  ASSUME NEW S, NEW s \in Seq(S), s # <<>>
  PROVE  /\ Head(s) \in S
         /\ Head(s) = s[1]
         /\ Tail(s) \in Seq(S)
         /\ Len(Tail(s)) = Len(s) - 1
         /\ \A n \in 1..Len(Tail(s)) : Tail(s)[n] = s[n + 1]
  OBVIOUS

(* A sequence is one over the set of its elements.                         *)
LEMMA ElementsFacts ==
  ASSUME NEW S, NEW s \in Seq(S)
  PROVE  s \in Seq({s[n] : n \in 1..Len(s)})
<1>1. s \in [1..Len(s) -> {s[n] : n \in 1..Len(s)}] /\ Len(s) \in Nat
  OBVIOUS
<1> QED
  BY <1>1

LEMMA FrontFacts ==
  ASSUME NEW S, NEW s \in Seq(S), s # <<>>
  PROVE  /\ SubSeq(s, 1, Len(s) - 1) \in Seq(S)
         /\ Len(SubSeq(s, 1, Len(s) - 1)) = Len(s) - 1
         /\ \A n \in 1..Len(s) - 1 : SubSeq(s, 1, Len(s) - 1)[n] = s[n]
         /\ Len(s) \in 1..Len(s)
<1>1. Len(s) \in Nat /\ Len(s) >= 1
  OBVIOUS
<1> DEFINE m == Len(s) - 1
<1>2. /\ SubSeq(s, 1, m) \in Seq(S)
      /\ Len(SubSeq(s, 1, m)) = IF 1 <= m THEN m - 1 + 1 ELSE 0
      /\ \A i \in 1 .. m - 1 + 1 : SubSeq(s, 1, m)[i] = s[1 + i - 1]
  <2>1. 1 \in 1..Len(s)+1 /\ m \in 1-1..Len(s)
    BY <1>1
  <2> QED
    BY <2>1, SubSeqProperties
<1>3. m - 1 + 1 = m /\ m \in Nat /\ \A i \in 1..m : 1 + i - 1 = i
  BY <1>1
<1>4. Len(SubSeq(s, 1, m)) = m
  BY <1>2, <1>3
<1>5. \A i \in 1..m : SubSeq(s, 1, m)[i] = s[i]
  BY <1>2, <1>3
<1> QED
  BY <1>1, <1>2, <1>4, <1>5

(* The provers here cannot use an induction theorem that takes an operator *)
(* as a parameter; a least element of a set of numbers does instead.       *)
LEMMA LeastNat ==
  ASSUME NEW T \in SUBSET Nat, T # {}
  PROVE  \E x \in T : \A y \in T : x <= y
<1> DEFINE R == OpToRel(<, Nat)
<1>1. \E x \in T : \A y \in T : ~(<<y, x>> \in R)
  <2>1. IsWellFoundedOn(R, Nat)
    BY NatLessThanWellFounded
  <2> HIDE DEF R
  <2> QED
    BY <2>1, WFMin
<1>2. \A x, y \in Nat : y < x => <<y, x>> \in R
  BY DEF OpToRel
<1>3. \A x, y \in T : ~(<<y, x>> \in R) => x <= y
  <2>1. \A x, y \in Nat : x <= y \/ y < x
    OBVIOUS
  <2> HIDE DEF R
  <2> QED
    BY <1>2, <2>1
<1> HIDE DEF R
<1> QED
  BY <1>1, <1>3, Zenon

LEMMA GreatestNat ==
  ASSUME NEW T \in SUBSET Nat, T # {}, NEW b \in Nat, \A x \in T : x <= b
  PROVE  \E x \in T : \A y \in T : y <= x
<1> DEFINE U == {m \in Nat : b - m \in T}
<1>1. PICK t \in T : TRUE
  OBVIOUS
<1>2. b - t \in U
  <2>1. b - t \in Nat /\ b - (b - t) = t
    BY <1>1
  <2> QED
    BY <1>1, <2>1
<1>3. PICK m \in U : \A k \in U : m <= k
  BY <1>2, LeastNat
<1>4. \A y \in T : y <= b - m
  <2> TAKE y \in T
  <2>1. b - y \in Nat /\ b - (b - y) = y
    OBVIOUS
  <2>2. m <= b - y
    BY <1>3, <2>1
  <2> QED
    BY <1>3, <2>2
<1> QED
  BY <1>3, <1>4

----------------------------------------------------------------------------
(***************************************************************************)
(* Type correctness of the code generator, for all programs and constants. *)
(***************************************************************************)

----------------------------------------------------------------------------
(* Nodes, tasks and instructions.                                          *)

LEMMA ExprFields ==
  ASSUME NEW e \in Expr
  PROVE  /\ e.kind = "int" => e.int \in Int
         /\ e.kind = "flt" => e.num \in Int /\ e.den \in Nat \ {0}
         /\ e.kind = "var" => e.name \in Names
         /\ e.kind = "bin" => e.left \in Expr /\ e.right \in Expr
         /\ e.kind = "call" => e.name \in Names /\ e.args \in Seq(Expr)
  BY ExprAssumption DEF ExprShape

LEMMA StmtFields ==
  ASSUME NEW s \in Stmt
  PROVE  /\ s.kind = "decl" => s.name \in Names /\ s.expr \in Expr
         /\ s.kind = "assign" => s.name \in Names /\ s.expr \in Expr
         /\ s.kind = "if" => /\ s.cond \in Expr
                             /\ s.then \in Seq(Stmt) /\ s.else \in Seq(Stmt)
         /\ s.kind = "while" => s.cond \in Expr /\ s.body \in Seq(Stmt)
         /\ s.kind = "func" => /\ s.name \in Names
                               /\ s.params \in Seq(Names) /\ s.body \in Seq(Stmt)
         /\ s.kind = "return" => s.expr \in Expr
         /\ s.kind = "expr" => s.expr \in Expr
         /\ s.kind = "block" => s.body \in Seq(Stmt)
  BY StmtAssumption DEF StmtShape

LEMMA ModRange ==
  ASSUME NEW n \in Int, NEW m \in Nat \ {0}
  PROVE  n % m \in 0..m-1
  OBVIOUS

LEMMA EncodeType ==
  ASSUME NEW op \in Ops, NEW a \in Int, NEW b \in Int, NEW c \in Int, NEW k \in {0, 1}
  PROVE  /\ encodeABCK(op, a, b, c, k) \in Instruction
         /\ encodeABC(op, a, b, c) \in Instruction
         /\ encodeABx(op, a, b) \in Instruction
         /\ encodeAsBx(op, a, b) \in Instruction
         /\ encodeIsJ(b) \in Instruction
<1>1. a % ArgSize \in 0..ArgSize-1 /\ b % ArgSize \in 0..ArgSize-1
      /\ c % ArgSize \in 0..ArgSize-1 /\ b % BxSize \in 0..BxSize-1
      /\ 0 \in 0..ArgSize-1
  BY ModRange, SizeAssumption
<1>2. BxSize \in Nat /\ ArgSize \in Nat
  BY SizeAssumption
<1> QED
  BY <1>1, <1>2 DEF encodeABCK, encodeABC, encodeABx, encodeAsBx, encodeIsJ, Instruction, Ops

LEMMA TaskFields ==
  ASSUME NEW x \in Task
  PROVE  /\ x.t = "stmt" => x.s \in Stmt
         /\ x.t = "expr" => x.e \in Expr /\ x.dest \in Nat
         /\ x.t = "setGlobal" => x.name \in Names /\ x.reg \in Nat
         /\ x.t = "return" => x.reg \in Nat
         /\ x.t = "ifTest" => /\ x.saved \in Nat
                              /\ x.then \in Seq(Stmt) /\ x.else \in Seq(Stmt)
         /\ x.t = "ifThenEnd" => x.saved \in Nat /\ x.jmp \in Nat /\ x.else \in Seq(Stmt)
         /\ x.t = "ifElseEnd" => x.saved \in Nat /\ x.jmp \in Nat
         /\ x.t = "whileTest" => x.saved \in Nat /\ x.start \in Nat /\ x.body \in Seq(Stmt)
         /\ x.t = "whileEnd" => x.saved \in Nat /\ x.start \in Nat /\ x.jmp \in Nat
         /\ x.t = "callStmt" => /\ x.func \in Nat /\ x.next \in Nat /\ x.n \in Nat
                                /\ x.args \in Seq(Expr)
         /\ x.t = "callExpr" => /\ x.func \in Nat /\ x.inc \in {0, 1} /\ x.n \in Nat
                                /\ x.args \in Seq(Expr) /\ x.saved \in Nat
         /\ x.t = "binRight" => x.op \in ArithOps /\ x.dest \in Nat /\ x.right \in Expr
         /\ x.t = "binOp" => x.op \in ArithOps /\ x.dest \in Nat /\ x.right \in Nat
         /\ x.t = "compare" => x.op \in CompareOps /\ x.dest \in Nat /\ x.saved \in Nat
         /\ x.t = "funcEnd" => x.name \in Names /\ x.params \in Nat
  BY DEF Task
LEMMA TaskTypes ==
  /\ \A s \in Stmt : StmtTask(s) \in Task
  /\ \A e \in Expr, d \in Nat : ExprTask(e, d) \in Task
  /\ \A x \in Names, r \in Nat : [t |-> "setGlobal", name |-> x, reg |-> r] \in Task
  /\ \A r \in Nat : [t |-> "return", reg |-> r] \in Task
  /\ \A v \in Nat, th, el \in Seq(Stmt) :
       [t |-> "ifTest", saved |-> v, then |-> th, else |-> el] \in Task
  /\ \A v, j \in Nat, el \in Seq(Stmt) :
       [t |-> "ifThenEnd", saved |-> v, jmp |-> j, else |-> el] \in Task
  /\ \A v, j \in Nat : [t |-> "ifElseEnd", saved |-> v, jmp |-> j] \in Task
  /\ \A v, st \in Nat, b \in Seq(Stmt) :
       [t |-> "whileTest", saved |-> v, start |-> st, body |-> b] \in Task
  /\ \A v, st, j \in Nat : [t |-> "whileEnd", saved |-> v, start |-> st, jmp |-> j] \in Task
  /\ \A f, nx, n \in Nat, as \in Seq(Expr) :
       [t |-> "callStmt", func |-> f, next |-> nx, args |-> as, n |-> n] \in Task
  /\ \A f, n, v \in Nat, inc \in {0, 1}, as \in Seq(Expr) :
       [t |-> "callExpr", func |-> f, inc |-> inc, args |-> as, n |-> n, saved |-> v] \in Task
  /\ \A op \in ArithOps, d \in Nat, e \in Expr :
       [t |-> "binRight", op |-> op, dest |-> d, right |-> e] \in Task
  /\ \A op \in ArithOps, d, r \in Nat :
       [t |-> "binOp", op |-> op, dest |-> d, right |-> r] \in Task
  /\ \A op \in CompareOps, d, v \in Nat :
       [t |-> "compare", op |-> op, dest |-> d, saved |-> v] \in Task
  /\ \A x \in Names, n \in Nat : [t |-> "funcEnd", name |-> x, params |-> n] \in Task
  BY DEF Task, StmtTask, ExprTask

LEMMA CallTasksAdvance ==
  ASSUME NEW x \in Task, NEW as \in Seq(Expr)
  PROVE  /\ x.t = "callStmt" => [x EXCEPT !.next = @ + 1, !.args = as] \in Task
         /\ x.t = "callExpr" => [x EXCEPT !.inc = 1, !.args = as] \in Task
<1>1. ASSUME x.t = "callStmt"
      PROVE  [x EXCEPT !.next = @ + 1, !.args = as] \in Task
  <2> DEFINE S == [t : {"callStmt"}, func : Nat, next : Nat, args : Seq(Expr), n : Nat]
  <2>1. x \in S
    BY <1>1 DEF Task
  <2>2. [x EXCEPT !.next = @ + 1, !.args = as] \in S
    <3>1. \A m \in Nat : [x EXCEPT !.next = m, !.args = as] \in S
      BY <2>1
    <3>2. x.next + 1 \in Nat
      BY <2>1
    <3> QED
      BY <3>1, <3>2, Zenon
  <2>3. S \subseteq Task
    BY DEF Task
  <2> QED
    BY <2>2, <2>3
<1>2. ASSUME x.t = "callExpr"
      PROVE  [x EXCEPT !.inc = 1, !.args = as] \in Task
  <2> DEFINE S == [t : {"callExpr"}, func : Nat, inc : {0, 1}, args : Seq(Expr), n : Nat,
                   saved : Nat]
  <2>1. x \in S
    BY <1>2 DEF Task
  <2>2. [x EXCEPT !.inc = 1, !.args = as] \in S
    BY <2>1
  <2>3. S \subseteq Task
    BY DEF Task
  <2> QED
    BY <2>2, <2>3
<1> QED
  BY <1>1, <1>2

LEMMA StatementsType ==
  ASSUME NEW ss \in Seq(Stmt)
  PROVE  /\ generateStatements(ss) \in Seq(Task)
         /\ Len(generateStatements(ss)) = Len(ss)
         /\ \A n \in 1..Len(ss) : generateStatements(ss)[n] = StmtTask(ss[n])
  BY TaskTypes DEF generateStatements

----------------------------------------------------------------------------
(* The type invariant, one part for each group of variables.               *)

CodeType == instructions \in Seq(Instruction)
ConstantsType == /\ constants \in Seq(Constant)
                 /\ constantIndex \in [DOMAIN constantIndex -> Nat]
                 /\ DOMAIN constantIndex \subseteq Key
LocalsType == /\ locals \in Seq(Names)
              /\ localIndex \in [DOMAIN localIndex -> Nat]
              /\ DOMAIN localIndex \subseteq Names
StackType == currentStack \in Nat /\ maxStack \in Nat
TodoType == todo \in Seq(Task)
FunctionsType == functions \in Seq(FunctionProto)
OuterType == /\ IsSequence(outer)
             /\ \A n \in 1..Len(outer) : GeneratorOK(outer[n])
ProtosType == protos \in Seq(Proto)
OutcomeType == /\ program \in Seq(Stmt)
               /\ outcome \in {"generating", "chunk", "exception"}
Types == /\ CodeType /\ ConstantsType /\ LocalsType /\ StackType /\ TodoType
         /\ FunctionsType /\ OuterType /\ ProtosType /\ OutcomeType

LEMMA TypeParts == TypeOK <=> Types
  BY DEF TypeOK, GeneratorOK, Here, Types, CodeType, ConstantsType, LocalsType, StackType,
         TodoType, FunctionsType, OuterType, ProtosType, OutcomeType

LEMMA TypePartsNext == Types' => TypeOK'
  BY DEF TypeOK, GeneratorOK, Here, Types, CodeType, ConstantsType, LocalsType, StackType,
         TodoType, FunctionsType, OuterType, ProtosType, OutcomeType

----------------------------------------------------------------------------
(* What the helpers do to the parts.                                       *)

LEMMA Kept ==
  ASSUME Types
  PROVE  /\ UNCHANGED instructions => CodeType'
         /\ SameConstants => ConstantsType'
         /\ UNCHANGED <<locals, localIndex>> => LocalsType'
         /\ SameStack => StackType'
         /\ UNCHANGED functions => FunctionsType'
         /\ UNCHANGED outer => OuterType'
         /\ UNCHANGED protos => ProtosType'
         /\ UNCHANGED <<program, outcome>> => OutcomeType'
  BY DEF Types, CodeType, ConstantsType, LocalsType, StackType, FunctionsType, OuterType,
         ProtosType, OutcomeType, SameConstants, SameStack

LEMMA EmitType ==
  ASSUME CodeType, NEW seg \in Seq(Instruction), emit(seg)
  PROVE  CodeType'
  BY ConcatFacts DEF CodeType, emit

LEMMA HeadType ==
  ASSUME TodoType, todo # <<>>
  PROVE  Task1 \in Task /\ Tail(todo) \in Seq(Task)
  BY TailFacts DEF TodoType, Task1

LEMMA ThenType ==
  ASSUME TodoType, todo # <<>>, NEW tasks \in Seq(Task), Then(tasks)
  PROVE  TodoType'
  BY HeadType, ConcatFacts DEF TodoType, Then

LEMMA EmitOne ==
  ASSUME CodeType, NEW x \in Instruction, emit(<<x>>)
  PROVE  CodeType'
<1>1. <<x>> \in Seq(Instruction)
  OBVIOUS
<1> QED
  BY <1>1, EmitType

LEMMA ThenOne ==
  ASSUME TodoType, todo # <<>>, NEW x \in Task, Then(<<x>>)
  PROVE  TodoType'
<1>1. <<x>> \in Seq(Task)
  OBVIOUS
<1> QED
  BY <1>1, ThenType

LEMMA ThenNone ==
  ASSUME TodoType, todo # <<>>, Then(<<>>)
  PROVE  TodoType'
<1>1. <<>> \in Seq(Task)
  OBVIOUS
<1> QED
  BY <1>1, ThenType

LEMMA KeyType ==
  ASSUME NEW k \in Constant
  PROVE  ConstantKey(k) \in Key
<1>1. CASE k.kind = "int"
  BY <1>1 DEF Constant, ConstantKey, Key
<1>2. CASE k.kind = "flt"
  <2>1. k.num \in Int /\ k.den \in Nat \ {0}
    BY <1>2 DEF Constant
  <2>2. FloatText(k.num, k.den) \in Int
    BY <2>1, SizeAssumption DEF FloatText
  <2> QED
    BY <1>2, <2>2 DEF ConstantKey, Key
<1>3. CASE k.kind = "str"
  BY <1>3 DEF Constant, ConstantKey, Key
<1> QED
  BY <1>1, <1>2, <1>3 DEF Constant

LEMMA AddConstantType ==
  ASSUME ConstantsType, NEW k \in Constant, addConstant(k)
  PROVE  ConstantsType' /\ addConstantIndex(k) \in Nat
  BY KeyType, AppendFacts DEF ConstantsType, addConstant, addConstantIndex, Known

LEMMA AddLocalType ==
  ASSUME LocalsType, StackType, NEW x \in Names, addLocal(x)
  PROVE  LocalsType' /\ StackType' /\ addLocalIndex(x) \in Nat
<1>1. addLocalIndex(x) \in Nat
  BY DEF LocalsType, addLocalIndex, isLocal
<1>2. CASE isLocal(x)
  BY <1>1, <1>2 DEF LocalsType, StackType, addLocal
<1>3. CASE ~isLocal(x)
  <2>1. locals' \in Seq(Names)
    BY <1>3, AppendFacts DEF LocalsType, addLocal
  <2>2. localIndex' = [y \in DOMAIN localIndex \cup {x} |->
                         IF y = x THEN Len(locals) ELSE localIndex[y]]
    BY <1>3 DEF addLocal
  <2>3. /\ localIndex' \in [DOMAIN localIndex' -> Nat]
        /\ DOMAIN localIndex' \subseteq Names
    BY <2>2 DEF LocalsType
  <2>4. StackType'
    BY <1>3 DEF StackType, addLocal, Larger
  <2> QED
    BY <1>1, <2>1, <2>3, <2>4 DEF LocalsType
<1> QED
  BY <1>2, <1>3

LEMMA LocalType ==
  ASSUME LocalsType, NEW x, isLocal(x)
  PROVE  localIndex[x] \in Nat
  BY DEF LocalsType, isLocal

LEMMA LoadConstantType ==
  ASSUME NEW d \in Nat, NEW n \in Nat
  PROVE  loadConstant(d, n) \in Seq(Instruction)
  BY EncodeType DEF loadConstant, Ops

LEMMA FinishedType ==
  ASSUME Types
  PROVE  Finished \in Proto
<1>1. encodeABC("RETURN0", 0, 0, 0) \in Instruction
  BY EncodeType DEF Ops
<1>2. Append(instructions, encodeABC("RETURN0", 0, 0, 0)) \in Seq(Instruction)
  BY <1>1, AppendFacts DEF Types, CodeType
<1> QED
  BY <1>2 DEF Finished, Proto, Types, ConstantsType, FunctionsType, StackType

LEMMA ParamIndexType ==
  ASSUME NEW ps \in Seq(Names)
  PROVE  /\ paramIndex(ps) \in [DOMAIN paramIndex(ps) -> Nat]
         /\ DOMAIN paramIndex(ps) \subseteq Names
         /\ DOMAIN paramIndex(ps) = {ps[n] : n \in 1..Len(ps)}
         /\ \A x \in DOMAIN paramIndex(ps) :
              paramIndex(ps)[x] < Len(ps) /\ ps[paramIndex(ps)[x] + 1] = x
<1> DEFINE D == {ps[n] : n \in 1..Len(ps)}
           last(x, i) == ps[i] = x /\ \A j \in 1..Len(ps) : ps[j] = x => j <= i
<1>1. Len(ps) \in Nat /\ D \subseteq Names
  OBVIOUS
<1>2. \A x \in D : \E i \in 1..Len(ps) : last(x, i)
  <2> TAKE x \in D
  <2> DEFINE T == {n \in 1..Len(ps) : ps[n] = x}
  <2>1. T \in SUBSET Nat /\ T # {} /\ \A n \in T : n <= Len(ps)
    BY <1>1
  <2>2. PICK i \in T : \A n \in T : n <= i
    BY <1>1, <2>1, GreatestNat
  <2> QED
    BY <2>2
<1> DEFINE pick(x) == CHOOSE i \in 1..Len(ps) : last(x, i)
<1>4. \A x \in D : pick(x) \in 1..Len(ps) /\ ps[pick(x)] = x
  <2> TAKE x \in D
  <2>1. PICK i \in 1..Len(ps) : last(x, i)
    BY <1>2
  <2> HIDE DEF last
  <2>2. pick(x) \in 1..Len(ps) /\ last(x, pick(x))
    BY <2>1
  <2> QED
    BY <2>2 DEF last
<1> HIDE DEF D, last, pick
<1>3. paramIndex(ps) = [x \in D |-> pick(x) - 1]
  BY DEF paramIndex, D, last, pick
<1>5. DOMAIN paramIndex(ps) = D
  BY <1>3
<1>6. \A x \in D : paramIndex(ps)[x] + 1 \in 1..Len(ps) /\ ps[paramIndex(ps)[x] + 1] = x
  BY <1>3, <1>4
<1>7. \A x \in D : paramIndex(ps)[x] \in Nat /\ paramIndex(ps)[x] < Len(ps)
  BY <1>1, <1>3, <1>4
<1>8. paramIndex(ps) \in [D -> Nat]
  BY <1>3, <1>7
<1> QED
  BY <1>1, <1>5, <1>6, <1>7, <1>8 DEF D

LEMMA SequenceOver ==
  ASSUME NEW S, NEW s \in Seq(S)
  PROVE  IsSequence(s)
  BY ElementsFacts DEF IsSequence

LEMMA OuterPush ==
  ASSUME OuterType, NEW g, GeneratorOK(g), outer' = Append(outer, g)
  PROVE  OuterType'
<1> DEFINE S == {outer[n] : n \in 1..Len(outer)} \cup {g}
<1>1. outer \in Seq(S) /\ g \in S
  <2>1. outer \in Seq({outer[n] : n \in 1..Len(outer)})
    BY DEF OuterType, IsSequence
  <2> QED
    BY <2>1
<1> HIDE DEF S
<1>2. /\ outer' \in Seq(S)
      /\ Len(outer') = Len(outer) + 1
      /\ \A n \in 1..Len(outer) : outer'[n] = outer[n]
      /\ outer'[Len(outer) + 1] = g
  BY <1>1, AppendFacts
<1>3. \A n \in 1..Len(outer') : GeneratorOK(outer'[n])
  <2> TAKE n \in 1..Len(outer')
  <2>1. n \in 1..Len(outer) \/ n = Len(outer) + 1
    BY <1>1, <1>2
  <2> QED
    BY <1>2, <2>1 DEF OuterType
<1>4. IsSequence(outer')
  BY <1>2, SequenceOver
<1> QED
  BY <1>3, <1>4 DEF OuterType

LEMMA OuterPop ==
  ASSUME OuterType, outer # <<>>, outer' = SubSeq(outer, 1, Len(outer) - 1)
  PROVE  OuterType'
<1> DEFINE S == {outer[n] : n \in 1..Len(outer)}
<1>1. outer \in Seq(S)
  BY DEF OuterType, IsSequence
<1> HIDE DEF S
<1>2. /\ outer' \in Seq(S)
      /\ Len(outer') = Len(outer) - 1
      /\ \A n \in 1..Len(outer) - 1 : outer'[n] = outer[n]
      /\ Len(outer) \in Nat
  BY <1>1, FrontFacts
<1>3. \A n \in 1..Len(outer') : GeneratorOK(outer'[n])
  BY <1>2 DEF OuterType
<1>4. IsSequence(outer')
  BY <1>2, SequenceOver
<1> QED
  BY <1>3, <1>4 DEF OuterType

LEMMA CompareType ==
  ASSUME NEW op \in CompareOps, NEW l \in Nat, NEW r \in Nat
  PROVE  CompareInstruction(op, l, r) \in Instruction
<1>1. \A x \in {"EQ", "LT", "LE"}, k \in {0, 1} :
        encodeABCK(x, l, r, 0, k) \in Instruction /\ encodeABCK(x, r, l, 0, k) \in Instruction
  BY EncodeType DEF Ops
<1> QED
  BY <1>1 DEF CompareInstruction, CompareOps

LEMMA PatchedType ==
  ASSUME NEW code \in Seq(Instruction), NEW j \in Nat, NEW end \in Nat
  PROVE  Patched(code, j, end) \in Seq(Instruction)
<1>1. encodeIsJ(end - j - 1) \in Instruction
  BY EncodeType DEF Ops
<1>2. code \in [1..Len(code) -> Instruction] /\ Len(code) \in Nat
  OBVIOUS
<1>3. Patched(code, j, end) \in [1..Len(code) -> Instruction]
  BY <1>1, <1>2 DEF Patched
<1> QED
  BY <1>2, <1>3

LEMMA AtType ==
  ASSUME Types, NEW x, At(x)
  PROVE  TodoType /\ todo # <<>> /\ Task1 \in Task /\ Task1.t = x
  BY HeadType DEF Types, At

LEMMA AtStmtType ==
  ASSUME Types, NEW x, AtStmt(x)
  PROVE  TodoType /\ todo # <<>> /\ Task1.s \in Stmt /\ Task1.s.kind = x
<1>1. At("stmt") /\ Task1.s.kind = x
  BY DEF AtStmt
<1> QED
  BY <1>1, AtType, TaskFields

LEMMA AtExprType ==
  ASSUME Types, NEW x, AtExpr(x)
  PROVE  /\ TodoType /\ todo # <<>>
         /\ Task1.e \in Expr /\ Task1.dest \in Nat /\ Task1.e.kind = x
<1>1. At("expr") /\ Task1.e.kind = x
  BY DEF AtExpr
<1> QED
  BY <1>1, AtType, TaskFields

(* Each action keeps every part: the parts it changes have a step of their *)
(* own, Kept covers the others.                                            *)
LEMMA StatementsKeepTypes ==
  ASSUME Types
  PROVE  /\ VarDecl => Types'
         /\ AssignLocal => Types'
         /\ AssignGlobal => Types'
         /\ SetGlobal => Types'
         /\ Return => Types'
         /\ EmitReturn => Types'
         /\ Block => Types'
         /\ ExprStmtCall => Types'
         /\ CallStmt => Types'
         /\ ExprStmtOther => Types'
<1>1. ASSUME VarDecl PROVE Types'
  <2>1. TodoType /\ todo # <<>> /\ Task1.s.name \in Names /\ Task1.s.expr \in Expr
    BY <1>1, AtStmtType, StmtFields DEF VarDecl
  <2>2. LocalsType' /\ StackType' /\ addLocalIndex(Task1.s.name) \in Nat
    BY <1>1, <2>1, AddLocalType DEF VarDecl, Types
  <2>3. TodoType'
    <3>1. <<ExprTask(Task1.s.expr, addLocalIndex(Task1.s.name))>> \in Seq(Task)
      BY <2>1, <2>2, TaskTypes
    <3> QED
      BY <1>1, <2>1, <3>1, ThenType DEF VarDecl
  <2> QED
    BY <1>1, <2>2, <2>3, Kept DEF VarDecl, Types, SameRest, OnlyTodo
<1>2. ASSUME AssignLocal PROVE Types'
  <2>1. /\ TodoType /\ todo # <<>> /\ Task1.s.expr \in Expr
        /\ localIndex[Task1.s.name] \in Nat
    BY <1>2, AtStmtType, StmtFields, LocalType DEF AssignLocal, Types
  <2>2. TodoType'
    <3>1. <<ExprTask(Task1.s.expr, localIndex[Task1.s.name])>> \in Seq(Task)
      BY <2>1, TaskTypes
    <3> QED
      BY <1>2, <2>1, <3>1, ThenType DEF AssignLocal
  <2> QED
    BY <1>2, <2>2, Kept DEF AssignLocal, Types, SameRest, OnlyTodo
<1>3. ASSUME AssignGlobal PROVE Types'
  <2>1. /\ TodoType /\ todo # <<>> /\ Task1.s.expr \in Expr /\ Task1.s.name \in Names
        /\ currentStack \in Nat
    BY <1>3, AtStmtType, StmtFields DEF AssignGlobal, Types, StackType
  <2>2. TodoType'
    <3>1. <<ExprTask(Task1.s.expr, currentStack),
            [t |-> "setGlobal", name |-> Task1.s.name, reg |-> currentStack]>> \in Seq(Task)
      BY <2>1, TaskTypes
    <3> QED
      BY <1>3, <2>1, <3>1, ThenType DEF AssignGlobal
  <2> QED
    BY <1>3, <2>2, Kept DEF AssignGlobal, Types, SameRest, OnlyTodo
<1>4. ASSUME SetGlobal PROVE Types'
  <2>1. TodoType /\ todo # <<>> /\ Task1.name \in Names /\ Task1.reg \in Nat
    BY <1>4, AtType, TaskFields DEF SetGlobal
  <2> DEFINE k == strConstant(Task1.name)
             x == encodeABC("SETTABUP", 0, addConstantIndex(k), Task1.reg)
  <2>2. k \in Constant
    BY <2>1 DEF strConstant, Constant
  <2>3. addConstant(k) /\ emit(<<x>>) /\ Then(<<>>)
    BY <1>4 DEF SetGlobal
  <2>4. ConstantsType' /\ addConstantIndex(k) \in Nat
    BY <2>2, <2>3, AddConstantType DEF Types
  <2>5. x \in Instruction
    BY <2>1, <2>4, EncodeType DEF Ops
  <2>6. CodeType' /\ TodoType'
    BY <2>1, <2>3, <2>5, EmitOne, ThenNone DEF Types
  <2> QED
    BY <1>4, <2>4, <2>6, Kept DEF SetGlobal, Types, SameRest, OnlyTodo
<1>5. ASSUME Return PROVE Types'
  <2>1. TodoType /\ todo # <<>> /\ Task1.s.expr \in Expr /\ currentStack \in Nat
    BY <1>5, AtStmtType, StmtFields DEF Return, Types, StackType
  <2>2. TodoType'
    <3>1. <<ExprTask(Task1.s.expr, currentStack), [t |-> "return", reg |-> currentStack]>>
            \in Seq(Task)
      BY <2>1, TaskTypes
    <3> QED
      BY <1>5, <2>1, <3>1, ThenType DEF Return
  <2> QED
    BY <1>5, <2>2, Kept DEF Return, Types, SameRest, OnlyTodo
<1>6. ASSUME EmitReturn PROVE Types'
  <2>1. TodoType /\ todo # <<>> /\ Task1.reg \in Nat
    BY <1>6, AtType, TaskFields DEF EmitReturn
  <2> DEFINE x == encodeABC("RETURN", Task1.reg, 2, IF isMain THEN 1 ELSE 0)
  <2>2. x \in Instruction
    BY <2>1, EncodeType DEF Ops
  <2>3. CodeType' /\ TodoType'
    BY <1>6, <2>1, <2>2, EmitOne, ThenNone DEF Types, EmitReturn
  <2> QED
    BY <1>6, <2>3, Kept DEF EmitReturn, Types, SameRest, OnlyTodo
<1>7. ASSUME Block PROVE Types'
  <2>1. TodoType /\ todo # <<>> /\ generateStatements(Task1.s.body) \in Seq(Task)
    BY <1>7, AtStmtType, StmtFields, StatementsType DEF Block
  <2>2. TodoType'
    BY <1>7, <2>1, ThenType DEF Block
  <2> QED
    BY <1>7, <2>2, Kept DEF Block, Types, SameRest, OnlyTodo
<1>8. ASSUME ExprStmtCall PROVE Types'
  <2> DEFINE call == Task1.s.expr
             k == strConstant(call.name)
             x == encodeABC("GETTABUP", currentStack, 0, addConstantIndex(k))
             y == [t |-> "callStmt", func |-> currentStack, next |-> currentStack + 1,
                   args |-> call.args, n |-> Len(call.args)]
  <2>1. /\ TodoType /\ todo # <<>> /\ call.name \in Names /\ call.args \in Seq(Expr)
        /\ currentStack \in Nat
    BY <1>8, AtStmtType, StmtFields, ExprFields DEF ExprStmtCall, Types, StackType
  <2>2. k \in Constant
    BY <2>1 DEF strConstant, Constant
  <2>3. addConstant(k) /\ emit(<<x>>) /\ Then(<<y>>)
    BY <1>8 DEF ExprStmtCall
  <2>4. ConstantsType' /\ addConstantIndex(k) \in Nat
    BY <2>2, <2>3, AddConstantType DEF Types
  <2>5. x \in Instruction /\ y \in Task
    <3>1. x \in Instruction
      BY <2>1, <2>4, EncodeType DEF Ops
    <3>2. currentStack + 1 \in Nat /\ Len(call.args) \in Nat
      BY <2>1
    <3> QED
      BY <2>1, <3>1, <3>2, TaskTypes
  <2>6. CodeType' /\ TodoType'
    BY <2>1, <2>3, <2>5, EmitOne, ThenOne DEF Types
  <2> QED
    BY <1>8, <2>4, <2>6, Kept DEF ExprStmtCall, Types, SameRest, OnlyTodo
<1>9. ASSUME CallStmt PROVE Types'
  <2>1. /\ TodoType /\ todo # <<>> /\ Task1.func \in Nat /\ Task1.next \in Nat
        /\ Task1.n \in Nat /\ Task1.args \in Seq(Expr) /\ Task1 \in Task
        /\ Task1.t = "callStmt" /\ maxStack \in Nat
    BY <1>9, AtType, TaskFields DEF CallStmt, Types, StackType
  <2>2. CASE Task1.args # <<>>
    <3> DEFINE y == [Task1 EXCEPT !.next = @ + 1, !.args = Tail(@)]
    <3>1. Head(Task1.args) \in Expr /\ Tail(Task1.args) \in Seq(Expr)
      BY <2>1, <2>2, TailFacts
    <3>2. y \in Task
      BY <2>1, <3>1, CallTasksAdvance
    <3>3. <<ExprTask(Head(Task1.args), Task1.next), y>> \in Seq(Task)
      BY <2>1, <3>1, <3>2, TaskTypes
    <3>4. TodoType' /\ StackType'
      BY <1>9, <2>1, <2>2, <3>3, ThenType DEF CallStmt, StackType, setStack
    <3> QED
      BY <1>9, <2>2, <3>4, Kept DEF CallStmt, Types, SameRest, OnlyTodo
  <2>3. CASE Task1.args = <<>>
    <3> DEFINE x == encodeABC("CALL", Task1.func, Task1.n + 1, 1)
    <3>1. x \in Instruction
      BY <2>1, EncodeType DEF Ops
    <3>2. emit(<<x>>) /\ Then(<<>>) /\ setStack(Task1.func)
          /\ maxStack' = Larger(maxStack, Task1.next)
      BY <1>9, <2>3 DEF CallStmt
    <3>3. CodeType' /\ TodoType'
      BY <2>1, <3>1, <3>2, EmitOne, ThenNone DEF Types
    <3>4. StackType'
      BY <2>1, <3>2 DEF StackType, setStack, Larger
    <3> QED
      BY <1>9, <2>3, <3>3, <3>4, Kept DEF CallStmt, Types, SameRest, OnlyTodo
  <2> QED
    BY <2>2, <2>3
<1>10. ASSUME ExprStmtOther PROVE Types'
  <2>1. TodoType /\ todo # <<>> /\ Task1.s.expr \in Expr /\ currentStack \in Nat
    BY <1>10, AtStmtType, StmtFields DEF ExprStmtOther, Types, StackType
  <2>2. TodoType'
    <3>1. <<ExprTask(Task1.s.expr, currentStack)>> \in Seq(Task)
      BY <2>1, TaskTypes
    <3> QED
      BY <1>10, <2>1, <3>1, ThenType DEF ExprStmtOther
  <2> QED
    BY <1>10, <2>2, Kept DEF ExprStmtOther, Types, SameRest, OnlyTodo
<1> QED
  BY <1>1, <1>2, <1>3, <1>4, <1>5, <1>6, <1>7, <1>8, <1>9, <1>10

LEMMA BranchesKeepTypes ==
  ASSUME Types
  PROVE  /\ If => Types'
         /\ IfTest => Types'
         /\ IfThenEnd => Types'
         /\ IfElseEnd => Types'
         /\ While => Types'
         /\ WhileTest => Types'
         /\ WhileEnd => Types'
<1> DEFINE test(r) == <<encodeABC("TEST", r, 0, 0), encodeIsJ(0)>>
<1>0. /\ \A r \in Nat : test(r) \in Seq(Instruction)
      /\ instructions \in Seq(Instruction)
      /\ Len(instructions) \in Nat /\ currentStack \in Nat /\ maxStack \in Nat
  <2>1. \A r \in Nat : encodeABC("TEST", r, 0, 0) \in Instruction /\ encodeIsJ(0) \in Instruction
    BY EncodeType DEF Ops
  <2> QED
    BY <2>1 DEF Types, CodeType, StackType
<1>1. ASSUME If PROVE Types'
  <2>1. /\ TodoType /\ todo # <<>> /\ Task1.s.cond \in Expr
        /\ Task1.s.then \in Seq(Stmt) /\ Task1.s.else \in Seq(Stmt)
    BY <1>1, AtStmtType, StmtFields DEF If
  <2>2. <<ExprTask(Task1.s.cond, currentStack),
          [t |-> "ifTest", saved |-> currentStack,
           then |-> Task1.s.then, else |-> Task1.s.else]>> \in Seq(Task)
    BY <1>0, <2>1, TaskTypes
  <2>3. TodoType'
    BY <1>1, <2>1, <2>2, ThenType DEF If
  <2> QED
    BY <1>1, <2>3, Kept DEF If, Types, SameRest, OnlyTodo
<1>2. ASSUME IfTest PROVE Types'
  <2>1. /\ TodoType /\ todo # <<>> /\ Task1.saved \in Nat
        /\ Task1.then \in Seq(Stmt) /\ Task1.else \in Seq(Stmt)
    BY <1>2, AtType, TaskFields DEF IfTest
  <2>2. [t |-> "ifThenEnd", saved |-> Task1.saved,
         jmp |-> Len(instructions) + 1, else |-> Task1.else] \in Task
    <3>1. Len(instructions) + 1 \in Nat
      BY <1>0
    <3> QED
      BY <2>1, <3>1, TaskTypes
  <2>3. Append(generateStatements(Task1.then),
               [t |-> "ifThenEnd", saved |-> Task1.saved,
                jmp |-> Len(instructions) + 1, else |-> Task1.else]) \in Seq(Task)
    BY <2>1, <2>2, StatementsType, AppendFacts
  <2>4. CodeType' /\ TodoType' /\ StackType'
    BY <1>0, <1>2, <2>1, <2>3, EmitType, ThenType DEF IfTest, Types, StackType, setStack
  <2> QED
    BY <1>2, <2>4, Kept DEF IfTest, Types, SameRest, OnlyTodo
<1>3. ASSUME IfThenEnd PROVE Types'
  <2>1. /\ TodoType /\ todo # <<>> /\ Task1.saved \in Nat
        /\ Task1.jmp \in Nat /\ Task1.else \in Seq(Stmt)
    BY <1>3, AtType, TaskFields DEF IfThenEnd
  <2>2. StackType'
    BY <1>0, <1>3, <2>1 DEF IfThenEnd, StackType, setStack
  <2>3. CASE Task1.else # <<>>
    <3>1. Append(instructions, encodeIsJ(0)) \in Seq(Instruction)
      BY <1>0, EncodeType, AppendFacts DEF Ops
    <3>2. Patched(Append(instructions, encodeIsJ(0)), Task1.jmp, Len(instructions) + 1)
            \in Seq(Instruction)
      <4>1. Len(instructions) + 1 \in Nat
        BY <1>0
      <4> QED
        BY <2>1, <3>1, <4>1, PatchedType
    <3>3. [t |-> "ifElseEnd", saved |-> Task1.saved, jmp |-> Len(instructions)] \in Task
      BY <1>0, <2>1, TaskTypes
    <3>4. Append(generateStatements(Task1.else),
                 [t |-> "ifElseEnd", saved |-> Task1.saved, jmp |-> Len(instructions)])
            \in Seq(Task)
      BY <2>1, <3>3, StatementsType, AppendFacts
    <3>5. CodeType' /\ TodoType'
      BY <1>3, <2>1, <2>3, <3>2, <3>4, ThenType DEF IfThenEnd, CodeType
    <3> QED
      BY <1>3, <2>2, <3>5, Kept DEF IfThenEnd, Types, SameRest, OnlyTodo
  <2>4. CASE Task1.else = <<>>
    <3>1. Patched(instructions, Task1.jmp, Len(instructions)) \in Seq(Instruction)
      BY <1>0, <2>1, PatchedType
    <3>2. CodeType' /\ TodoType'
      BY <1>3, <2>1, <2>4, <3>1, ThenNone DEF IfThenEnd, CodeType
    <3> QED
      BY <1>3, <2>2, <3>2, Kept DEF IfThenEnd, Types, SameRest, OnlyTodo
  <2> QED
    BY <2>3, <2>4
<1>4. ASSUME IfElseEnd PROVE Types'
  <2>1. TodoType /\ todo # <<>> /\ Task1.saved \in Nat /\ Task1.jmp \in Nat
    BY <1>4, AtType, TaskFields DEF IfElseEnd
  <2>2. Patched(instructions, Task1.jmp, Len(instructions)) \in Seq(Instruction)
    BY <1>0, <2>1, PatchedType
  <2>3. CodeType' /\ TodoType' /\ StackType'
    BY <1>0, <1>4, <2>1, <2>2, ThenNone DEF IfElseEnd, CodeType, StackType, setStack
  <2> QED
    BY <1>4, <2>3, Kept DEF IfElseEnd, Types, SameRest, OnlyTodo
<1>5. ASSUME While PROVE Types'
  <2>1. TodoType /\ todo # <<>> /\ Task1.s.cond \in Expr /\ Task1.s.body \in Seq(Stmt)
    BY <1>5, AtStmtType, StmtFields DEF While
  <2>2. <<ExprTask(Task1.s.cond, currentStack),
          [t |-> "whileTest", saved |-> currentStack,
           start |-> Len(instructions), body |-> Task1.s.body]>> \in Seq(Task)
    <3>1. Len(instructions) \in Nat /\ currentStack \in Nat
      BY <1>0
    <3>2. [t |-> "whileTest", saved |-> currentStack,
           start |-> Len(instructions), body |-> Task1.s.body] \in Task
      BY <2>1, <3>1, TaskTypes
    <3>3. ExprTask(Task1.s.cond, currentStack) \in Task
      BY <2>1, <3>1, TaskTypes
    <3> QED
      BY <3>2, <3>3
  <2>3. TodoType'
    BY <1>5, <2>1, <2>2, ThenType DEF While
  <2> QED
    BY <1>5, <2>3, Kept DEF While, Types, SameRest, OnlyTodo
<1>6. ASSUME WhileTest PROVE Types'
  <2>1. /\ TodoType /\ todo # <<>> /\ Task1.saved \in Nat
        /\ Task1.start \in Nat /\ Task1.body \in Seq(Stmt)
    BY <1>6, AtType, TaskFields DEF WhileTest
  <2>2. [t |-> "whileEnd", saved |-> Task1.saved,
         start |-> Task1.start, jmp |-> Len(instructions) + 1] \in Task
    BY <1>0, <2>1, TaskTypes
  <2>3. Append(generateStatements(Task1.body),
               [t |-> "whileEnd", saved |-> Task1.saved,
                start |-> Task1.start, jmp |-> Len(instructions) + 1]) \in Seq(Task)
    BY <2>1, <2>2, StatementsType, AppendFacts
  <2>4. CodeType' /\ TodoType' /\ StackType'
    BY <1>0, <1>6, <2>1, <2>3, EmitType, ThenType DEF WhileTest, Types, StackType, setStack
  <2> QED
    BY <1>6, <2>4, Kept DEF WhileTest, Types, SameRest, OnlyTodo
<1>7. ASSUME WhileEnd PROVE Types'
  <2> DEFINE back == encodeIsJ(Task1.start - Len(instructions) - 1)
  <2>1. TodoType /\ todo # <<>> /\ Task1.saved \in Nat /\ Task1.start \in Nat /\ Task1.jmp \in Nat
    BY <1>7, AtType, TaskFields DEF WhileEnd
  <2>2. Append(instructions, back) \in Seq(Instruction)
    <3>1. Task1.start - Len(instructions) - 1 \in Int
      BY <1>0, <2>1
    <3>2. back \in Instruction
      BY <3>1, EncodeType DEF Ops
    <3> QED
      BY <1>0, <3>2, AppendFacts
  <2>3. Patched(Append(instructions, back), Task1.jmp, Len(instructions) + 1) \in Seq(Instruction)
    <3>1. Len(instructions) + 1 \in Nat
      BY <1>0
    <3> QED
      BY <2>1, <2>2, <3>1, PatchedType
  <2>4. CodeType' /\ TodoType' /\ StackType'
    BY <1>0, <1>7, <2>1, <2>3, ThenNone DEF WhileEnd, CodeType, StackType, setStack
  <2> QED
    BY <1>7, <2>4, Kept DEF WhileEnd, Types, SameRest, OnlyTodo
<1> QED
  BY <1>1, <1>2, <1>3, <1>4, <1>5, <1>6, <1>7

LEMMA ExpressionsKeepTypes ==
  ASSUME Types
  PROVE  /\ IntLiteral => Types'
         /\ FloatLiteral => Types'
         /\ BoolLiteral => Types'
         /\ Variable => Types'
         /\ Binary => Types'
         /\ BinaryRight => Types'
         /\ BinaryOp => Types'
         /\ Call => Types'
         /\ CallExpr => Types'
         /\ Compare => Types'
         /\ CompareOp => Types'
<1>0. currentStack \in Nat /\ maxStack \in Nat
  BY DEF Types, StackType
<1>1. ASSUME IntLiteral PROVE Types'
  <2> DEFINE k == intConstant(Task1.e.int)
             short == encodeAsBx("LOADI", Task1.dest, Task1.e.int)
             long == loadConstant(Task1.dest, addConstantIndex(k))
  <2>1. TodoType /\ todo # <<>> /\ Task1.e.int \in Int /\ Task1.dest \in Nat
    BY <1>1, AtExprType, ExprFields DEF IntLiteral
  <2>2. k \in Constant /\ short \in Instruction
    BY <2>1, EncodeType DEF intConstant, Constant, Ops
  <2>3. CodeType' /\ ConstantsType'
    <3>1. CASE emit(<<short>>) /\ SameConstants
      BY <2>2, <3>1, EmitOne, Kept DEF Types
    <3>2. CASE addConstant(k) /\ emit(long)
      <4>1. ConstantsType' /\ addConstantIndex(k) \in Nat
        BY <2>2, <3>2, AddConstantType DEF Types
      <4> QED
        BY <2>1, <3>2, <4>1, LoadConstantType, EmitType DEF Types
    <3> QED
      BY <1>1, <3>1, <3>2 DEF IntLiteral
  <2>4. TodoType'
    BY <1>1, <2>1, ThenNone DEF IntLiteral
  <2> QED
    BY <1>1, <2>3, <2>4, Kept DEF IntLiteral, Types, SameRest, OnlyTodo
<1>2. ASSUME FloatLiteral PROVE Types'
  <2> DEFINE k == fltConstant(Task1.e.num, Task1.e.den)
             short == encodeAsBx("LOADF", Task1.dest, Task1.e.num)
             long == loadConstant(Task1.dest, addConstantIndex(k))
  <2>1. /\ TodoType /\ todo # <<>> /\ Task1.e.num \in Int /\ Task1.e.den \in Nat \ {0}
        /\ Task1.dest \in Nat
    BY <1>2, AtExprType, ExprFields DEF FloatLiteral
  <2>2. k \in Constant /\ short \in Instruction
    BY <2>1, EncodeType DEF fltConstant, Constant, Ops
  <2>3. CodeType' /\ ConstantsType'
    <3>1. CASE emit(<<short>>) /\ SameConstants
      BY <2>2, <3>1, EmitOne, Kept DEF Types
    <3>2. CASE addConstant(k) /\ emit(long)
      <4>1. ConstantsType' /\ addConstantIndex(k) \in Nat
        BY <2>2, <3>2, AddConstantType DEF Types
      <4> QED
        BY <2>1, <3>2, <4>1, LoadConstantType, EmitType DEF Types
    <3> QED
      BY <1>2, <3>1, <3>2 DEF FloatLiteral
  <2>4. TodoType'
    BY <1>2, <2>1, ThenNone DEF FloatLiteral
  <2> QED
    BY <1>2, <2>3, <2>4, Kept DEF FloatLiteral, Types, SameRest, OnlyTodo
<1>3. ASSUME BoolLiteral PROVE Types'
  <2> DEFINE x == encodeABC(IF Task1.e.bool THEN "LOADTRUE" ELSE "LOADFALSE", Task1.dest, 0, 0)
  <2>1. TodoType /\ todo # <<>> /\ Task1.dest \in Nat
    BY <1>3, AtExprType DEF BoolLiteral
  <2>2. x \in Instruction
    BY <2>1, EncodeType DEF Ops
  <2>3. CodeType' /\ TodoType'
    BY <1>3, <2>1, <2>2, EmitOne, ThenNone DEF BoolLiteral, Types
  <2> QED
    BY <1>3, <2>3, Kept DEF BoolLiteral, Types, SameRest, OnlyTodo
<1>4. ASSUME Variable PROVE Types'
  <2> DEFINE name == Task1.e.name
             k == strConstant(name)
             move == encodeABC("MOVE", Task1.dest, localIndex[name], 0)
             get == encodeABC("GETTABUP", Task1.dest, 0, addConstantIndex(k))
  <2>1. TodoType /\ todo # <<>> /\ name \in Names /\ Task1.dest \in Nat
    BY <1>4, AtExprType, ExprFields DEF Variable
  <2>2. k \in Constant
    BY <2>1 DEF strConstant, Constant
  <2>3. CodeType' /\ ConstantsType'
    <3>1. CASE isLocal(name) /\ emit(<<move>>) /\ SameConstants
      <4>1. localIndex[name] \in Nat
        BY <3>1, LocalType DEF Types
      <4>2. move \in Instruction
        BY <2>1, <4>1, EncodeType DEF Ops
      <4> QED
        BY <3>1, <4>2, EmitOne, Kept DEF Types
    <3>2. CASE addConstant(k) /\ emit(<<get>>)
      <4>1. ConstantsType' /\ addConstantIndex(k) \in Nat
        BY <2>2, <3>2, AddConstantType DEF Types
      <4>2. get \in Instruction
        BY <2>1, <4>1, EncodeType DEF Ops
      <4> QED
        BY <3>2, <4>1, <4>2, EmitOne DEF Types
    <3> QED
      BY <1>4, <3>1, <3>2 DEF Variable
  <2>4. TodoType'
    BY <1>4, <2>1, ThenNone DEF Variable
  <2> QED
    BY <1>4, <2>3, <2>4, Kept DEF Variable, Types, SameRest, OnlyTodo
<1>5. ASSUME Binary PROVE Types'
  <2>1. /\ TodoType /\ todo # <<>> /\ Task1.e.left \in Expr /\ Task1.e.right \in Expr
        /\ Task1.dest \in Nat /\ Task1.e.op \in ArithOps
    BY <1>5, AtExprType, ExprFields DEF Binary
  <2>2. <<ExprTask(Task1.e.left, Task1.dest),
          [t |-> "binRight", op |-> Task1.e.op, dest |-> Task1.dest,
           right |-> Task1.e.right]>> \in Seq(Task)
    BY <2>1, TaskTypes
  <2>3. TodoType'
    BY <1>5, <2>1, <2>2, ThenType DEF Binary
  <2> QED
    BY <1>5, <2>3, Kept DEF Binary, Types, SameRest, OnlyTodo
<1>6. ASSUME BinaryRight PROVE Types'
  <2> DEFINE right == IF currentStack = Task1.dest THEN currentStack + 1 ELSE currentStack
  <2>1. /\ TodoType /\ todo # <<>> /\ Task1.op \in ArithOps /\ Task1.dest \in Nat
        /\ Task1.right \in Expr
    BY <1>6, AtType, TaskFields DEF BinaryRight
  <2>2. right \in Nat
    BY <1>0
  <2>3. <<ExprTask(Task1.right, right),
          [t |-> "binOp", op |-> Task1.op, dest |-> Task1.dest, right |-> right]>> \in Seq(Task)
    BY <2>1, <2>2, TaskTypes
  <2>4. TodoType'
    BY <1>6, <2>1, <2>3, ThenType DEF BinaryRight
  <2>5. StackType'
    BY <1>0, <1>6, <2>2 DEF BinaryRight, StackType, bumpStack, Larger
  <2> QED
    BY <1>6, <2>4, <2>5, Kept DEF BinaryRight, Types, SameRest, OnlyTodo
<1>7. ASSUME BinaryOp PROVE Types'
  <2> DEFINE x == encodeABC(Task1.op, Task1.dest, Task1.dest, Task1.right)
             y == encodeABC("MMBIN", Task1.dest, Task1.right, MM[Task1.op])
  <2>1. /\ TodoType /\ todo # <<>> /\ Task1.op \in ArithOps /\ Task1.dest \in Nat
        /\ Task1.right \in Nat
    BY <1>7, AtType, TaskFields DEF BinaryOp
  <2>2. Task1.op \in Ops /\ MM[Task1.op] \in Int
    BY <2>1 DEF ArithOps, Ops, MM
  <2>3. x \in Instruction /\ y \in Instruction
    BY <2>1, <2>2, EncodeType DEF Ops
  <2>4. <<x, y>> \in Seq(Instruction)
    BY <2>3
  <2>5. CodeType' /\ TodoType'
    BY <1>7, <2>1, <2>4, EmitType, ThenNone DEF BinaryOp, Types
  <2> QED
    BY <1>7, <2>5, Kept DEF BinaryOp, Types, SameRest, OnlyTodo
<1>8. ASSUME Call PROVE Types'
  <2> DEFINE k == strConstant(Task1.e.name)
             x == encodeABC("GETTABUP", Task1.dest, 0, addConstantIndex(k))
             y == [t |-> "callExpr", func |-> Task1.dest, inc |-> 0,
                   args |-> Task1.e.args, n |-> Len(Task1.e.args), saved |-> currentStack]
  <2>1. /\ TodoType /\ todo # <<>> /\ Task1.e.name \in Names /\ Task1.e.args \in Seq(Expr)
        /\ Task1.dest \in Nat
    BY <1>8, AtExprType, ExprFields DEF Call
  <2>2. k \in Constant
    BY <2>1 DEF strConstant, Constant
  <2>3. addConstant(k) /\ emit(<<x>>) /\ Then(<<y>>) /\ setStack(Task1.dest + 1)
    BY <1>8 DEF Call
  <2>4. ConstantsType' /\ addConstantIndex(k) \in Nat
    BY <2>2, <2>3, AddConstantType DEF Types
  <2>5. x \in Instruction
    BY <2>1, <2>4, EncodeType DEF Ops
  <2>6. y \in Task
    <3>1. Len(Task1.e.args) \in Nat /\ 0 \in {0, 1}
      BY <2>1
    <3> QED
      BY <1>0, <2>1, <3>1, TaskTypes
  <2>7. CodeType' /\ TodoType'
    BY <2>1, <2>3, <2>5, <2>6, EmitOne, ThenOne DEF Types
  <2>8. StackType'
    BY <1>0, <1>8, <2>1, <2>3 DEF Call, StackType, setStack
  <2> QED
    BY <1>8, <2>4, <2>7, <2>8, Kept DEF Call, Types, SameRest, OnlyTodo
<1>9. ASSUME CallExpr PROVE Types'
  <2> DEFINE next == currentStack + Task1.inc
  <2>1. /\ TodoType /\ todo # <<>> /\ Task1.func \in Nat /\ Task1.inc \in {0, 1}
        /\ Task1.n \in Nat /\ Task1.args \in Seq(Expr) /\ Task1.saved \in Nat
        /\ Task1 \in Task /\ Task1.t = "callExpr"
    BY <1>9, AtType, TaskFields DEF CallExpr
  <2>2. next \in Nat
    BY <1>0, <2>1
  <2>3. CASE Task1.args # <<>>
    <3> DEFINE y == [Task1 EXCEPT !.inc = 1, !.args = Tail(@)]
    <3>1. Head(Task1.args) \in Expr /\ Tail(Task1.args) \in Seq(Expr)
      BY <2>1, <2>3, TailFacts
    <3>2. y \in Task
      BY <2>1, <3>1, CallTasksAdvance
    <3>3. <<ExprTask(Head(Task1.args), next), y>> \in Seq(Task)
      BY <2>2, <3>1, <3>2, TaskTypes
    <3>4. TodoType'
      BY <1>9, <2>1, <2>3, <3>3, ThenType DEF CallExpr
    <3>5. StackType'
      BY <1>0, <1>9, <2>2, <2>3 DEF CallExpr, StackType, setStack
    <3> QED
      BY <1>9, <2>3, <3>4, <3>5, Kept DEF CallExpr, Types, SameRest, OnlyTodo
  <2>4. CASE Task1.args = <<>>
    <3> DEFINE x == encodeABC("CALL", Task1.func, Task1.n + 1, 2)
    <3>1. x \in Instruction
      BY <2>1, EncodeType DEF Ops
    <3>2. emit(<<x>>) /\ Then(<<>>) /\ setStack(Task1.saved)
          /\ maxStack' = Larger(maxStack, next)
      BY <1>9, <2>4 DEF CallExpr
    <3>3. CodeType' /\ TodoType'
      BY <2>1, <3>1, <3>2, EmitOne, ThenNone DEF Types
    <3>4. StackType'
      BY <1>0, <2>1, <2>2, <3>2 DEF StackType, setStack, Larger
    <3> QED
      BY <1>9, <2>4, <3>3, <3>4, Kept DEF CallExpr, Types, SameRest, OnlyTodo
  <2> QED
    BY <2>3, <2>4
<1>10. ASSUME Compare PROVE Types'
  <2>1. /\ TodoType /\ todo # <<>> /\ Task1.e.left \in Expr /\ Task1.e.right \in Expr
        /\ Task1.dest \in Nat /\ Task1.e.op \in CompareOps
    BY <1>10, AtExprType, ExprFields DEF Compare
  <2>2. <<ExprTask(Task1.e.left, Task1.dest + 1), ExprTask(Task1.e.right, Task1.dest + 2),
          [t |-> "compare", op |-> Task1.e.op, dest |-> Task1.dest,
           saved |-> currentStack]>> \in Seq(Task)
    BY <1>0, <2>1, TaskTypes
  <2>3. TodoType'
    BY <1>10, <2>1, <2>2, ThenType DEF Compare
  <2>4. StackType'
    BY <1>0, <1>10, <2>1 DEF Compare, StackType, bumpStack, Larger
  <2> QED
    BY <1>10, <2>3, <2>4, Kept DEF Compare, Types, SameRest, OnlyTodo
<1>11. ASSUME CompareOp PROVE Types'
  <2> DEFINE seg == <<encodeABC("LOADFALSE", Task1.dest, 0, 0),
                      CompareInstruction(Task1.op, Task1.dest + 1, Task1.dest + 2),
                      encodeIsJ(1),
                      encodeABC("LOADTRUE", Task1.dest, 0, 0)>>
  <2>1. TodoType /\ todo # <<>> /\ Task1.op \in CompareOps /\ Task1.dest \in Nat /\ Task1.saved \in Nat
    BY <1>11, AtType, TaskFields DEF CompareOp
  <2>2. CompareInstruction(Task1.op, Task1.dest + 1, Task1.dest + 2) \in Instruction
    BY <2>1, CompareType
  <2>3. /\ encodeABC("LOADFALSE", Task1.dest, 0, 0) \in Instruction
        /\ encodeABC("LOADTRUE", Task1.dest, 0, 0) \in Instruction
        /\ encodeIsJ(1) \in Instruction
    BY <2>1, EncodeType DEF Ops
  <2>4. seg \in Seq(Instruction)
    BY <2>2, <2>3
  <2>5. CodeType' /\ TodoType'
    BY <1>11, <2>1, <2>4, EmitType, ThenNone DEF CompareOp, Types
  <2>6. StackType'
    BY <1>0, <1>11, <2>1 DEF CompareOp, StackType, setStack
  <2> QED
    BY <1>11, <2>5, <2>6, Kept DEF CompareOp, Types, SameRest, OnlyTodo
<1> QED
  BY <1>1, <1>2, <1>3, <1>4, <1>5, <1>6, <1>7, <1>8, <1>9, <1>10, <1>11

LEMMA FunctionsKeepTypes ==
  ASSUME Types
  PROVE  /\ FuncDecl => Types'
         /\ EndFunction => Types'
         /\ FuncEnd => Types'
         /\ EndMain => Types'
<1>1. ASSUME FuncDecl PROVE Types'
  <2> DEFINE rest == <<[t |-> "funcEnd", name |-> Task1.s.name,
                        params |-> Len(Task1.s.params)]>> \o Tail(todo)
             up == [instructions |-> instructions, constants |-> constants,
                    constantIndex |-> constantIndex, locals |-> locals,
                    localIndex |-> localIndex, currentStack |-> currentStack,
                    maxStack |-> maxStack, functions |-> functions, todo |-> rest]
  <2>1. /\ TodoType /\ todo # <<>> /\ Task1.s.name \in Names
        /\ Task1.s.params \in Seq(Names) /\ Task1.s.body \in Seq(Stmt)
    BY <1>1, AtStmtType, StmtFields DEF FuncDecl
  <2>2. rest \in Seq(Task)
    <3>1. Len(Task1.s.params) \in Nat
      BY <2>1
    <3>2. [t |-> "funcEnd", name |-> Task1.s.name, params |-> Len(Task1.s.params)] \in Task
      BY <2>1, <3>1, TaskTypes
    <3>3. <<[t |-> "funcEnd", name |-> Task1.s.name, params |-> Len(Task1.s.params)]>>
            \in Seq(Task)
      BY <3>2
    <3> QED
      BY <2>1, <3>3, HeadType, ConcatFacts
  <2>3. GeneratorOK(up)
    BY <2>2 DEF GeneratorOK, Types, CodeType, ConstantsType, LocalsType, StackType,
                FunctionsType
  <2>4. OuterType'
    <3>1. outer' = Append(outer, up)
      BY <1>1 DEF FuncDecl
    <3> HIDE DEF up
    <3> QED
      BY <2>3, <3>1, OuterPush DEF Types
  <2>5. CodeType' /\ ConstantsType' /\ FunctionsType'
    BY <1>1 DEF FuncDecl, CodeType, ConstantsType, FunctionsType
  <2>6. LocalsType' /\ StackType'
    <3>1. Len(Task1.s.params) \in Nat
      BY <2>1
    <3>2. locals' = Task1.s.params /\ localIndex' = paramIndex(Task1.s.params)
          /\ currentStack' = Len(Task1.s.params) /\ maxStack' = Len(Task1.s.params)
      BY <1>1 DEF FuncDecl
    <3> QED
      BY <2>1, <3>1, <3>2, ParamIndexType DEF LocalsType, StackType
  <2>7. TodoType'
    BY <1>1, <2>1, StatementsType DEF FuncDecl, TodoType
  <2> QED
    BY <1>1, <2>4, <2>5, <2>6, <2>7, Kept DEF FuncDecl, Types
<1>2. ASSUME EndFunction PROVE Types'
  <2> DEFINE up == outer[Len(outer)]
  <2>1. outer # <<>>
    BY <1>2 DEF EndFunction, isMain
  <2>2. GeneratorOK(up)
    BY <2>1 DEF Types, OuterType
  <2>3. OuterType'
    BY <1>2, <2>1, OuterPop DEF EndFunction, Types
  <2>4. ProtosType'
    BY <1>2, FinishedType, AppendFacts DEF EndFunction, Types, ProtosType
  <2>5. /\ CodeType' /\ ConstantsType' /\ LocalsType' /\ StackType' /\ FunctionsType'
        /\ TodoType'
    <3>1. /\ instructions' = up.instructions
          /\ constants' = up.constants /\ constantIndex' = up.constantIndex
          /\ locals' = up.locals /\ localIndex' = up.localIndex
          /\ currentStack' = up.currentStack /\ maxStack' = up.maxStack
          /\ functions' = up.functions
          /\ todo' = up.todo
      BY <1>2 DEF EndFunction
    <3> HIDE DEF up
    <3> QED
      BY <2>2, <3>1 DEF GeneratorOK, CodeType, ConstantsType, LocalsType, StackType,
                        FunctionsType, TodoType
  <2> QED
    BY <1>2, <2>3, <2>4, <2>5, Kept DEF EndFunction, Types
<1>3. ASSUME FuncEnd PROVE Types'
  <2> DEFINE reg == addLocalIndex(Task1.name)
             k == strConstant(Task1.name)
             x == encodeABx("CLOSURE", reg, Len(functions))
             y == encodeABC("SETTABUP", 0, addConstantIndex(k), reg)
             f == [proto |-> Len(protos), numParams |-> Task1.params]
  <2>1. TodoType /\ todo # <<>> /\ Task1.name \in Names /\ Task1.params \in Nat
    BY <1>3, AtType, TaskFields DEF FuncEnd
  <2>2. k \in Constant
    BY <2>1 DEF strConstant, Constant
  <2>3. addConstant(k) /\ addLocal(Task1.name) /\ emit(<<x, y>>) /\ Then(<<>>)
        /\ functions' = Append(functions, f)
    BY <1>3 DEF FuncEnd
  <2>4. ConstantsType' /\ addConstantIndex(k) \in Nat
    BY <2>2, <2>3, AddConstantType DEF Types
  <2>5. LocalsType' /\ StackType' /\ reg \in Nat
    BY <2>1, <2>3, AddLocalType DEF Types
  <2>6. functions \in Seq(FunctionProto) /\ Len(functions) \in Nat /\ Len(protos) \in Nat
    BY DEF Types, FunctionsType, ProtosType
  <2>7. x \in Instruction /\ y \in Instruction
    BY <2>4, <2>5, <2>6, EncodeType DEF Ops
  <2>8. CodeType'
    <3>1. <<x, y>> \in Seq(Instruction)
      BY <2>7
    <3> QED
      BY <2>3, <3>1, EmitType DEF Types
  <2>9. FunctionsType'
    <3>1. f \in FunctionProto
      BY <2>1, <2>6 DEF FunctionProto
    <3> QED
      BY <2>3, <2>6, <3>1, AppendFacts DEF FunctionsType
  <2>10. TodoType'
    BY <2>1, <2>3, ThenNone
  <2> QED
    BY <1>3, <2>4, <2>5, <2>8, <2>9, <2>10, Kept DEF FuncEnd, Types
<1>4. ASSUME EndMain PROVE Types'
  <2>1. ProtosType'
    BY <1>4, FinishedType, AppendFacts DEF EndMain, Types, ProtosType
  <2>2. OutcomeType'
    BY <1>4 DEF EndMain, Types, OutcomeType
  <2>3. TodoType'
    BY <1>4 DEF EndMain, genVars, Types, TodoType
  <2> QED
    BY <1>4, <2>1, <2>2, <2>3, Kept DEF EndMain, genVars, Types, SameConstants, SameStack
<1> QED
  BY <1>1, <1>2, <1>3, <1>4

----------------------------------------------------------------------------
(* The steps of the working generator; the others change generators.       *)
Working ==
  \/ VarDecl \/ AssignLocal \/ AssignGlobal \/ SetGlobal
  \/ If \/ IfTest \/ IfThenEnd \/ IfElseEnd
  \/ While \/ WhileTest \/ WhileEnd
  \/ Return \/ EmitReturn \/ Block
  \/ ExprStmtCall \/ CallStmt \/ ExprStmtOther
  \/ IntLiteral \/ FloatLiteral \/ BoolLiteral \/ Variable
  \/ Binary \/ BinaryRight \/ BinaryOp
  \/ Call \/ CallExpr \/ Compare \/ CompareOp \/ FuncEnd

----------------------------------------------------------------------------
LEMMA InitTypes == Init => Types
<1> SUFFICES ASSUME Init PROVE Types
  OBVIOUS
<1>1. program \in Seq(Stmt)
  BY ProgramsAssumption DEF Init
<1>2. TodoType
  BY <1>1, StatementsType DEF Init, TodoType
<1>3. CodeType
  <2>1. encodeABx("VARARGPREP", 0, 0) \in Instruction
    BY EncodeType DEF Ops
  <2> QED
    BY <2>1 DEF Init, CodeType
<1>4. ConstantsType /\ LocalsType
  BY DEF Init, ConstantsType, LocalsType
<1>5. OuterType
  <2>1. <<>> \in Seq({})
    OBVIOUS
  <2>2. IsSequence(<<>>)
    BY <2>1, SequenceOver
  <2> QED
    BY <2>2 DEF Init, OuterType
<1> QED
  BY <1>1, <1>2, <1>3, <1>4, <1>5
     DEF Init, Types, StackType, FunctionsType, ProtosType, OutcomeType

LEMMA NextTypes == Types /\ [Next]_vars => Types'
<1> SUFFICES ASSUME Types, [Next]_vars PROVE Types'
  OBVIOUS
<1>1. CASE Next
  BY <1>1, StatementsKeepTypes, BranchesKeepTypes, ExpressionsKeepTypes, FunctionsKeepTypes
     DEF Next
<1>2. CASE UNCHANGED vars
  BY <1>2, Kept DEF vars, genVars, Types, TodoType, SameConstants, SameStack
<1> QED
  BY <1>1, <1>2

(* The generator's variables have their types in every reachable state,    *)
(* for every set of programs and all sizes.                                *)
THEOREM TypeCorrect == Spec => []TypeOK
<1>1. Spec => []Types
  BY InitTypes, NextTypes, PTL DEF Spec
<1>2. Types => TypeOK
  BY TypeParts
<1> QED
  BY <1>1, <1>2, PTL

----------------------------------------------------------------------------
(* Code.                                                                   *)

(* The code grows, and only the targets of jumps change.                   *)
Grown(c, d) ==
  /\ Len(c) <= Len(d)
  /\ \A n \in 1..Len(c) : d[n] = c[n] \/ (c[n].op = "JMP" /\ d[n].op = "JMP")

LEMMA PartnerFacts ==
  /\ \A x : FirstOfPair(x) <=> x.op \in {"TEST", "EQ", "LT", "LE", "ADD", "SUB", "MUL",
                                         "DIV", "LOADKX"}
  /\ \A o \in {"TEST", "EQ", "LT", "LE"} : Partner[o] = "JMP"
  /\ \A o \in {"ADD", "SUB", "MUL", "DIV"} : Partner[o] = "MMBIN"
  /\ Partner["LOADKX"] = "EXTRAARG"
  BY DEF FirstOfPair, Partner

LEMMA EndIsEntry ==
  ASSUME NEW c \in Seq(Instruction), PairsKept(c)
  PROVE  Entry(c, Len(c) + 1)
<1>1. Len(c) \in Nat
  OBVIOUS
<1>2. ASSUME Len(c) + 1 > 1, FirstOfPair(c[Len(c)]) PROVE FALSE
  <2>1. Len(c) \in 1..Len(c)
    BY <1>1, <1>2
  <2>2. Len(c) < Len(c)
    BY <1>2, <2>1 DEF PairsKept
  <2> QED
    BY <1>1, <2>2
<1>3. Len(c) + 1 - 1 = Len(c)
  BY <1>1
<1> QED
  BY <1>1, <1>2, <1>3 DEF Entry

LEMMA ConcatWellFormed ==
  ASSUME NEW c \in Seq(Instruction), NEW d \in Seq(Instruction),
         WellFormed(c), WellFormed(d)
  PROVE  WellFormed(c \o d) /\ Grown(c, c \o d)
<1> DEFINE e == c \o d
<1>1. /\ e \in Seq(Instruction)
      /\ Len(e) = Len(c) + Len(d)
      /\ Len(c) \in Nat /\ Len(d) \in Nat
      /\ \A n \in 1..Len(c) : e[n] = c[n]
      /\ \A n \in 1..Len(d) : e[Len(c) + n] = d[n]
  BY ConcatFacts
<1> HIDE DEF e
<1>2. \A n \in 1..Len(e) : n \in 1..Len(c) \/ \E m \in 1..Len(d) : n = Len(c) + m
  <2> TAKE n \in 1..Len(e)
  <2>1. CASE n > Len(c)
    <3>1. n - Len(c) \in 1..Len(d) /\ n = Len(c) + (n - Len(c))
      BY <1>1, <2>1
    <3> QED
      BY <3>1
  <2> QED
    BY <1>1, <2>1
<1>3. PairsKept(e)
  <2> SUFFICES ASSUME NEW n \in 1..Len(e), FirstOfPair(e[n])
               PROVE  n < Len(e) /\ e[n + 1].op = Partner[e[n].op]
    BY DEF PairsKept
  <2>1. CASE n \in 1..Len(c)
    <3>1. n < Len(c) /\ c[n + 1].op = Partner[c[n].op]
      BY <1>1, <2>1 DEF WellFormed, PairsKept
    <3>2. n + 1 \in 1..Len(c)
      BY <1>1, <3>1
    <3> QED
      BY <1>1, <2>1, <3>1, <3>2
  <2>2. ASSUME NEW m \in 1..Len(d), n = Len(c) + m
        PROVE  n < Len(e) /\ e[n + 1].op = Partner[e[n].op]
    <3>1. m < Len(d) /\ d[m + 1].op = Partner[d[m].op]
      BY <1>1, <2>2 DEF WellFormed, PairsKept
    <3>2. m + 1 \in 1..Len(d) /\ n + 1 = Len(c) + (m + 1)
      BY <1>1, <2>2, <3>1
    <3> QED
      BY <1>1, <2>2, <3>1, <3>2
  <2> QED
    BY <1>2, <2>1, <2>2
<1>4. JumpsEnter(e)
  <2> SUFFICES ASSUME NEW n \in 1..Len(e), e[n].op = "JMP"
               PROVE  Entry(e, JumpTarget(e, n))
    BY DEF JumpsEnter
  <2>1. CASE n \in 1..Len(c)
    <3> DEFINE t == JumpTarget(c, n)
    <3>1. Entry(c, t) /\ JumpTarget(e, n) = t
      BY <1>1, <2>1 DEF WellFormed, JumpsEnter, JumpTarget
    <3> HIDE DEF t
    <3>2. t > 1 => t - 1 \in 1..Len(c) /\ e[t - 1] = c[t - 1]
      BY <1>1, <3>1 DEF Entry
    <3> QED
      BY <1>1, <3>1, <3>2 DEF Entry
  <2>2. ASSUME NEW m \in 1..Len(d), n = Len(c) + m
        PROVE  Entry(e, JumpTarget(e, n))
    <3> DEFINE t == JumpTarget(d, m)
    <3>1. Entry(d, t)
      BY <1>1, <2>2 DEF WellFormed, JumpsEnter
    <3>2. t \in 1..Len(d)+1 /\ (t > 1 => ~FirstOfPair(d[t - 1]))
      BY <3>1 DEF Entry
    <3>3. JumpTarget(e, n) = Len(c) + t
      <4>1. e[n] = d[m] /\ d[m] \in Instruction
        BY <1>1, <2>2
      <4>2. d[m].b \in Int
        BY <4>1 DEF Instruction
      <4>3. JumpTarget(e, n) = Len(c) + m + 1 + d[m].b /\ t = m + 1 + d[m].b
        BY <2>2, <4>1 DEF JumpTarget
      <4>4. m \in Int /\ Len(c) \in Int
        BY <1>1, <2>2
      <4> QED
        BY <4>2, <4>3, <4>4
    <3> HIDE DEF t
    <3>4. CASE t = 1
      BY <1>1, <3>3, <3>4, EndIsEntry DEF WellFormed, Entry
    <3>5. CASE t > 1
      <4>1. t - 1 \in 1..Len(d) /\ Len(c) + t - 1 = Len(c) + (t - 1)
        BY <1>1, <3>2, <3>5
      <4>2. e[Len(c) + t - 1] = d[t - 1]
        BY <1>1, <4>1
      <4> QED
        BY <1>1, <3>2, <3>3, <3>5, <4>2 DEF Entry
    <3> QED
      BY <3>2, <3>4, <3>5
  <2> QED
    BY <1>2, <2>1, <2>2
<1>5. Grown(c, e)
  BY <1>1 DEF Grown
<1> QED
  BY <1>3, <1>4, <1>5 DEF WellFormed, e

(* A single instruction that is neither a jump nor the first of a pair.    *)
LEMMA PlainWellFormed ==
  ASSUME NEW x \in Instruction,
         x.op \notin {"TEST", "EQ", "LT", "LE", "ADD", "SUB", "MUL", "DIV", "LOADKX", "JMP"}
  PROVE  WellFormed(<<x>>)
  BY PartnerFacts DEF WellFormed, PairsKept, JumpsEnter

LEMMA PatchWellFormed ==
  ASSUME NEW c \in Seq(Instruction), WellFormed(c),
         NEW j \in Nat, j < Len(c), c[j + 1].op = "JMP",
         NEW end \in Nat, Entry(c, end + 1)
  PROVE  WellFormed(Patched(c, j, end)) /\ Grown(c, Patched(c, j, end))
<1> DEFINE x == encodeIsJ(end - j - 1)
           d == Patched(c, j, end)
<1>1. /\ x.op = "JMP" /\ x.b = end - j - 1
      /\ Len(c) \in Nat /\ j + 1 \in 1..Len(c)
  BY DEF encodeIsJ
<1>2. /\ Len(d) = Len(c)
      /\ d[j + 1] = x
      /\ \A n \in 1..Len(c) : n # j + 1 => d[n] = c[n]
  BY <1>1 DEF Patched
<1>3. \A n \in 1..Len(c) : d[n].op = c[n].op
  BY <1>1, <1>2
<1> HIDE DEF d, x
<1>4. \A p : Entry(c, p) => Entry(d, p)
  <2> SUFFICES ASSUME NEW p, Entry(c, p) PROVE Entry(d, p)
    OBVIOUS
  <2>1. p \in 1..Len(c)+1 /\ (p > 1 => p - 1 \in 1..Len(c) /\ ~FirstOfPair(c[p - 1]))
    BY <1>1 DEF Entry
  <2> QED
    BY <1>2, <1>3, <2>1 DEF Entry, FirstOfPair
<1>5. PairsKept(d)
  <2> SUFFICES ASSUME NEW n \in 1..Len(c), FirstOfPair(d[n])
               PROVE  n < Len(c) /\ d[n + 1].op = Partner[d[n].op]
    BY <1>2 DEF PairsKept
  <2>1. n < Len(c) /\ c[n + 1].op = Partner[c[n].op]
    BY <1>3 DEF WellFormed, PairsKept, FirstOfPair
  <2>2. n + 1 \in 1..Len(c)
    BY <1>1, <2>1
  <2> QED
    BY <1>3, <2>1, <2>2
<1>6. JumpsEnter(d)
  <2> SUFFICES ASSUME NEW n \in 1..Len(c), d[n].op = "JMP"
               PROVE  Entry(d, JumpTarget(d, n))
    BY <1>2 DEF JumpsEnter
  <2>1. CASE n = j + 1
    <3>1. JumpTarget(d, n) = end + 1
      BY <1>1, <1>2, <2>1 DEF JumpTarget
    <3> QED
      BY <1>4, <3>1
  <2>2. CASE n # j + 1
    BY <1>2, <1>4, <2>2 DEF WellFormed, JumpsEnter, JumpTarget
  <2> QED
    BY <2>1, <2>2
<1> QED
  BY <1>1, <1>2, <1>3, <1>5, <1>6 DEF WellFormed, Grown, d

LEMMA JumpWellFormed ==
  ASSUME NEW c \in Seq(Instruction), WellFormed(c)
  PROVE  /\ Append(c, encodeIsJ(0)) \in Seq(Instruction)
         /\ WellFormed(Append(c, encodeIsJ(0)))
         /\ Grown(c, Append(c, encodeIsJ(0)))
         /\ Append(c, encodeIsJ(0))[Len(c) + 1].op = "JMP"
<1>1. encodeIsJ(0) \in Instruction /\ encodeIsJ(0).op = "JMP" /\ encodeIsJ(0).b = 0
  BY EncodeType DEF encodeIsJ, Ops
<1> DEFINE x == encodeIsJ(0)
<1> HIDE DEF x
<1>2. WellFormed(<<x>>)
  <2>1. PairsKept(<<x>>)
    BY <1>1, PartnerFacts DEF PairsKept, x
  <2>2. JumpTarget(<<x>>, 1) = 2
    BY <1>1 DEF JumpTarget, x
  <2>3. Entry(<<x>>, 2)
    BY <1>1, PartnerFacts DEF Entry, x
  <2> QED
    BY <2>1, <2>2, <2>3 DEF WellFormed, JumpsEnter
<1>3. Append(c, x) = c \o <<x>> /\ <<x>> \in Seq(Instruction)
  BY <1>1 DEF x
<1>4. WellFormed(Append(c, x)) /\ Grown(c, Append(c, x))
  BY <1>2, <1>3, ConcatWellFormed
<1> QED
  BY <1>1, <1>4, AppendFacts DEF x

(* The jump back at the end of a loop.                                     *)
LEMMA BackWellFormed ==
  ASSUME NEW c \in Seq(Instruction), WellFormed(c), NEW start \in Nat, Entry(c, start + 1)
  PROVE  /\ Append(c, encodeIsJ(start - Len(c) - 1)) \in Seq(Instruction)
         /\ WellFormed(Append(c, encodeIsJ(start - Len(c) - 1)))
         /\ Grown(c, Append(c, encodeIsJ(start - Len(c) - 1)))
         /\ Append(c, encodeIsJ(start - Len(c) - 1))[Len(c) + 1].op = "JMP"
<1> DEFINE d == Append(c, encodeIsJ(0))
           x == encodeIsJ(start - Len(c) - 1)
<1>1. /\ d \in Seq(Instruction) /\ WellFormed(d) /\ Grown(c, d)
      /\ d[Len(c) + 1].op = "JMP" /\ Len(d) = Len(c) + 1 /\ Len(c) \in Nat
      /\ x \in Instruction /\ x.op = "JMP"
  <2>1. encodeIsJ(0) \in Instruction /\ Len(c) \in Nat
    BY EncodeType DEF Ops
  <2>2. x \in Instruction /\ x.op = "JMP"
    BY <2>1, EncodeType DEF encodeIsJ, Ops
  <2> QED
    BY <2>1, <2>2, JumpWellFormed, AppendFacts
<1>2. Entry(d, start + 1)
  <2>1. start + 1 \in 1..Len(c)+1 /\ (start + 1 > 1 => start \in 1..Len(c) /\ ~FirstOfPair(c[start]))
    BY <1>1 DEF Entry
  <2>2. start > 0 => d[start].op = c[start].op
    BY <1>1, <2>1 DEF Grown
  <2> QED
    BY <1>1, <2>1, <2>2 DEF Entry, FirstOfPair
<1>3. Append(c, x) = Patched(d, Len(c), start)
  <2> DEFINE F(y) == [n \in 1..Len(c)+1 |-> IF n = Len(c) + 1 THEN y ELSE c[n]]
  <2>0. \A y \in Instruction : Append(c, y) = F(y)
    BY AppendFunction
  <2>1. Append(c, x) = F(x)
    BY <1>1, <2>0
  <2>2. d = F(encodeIsJ(0))
    BY <2>0, EncodeType DEF Ops
  <2> QED
    BY <1>1, <2>1, <2>2 DEF Patched
<1>4. WellFormed(Append(c, x))
  <2> HIDE DEF d, x
  <2> QED
    BY <1>1, <1>2, <1>3, PatchWellFormed
<1> QED
  BY <1>1, <1>4, AppendFacts DEF Grown

LEMMA FinishedClosed ==
  ASSUME NEW c \in Seq(Instruction), WellFormed(c)
  PROVE  LET d == Append(c, encodeABC("RETURN0", 0, 0, 0))
         IN  WellFormed(d) /\ Closed(d)
<1> DEFINE x == encodeABC("RETURN0", 0, 0, 0)
           d == Append(c, x)
<1>1. x \in Instruction /\ x.op = "RETURN0"
  <2>1. x \in Instruction
    BY EncodeType DEF Ops
  <2>2. x.op = "RETURN0"
    BY DEF encodeABC, encodeABCK
  <2> QED
    BY <2>1, <2>2
<1> HIDE DEF x
<1>2. /\ Len(d) = Len(c) + 1 /\ Len(c) \in Nat
      /\ \A n \in 1..Len(c) : d[n] = c[n]
      /\ d[Len(c) + 1] = x
  BY <1>1, AppendFacts
<1>3. WellFormed(d)
  <2>1. WellFormed(<<x>>)
    BY <1>1, PlainWellFormed
  <2>2. d = c \o <<x>> /\ <<x>> \in Seq(Instruction)
    BY <1>1
  <2> QED
    BY <2>1, <2>2, ConcatWellFormed
<1> HIDE DEF d
<1>4. Closed(d)
  <2> SUFFICES ASSUME NEW n \in 1..Len(d) PROVE Successors(d, n) \subseteq 1..Len(d)
    BY DEF Closed
  <2>1. CASE n = Len(c) + 1
    BY <1>1, <1>2, <2>1 DEF Successors
  <2>2. CASE n \in 1..Len(c)
    <3>0. d[n] = c[n] /\ n + 1 \in 1..Len(d)
      BY <1>2, <2>2
    <3>1. CASE c[n].op \in {"RETURN", "RETURN0"}
      BY <3>0, <3>1 DEF Successors
    <3>2. CASE c[n].op = "JMP"
      <4>1. Entry(c, JumpTarget(c, n))
        BY <2>2, <3>2 DEF WellFormed, JumpsEnter
      <4> QED
        BY <1>2, <3>0, <3>2, <4>1 DEF Successors, JumpTarget, Entry
    <3>3. CASE FirstOfPair(c[n])
      <4>1. n < Len(c) /\ c[n + 1].op = Partner[c[n].op]
        BY <2>2, <3>3 DEF WellFormed, PairsKept
      <4>2. n + 1 \in 1..Len(c) /\ n + 2 \in 1..Len(d) /\ d[n + 1] = c[n + 1]
        BY <1>2, <2>2, <4>1
      <4>3. CASE c[n].op \in {"TEST", "EQ", "LT", "LE"}
        <5>1. Entry(c, JumpTarget(c, n + 1))
          BY <4>1, <4>2, <4>3, PartnerFacts DEF WellFormed, JumpsEnter
        <5>2. JumpTarget(d, n + 1) \in 1..Len(d)
          BY <1>2, <4>2, <5>1 DEF JumpTarget, Entry
        <5> QED
          BY <3>0, <4>2, <4>3, <5>2 DEF Successors
      <4>4. CASE c[n].op \in {"ADD", "SUB", "MUL", "DIV", "LOADKX"}
        BY <3>0, <4>2, <4>4 DEF Successors
      <4> QED
        BY <3>3, <4>3, <4>4, PartnerFacts
    <3>4. CASE c[n].op \notin {"RETURN", "RETURN0", "JMP"} /\ ~FirstOfPair(c[n])
      BY <3>0, <3>4, PartnerFacts DEF Successors
    <3> QED
      BY <3>1, <3>2, <3>3, <3>4
  <2> QED
    BY <1>2, <2>1, <2>2
<1> QED
  BY <1>3, <1>4 DEF d, x

(* Sending a jump to the end.                                              *)
LEMMA PatchToEnd ==
  ASSUME NEW c \in Seq(Instruction), WellFormed(c),
         NEW j \in Nat, j < Len(c), c[j + 1].op = "JMP"
  PROVE  WellFormed(Patched(c, j, Len(c))) /\ Grown(c, Patched(c, j, Len(c)))
<1>1. Len(c) \in Nat /\ Entry(c, Len(c) + 1)
  BY EndIsEntry DEF WellFormed
<1> QED
  BY <1>1, PatchWellFormed

LEMMA GrownTwice ==
  ASSUME NEW b \in Seq(Instruction), NEW c \in Seq(Instruction), NEW d \in Seq(Instruction),
         Grown(b, c), Grown(c, d)
  PROVE  Grown(b, d)
<1>1. Len(b) \in Nat /\ Len(c) \in Nat /\ Len(d) \in Nat
  OBVIOUS
<1> QED
  BY <1>1 DEF Grown

(* A waiting jump stays where it is while the code grows.                  *)
LEMMA FitsGrow ==
  ASSUME NEW c \in Seq(Instruction), NEW d \in Seq(Instruction), Grown(c, d),
         NEW x \in Task, TaskFits(c, x)
  PROVE  TaskFits(d, x)
<1>1. Len(c) \in Nat /\ Len(d) \in Nat /\ Len(c) <= Len(d)
      /\ \A n \in 1..Len(c) : d[n].op = c[n].op
  BY DEF Grown
<1>2. ASSUME x.t \in {"ifThenEnd", "ifElseEnd", "whileEnd"}
      PROVE  x.jmp < Len(d) /\ d[x.jmp + 1].op = "JMP"
  <2>1. x.jmp \in Nat
    BY <1>2, TaskFields
  <2>2. x.jmp + 1 \in 1..Len(c) /\ c[x.jmp + 1].op = "JMP"
    BY <1>1, <1>2, <2>1 DEF TaskFits
  <2> QED
    BY <1>1, <2>1, <2>2
<1>3. ASSUME x.t \in {"whileTest", "whileEnd"}
      PROVE  Entry(d, x.start + 1)
  <2>1. x.start \in Nat
    BY <1>3, TaskFields
  <2>2. x.start + 1 \in 1..Len(c)+1 /\ (x.start > 0 => ~FirstOfPair(c[x.start]))
    BY <1>3, <2>1 DEF TaskFits, Entry
  <2>3. x.start > 0 => d[x.start].op = c[x.start].op
    BY <1>1, <2>1, <2>2
  <2> QED
    BY <1>1, <2>1, <2>2, <2>3 DEF Entry, FirstOfPair
<1> QED
  BY <1>2, <1>3 DEF TaskFits

----------------------------------------------------------------------------
(* A step of the working generator.                                        *)

HereFits == /\ WellFormed(instructions)
            /\ \A n \in 1..Len(todo) : TaskFits(instructions, todo[n])

HereStep == HereFits' /\ Grown(instructions, instructions')

(* Tasks that remember no position of the code.                            *)
Plain(x) == x.t \notin {"ifThenEnd", "ifElseEnd", "whileTest", "whileEnd"}

LEMMA HeadFits ==
  ASSUME Types, HereFits, todo # <<>>
  PROVE  TaskFits(instructions, Task1)
<1>1. todo \in Seq(Task) /\ 1 \in 1..Len(todo) /\ Head(todo) = todo[1]
  BY DEF Types, TodoType
<1> QED
  BY <1>1 DEF HereFits, Task1

(* What an emitted segment and the tasks of a step are, given that the     *)
(* variables keep their types.                                             *)
LEMMA SegmentType ==
  ASSUME CodeType, CodeType', NEW S, NEW seg \in Seq(S), emit(seg)
  PROVE  seg \in Seq(Instruction)
<1> DEFINE T == S \cup Instruction
<1>1. instructions \in Seq(T) /\ seg \in Seq(T) /\ instructions' \in Seq(Instruction)
  BY DEF CodeType
<1> HIDE DEF T
<1>2. \A n \in 1..Len(seg) : seg[n] \in Instruction
  <2> TAKE n \in 1..Len(seg)
  <2>1. /\ instructions'[Len(instructions) + n] = seg[n]
        /\ Len(instructions') = Len(instructions) + Len(seg)
        /\ Len(seg) \in Nat /\ Len(instructions) \in Nat
    BY <1>1, ConcatFacts DEF emit
  <2>2. Len(instructions) + n \in 1..Len(instructions')
    BY <2>1
  <2> QED
    BY <1>1, <2>1, <2>2
<1> QED
  BY <1>1, <1>2

LEMMA TasksType ==
  ASSUME TodoType, TodoType', todo # <<>>, NEW S, NEW tasks \in Seq(S), Then(tasks)
  PROVE  tasks \in Seq(Task)
<1> DEFINE T == S \cup Task
<1>1. Tail(todo) \in Seq(T) /\ tasks \in Seq(T) /\ todo' \in Seq(Task)
  BY HeadType DEF TodoType
<1> HIDE DEF T
<1>2. \A n \in 1..Len(tasks) : tasks[n] \in Task
  <2> TAKE n \in 1..Len(tasks)
  <2>1. /\ todo'[n] = tasks[n]
        /\ Len(todo') = Len(tasks) + Len(Tail(todo))
        /\ Len(tasks) \in Nat /\ Len(Tail(todo)) \in Nat
    BY <1>1, ConcatFacts DEF Then
  <2>2. n \in 1..Len(todo')
    BY <2>1
  <2> QED
    BY <1>1, <2>1, <2>2
<1> QED
  BY <1>1, <1>2

(* The code grows to a well-formed one and the new tasks fit it.           *)
LEMMA StepFits ==
  ASSUME Types, Types', HereFits, todo # <<>>,
         WellFormed(instructions'), Grown(instructions, instructions'),
         NEW S, NEW tasks \in Seq(S), Then(tasks),
         \A n \in 1..Len(tasks) : TaskFits(instructions', tasks[n])
  PROVE  HereStep
<1>1. /\ instructions \in Seq(Instruction) /\ instructions' \in Seq(Instruction)
      /\ todo \in Seq(Task) /\ tasks \in Seq(Task) /\ Tail(todo) \in Seq(Task)
  BY TasksType, HeadType DEF Types, CodeType, TodoType
<1>2. \A n \in 1..Len(Tail(todo)) : TaskFits(instructions', Tail(todo)[n])
  <2> TAKE n \in 1..Len(Tail(todo))
  <2>1. Tail(todo)[n] = todo[n + 1] /\ n + 1 \in 1..Len(todo)
    BY <1>1, TailFacts
  <2>2. TaskFits(instructions, Tail(todo)[n]) /\ Tail(todo)[n] \in Task
    BY <1>1, <2>1 DEF HereFits
  <2> QED
    BY <1>1, <2>2, FitsGrow
<1>3. ASSUME NEW n \in 1..Len(todo') PROVE TaskFits(instructions', todo'[n])
  <2>1. /\ Len(todo') = Len(tasks) + Len(Tail(todo))
        /\ Len(tasks) \in Nat /\ Len(Tail(todo)) \in Nat
        /\ \A m \in 1..Len(tasks) : todo'[m] = tasks[m]
        /\ \A m \in 1..Len(Tail(todo)) : todo'[Len(tasks) + m] = Tail(todo)[m]
    BY <1>1, ConcatFacts DEF Then
  <2>2. CASE n \in 1..Len(tasks)
    BY <2>1, <2>2
  <2>3. CASE n \notin 1..Len(tasks)
    <3> DEFINE m == n - Len(tasks)
    <3>1. m \in 1..Len(Tail(todo)) /\ n = Len(tasks) + m
      BY <2>1, <2>3
    <3> HIDE DEF m
    <3> QED
      BY <1>2, <2>1, <3>1
  <2> QED
    BY <2>2, <2>3
<1> QED
  BY <1>3 DEF HereFits, HereStep

LEMMA PlainFits ==
  ASSUME NEW c, NEW x, Plain(x)
  PROVE  TaskFits(c, x)
  BY DEF Plain, TaskFits

LEMMA QuietStep ==
  ASSUME Types, Types', HereFits, todo # <<>>, UNCHANGED instructions,
         NEW S, NEW tasks \in Seq(S), Then(tasks),
         \A n \in 1..Len(tasks) : Plain(tasks[n])
  PROVE  HereStep
<1>1. WellFormed(instructions') /\ Grown(instructions, instructions')
  BY DEF HereFits, Grown, Types, CodeType
<1>2. \A n \in 1..Len(tasks) : TaskFits(instructions', tasks[n])
  BY PlainFits
<1> QED
  BY <1>1, <1>2, StepFits

LEMMA EmitStep ==
  ASSUME Types, Types', HereFits, todo # <<>>,
         NEW R, NEW seg \in Seq(R), emit(seg),
         seg \in Seq(Instruction) => WellFormed(seg),
         NEW S, NEW tasks \in Seq(S), Then(tasks),
         \A n \in 1..Len(tasks) : Plain(tasks[n])
  PROVE  HereStep
<1>1. instructions \in Seq(Instruction) /\ seg \in Seq(Instruction)
  BY SegmentType DEF Types, CodeType
<1>2. WellFormed(instructions') /\ Grown(instructions, instructions')
  BY <1>1, ConcatWellFormed DEF HereFits, emit
<1>3. \A n \in 1..Len(tasks) : TaskFits(instructions', tasks[n])
  BY PlainFits
<1> QED
  BY <1>2, <1>3, StepFits

(* The steps that keep the code.                                           *)
LEMMA QuietNone ==
  ASSUME Types, Types', HereFits, todo # <<>>, UNCHANGED instructions, Then(<<>>)
  PROVE  HereStep
<1>1. <<>> \in Seq({}) /\ \A n \in 1..Len(<<>>) : Plain(<<>>[n])
  OBVIOUS
<1> QED
  BY <1>1, QuietStep

LEMMA QuietOne ==
  ASSUME Types, Types', HereFits, todo # <<>>, UNCHANGED instructions,
         NEW x, Then(<<x>>), Plain(x)
  PROVE  HereStep
<1>1. <<x>> \in Seq({x}) /\ \A n \in 1..Len(<<x>>) : Plain(<<x>>[n])
  OBVIOUS
<1> QED
  BY <1>1, QuietStep

LEMMA QuietTwo ==
  ASSUME Types, Types', HereFits, todo # <<>>, UNCHANGED instructions,
         NEW x, NEW y, Then(<<x, y>>), Plain(x), Plain(y)
  PROVE  HereStep
<1>1. <<x, y>> \in Seq({x, y}) /\ \A n \in 1..Len(<<x, y>>) : Plain(<<x, y>>[n])
  OBVIOUS
<1> QED
  BY <1>1, QuietStep

(* The steps that emit one instruction.                                    *)
Lone == {"LOADI", "LOADF", "LOADK", "LOADTRUE", "LOADFALSE", "MOVE", "GETTABUP",
         "SETTABUP", "CLOSURE", "CALL", "RETURN", "RETURN0"}

LEMMA LoneFits ==
  ASSUME NEW x \in Instruction, x.op \in Lone
  PROVE  WellFormed(<<x>>)
<1>1. x.op \notin {"TEST", "EQ", "LT", "LE", "ADD", "SUB", "MUL", "DIV", "LOADKX", "JMP"}
  BY DEF Lone
<1> QED
  BY <1>1, PlainWellFormed

LEMMA EmitLone ==
  ASSUME Types, Types', HereFits, todo # <<>>,
         NEW x, emit(<<x>>), x.op \in Lone,
         NEW S, NEW tasks \in Seq(S), Then(tasks),
         \A n \in 1..Len(tasks) : Plain(tasks[n])
  PROVE  HereStep
<1>1. <<x>> \in Seq({x})
  OBVIOUS
<1>2. ASSUME <<x>> \in Seq(Instruction) PROVE WellFormed(<<x>>)
  <2>1. x \in Instruction
    BY <1>2
  <2> QED
    BY <2>1, LoneFits
<1> QED
  BY <1>1, <1>2, EmitStep

LEMMA LoneNone ==
  ASSUME Types, Types', HereFits, todo # <<>>,
         NEW x, emit(<<x>>), x.op \in Lone, Then(<<>>)
  PROVE  HereStep
<1>1. <<>> \in Seq({}) /\ \A n \in 1..Len(<<>>) : Plain(<<>>[n])
  OBVIOUS
<1> QED
  BY <1>1, EmitLone

LEMMA LoneOne ==
  ASSUME Types, Types', HereFits, todo # <<>>,
         NEW x, emit(<<x>>), x.op \in Lone, NEW y, Then(<<y>>), Plain(y)
  PROVE  HereStep
<1>1. <<y>> \in Seq({y}) /\ \A n \in 1..Len(<<y>>) : Plain(<<y>>[n])
  OBVIOUS
<1> QED
  BY <1>1, EmitLone

(* The steps that emit more than one.                                      *)
LEMMA PairFits ==
  ASSUME NEW x \in Instruction, NEW y \in Instruction,
         FirstOfPair(x), y.op = Partner[x.op], y.op # "JMP"
  PROVE  WellFormed(<<x, y>>)
<1> DEFINE c == <<x, y>>
<1>1. Len(c) = 2 /\ c[1] = x /\ c[2] = y
  OBVIOUS
<1>2. x.op # "JMP" /\ ~FirstOfPair(y)
  BY PartnerFacts
<1> HIDE DEF c
<1>3. PairsKept(c) /\ JumpsEnter(c)
  BY <1>1, <1>2 DEF PairsKept, JumpsEnter
<1> QED
  BY <1>3 DEF WellFormed, c

LEMMA PlainPairFits ==
  ASSUME NEW x \in Instruction, NEW y \in Instruction, x.op \in Lone, y.op \in Lone
  PROVE  WellFormed(<<x, y>>)
<1> DEFINE c == <<x, y>>
<1>1. Len(c) = 2 /\ c[1] = x /\ c[2] = y
  OBVIOUS
<1>2. /\ x.op # "JMP" /\ ~FirstOfPair(x)
      /\ y.op # "JMP" /\ ~FirstOfPair(y)
  BY PartnerFacts DEF Lone
<1> HIDE DEF c
<1>3. PairsKept(c) /\ JumpsEnter(c)
  BY <1>1, <1>2 DEF PairsKept, JumpsEnter
<1> QED
  BY <1>3 DEF WellFormed, c

(* The template of a comparison: the jump skips to the end.                *)
LEMMA TemplateFits ==
  ASSUME NEW w \in Instruction, NEW x \in Instruction, NEW y \in Instruction,
         NEW z \in Instruction, w.op = "LOADFALSE", x.op \in {"EQ", "LT", "LE"},
         y.op = "JMP", y.b = 1, z.op = "LOADTRUE"
  PROVE  WellFormed(<<w, x, y, z>>)
<1> DEFINE c == <<w, x, y, z>>
<1>1. Len(c) = 4 /\ c[1] = w /\ c[2] = x /\ c[3] = y /\ c[4] = z
  OBVIOUS
<1>2. /\ ~FirstOfPair(w) /\ ~FirstOfPair(y) /\ ~FirstOfPair(z)
      /\ Partner[x.op] = "JMP" /\ x.op # "JMP"
  BY PartnerFacts
<1> HIDE DEF c
<1>3. PairsKept(c)
  BY <1>1, <1>2 DEF PairsKept
<1>4. JumpsEnter(c)
  <2>1. JumpTarget(c, 3) = 5 /\ Entry(c, 5)
    BY <1>1, <1>2 DEF JumpTarget, Entry
  <2> QED
    BY <1>1, <1>2, <2>1 DEF JumpsEnter
<1> QED
  BY <1>3, <1>4 DEF WellFormed, c

LEMMA OpFacts ==
  /\ \A op, a, b, c, k : encodeABCK(op, a, b, c, k).op = op
  /\ \A op, a, b, c : encodeABC(op, a, b, c).op = op
  /\ \A op, a, b : encodeABx(op, a, b).op = op
  /\ \A op, a, b : encodeAsBx(op, a, b).op = op
  /\ \A b : encodeIsJ(b).op = "JMP" /\ encodeIsJ(b).b = b
  BY DEF encodeABCK, encodeABC, encodeABx, encodeAsBx, encodeIsJ

LEMMA LoadConstantFits ==
  ASSUME NEW d, NEW n, loadConstant(d, n) \in Seq(Instruction)
  PROVE  WellFormed(loadConstant(d, n))
<1>1. CASE n < BxSize
  <2> DEFINE x == encodeABx("LOADK", d, n)
  <2>1. loadConstant(d, n) = <<x>> /\ x.op \in Lone
    BY <1>1, OpFacts DEF loadConstant, Lone
  <2> HIDE DEF x
  <2>2. x \in Instruction
    BY <2>1
  <2> QED
    BY <2>1, <2>2, LoneFits
<1>2. CASE ~(n < BxSize)
  <2> DEFINE x == encodeABx("LOADKX", d, 0)
             y == encodeABx("EXTRAARG", 0, n)
  <2>1. loadConstant(d, n) = <<x, y>>
    BY <1>2 DEF loadConstant
  <2>2. x.op = "LOADKX" /\ y.op = "EXTRAARG"
    BY OpFacts
  <2> HIDE DEF x, y
  <2>3. x \in Instruction /\ y \in Instruction
    BY <2>1
  <2> QED
    BY <2>1, <2>2, <2>3, PairFits, PartnerFacts
<1> QED
  BY <1>1, <1>2

----------------------------------------------------------------------------
(* Each action of the working generator.                                   *)

LEMMA StatementsFit ==
  ASSUME NEW ss \in Seq(Stmt)
  PROVE  /\ generateStatements(ss) \in Seq(Task)
         /\ \A n \in 1..Len(generateStatements(ss)) : Plain(generateStatements(ss)[n])
<1>1. /\ generateStatements(ss) \in Seq(Task)
      /\ \A n \in 1..Len(generateStatements(ss)) : generateStatements(ss)[n] = StmtTask(ss[n])
  BY StatementsType
<1>2. \A s : Plain(StmtTask(s))
  BY DEF Plain, StmtTask
<1> QED
  BY <1>1, <1>2

LEMMA SegmentNone ==
  ASSUME Types, Types', HereFits, todo # <<>>,
         NEW R, NEW seg \in Seq(R), emit(seg),
         seg \in Seq(Instruction) => WellFormed(seg), Then(<<>>)
  PROVE  HereStep
<1>1. <<>> \in Seq({}) /\ \A n \in 1..Len(<<>>) : Plain(<<>>[n])
  OBVIOUS
<1> QED
  BY <1>1, EmitStep

LEMMA ConstantStep ==
  ASSUME Types, Types', HereFits, todo # <<>>,
         NEW d, NEW n, emit(loadConstant(d, n)), Then(<<>>)
  PROVE  HereStep
<1>1. \E S : loadConstant(d, n) \in Seq(S)
  <2>1. \A x, y : <<x>> \in Seq({x}) /\ <<x, y>> \in Seq({x, y})
    OBVIOUS
  <2> QED
    BY <2>1 DEF loadConstant
<1> QED
  BY <1>1, LoadConstantFits, SegmentNone

LEMMA QuietActionsFit ==
  ASSUME Types, Types', HereFits
  PROVE  /\ VarDecl => HereStep
         /\ AssignLocal => HereStep
         /\ AssignGlobal => HereStep
         /\ If => HereStep
         /\ Return => HereStep
         /\ Block => HereStep
         /\ ExprStmtOther => HereStep
         /\ Binary => HereStep
         /\ BinaryRight => HereStep
         /\ Compare => HereStep
<1>0. /\ \A s : Plain(StmtTask(s))
      /\ \A e, d : Plain(ExprTask(e, d))
  BY DEF Plain, StmtTask, ExprTask
<1>1. ASSUME VarDecl PROVE HereStep
  BY <1>0, <1>1, AtStmtType, QuietOne DEF VarDecl
<1>2. ASSUME AssignLocal PROVE HereStep
  BY <1>0, <1>2, AtStmtType, QuietOne DEF AssignLocal, OnlyTodo
<1>3. ASSUME AssignGlobal PROVE HereStep
  <2> DEFINE y == [t |-> "setGlobal", name |-> Task1.s.name, reg |-> currentStack]
  <2>1. Plain(y)
    BY DEF Plain
  <2>2. todo # <<>> /\ UNCHANGED instructions
        /\ Then(<<ExprTask(Task1.s.expr, currentStack), y>>)
    BY <1>3, AtStmtType DEF AssignGlobal, OnlyTodo
  <2> HIDE DEF y
  <2> QED
    BY <1>0, <2>1, <2>2, QuietTwo
<1>4. ASSUME If PROVE HereStep
  <2> DEFINE y == [t |-> "ifTest", saved |-> currentStack,
                   then |-> Task1.s.then, else |-> Task1.s.else]
  <2>1. Plain(y)
    BY DEF Plain
  <2> QED
    BY <1>0, <1>4, <2>1, AtStmtType, QuietTwo DEF If, OnlyTodo
<1>5. ASSUME Return PROVE HereStep
  <2> DEFINE y == [t |-> "return", reg |-> currentStack]
  <2>1. Plain(y)
    BY DEF Plain
  <2> QED
    BY <1>0, <1>5, <2>1, AtStmtType, QuietTwo DEF Return, OnlyTodo
<1>6. ASSUME Block PROVE HereStep
  <2>1. todo # <<>> /\ Task1.s.body \in Seq(Stmt)
    BY <1>6, AtStmtType, StmtFields DEF Block
  <2> QED
    BY <1>6, <2>1, StatementsFit, QuietStep DEF Block, OnlyTodo
<1>7. ASSUME ExprStmtOther PROVE HereStep
  BY <1>0, <1>7, AtStmtType, QuietOne DEF ExprStmtOther, OnlyTodo
<1>8. ASSUME Binary PROVE HereStep
  <2> DEFINE y == [t |-> "binRight", op |-> Task1.e.op, dest |-> Task1.dest,
                   right |-> Task1.e.right]
  <2>1. Plain(y)
    BY DEF Plain
  <2> QED
    BY <1>0, <1>8, <2>1, AtExprType, QuietTwo DEF Binary, OnlyTodo
<1>9. ASSUME BinaryRight PROVE HereStep
  <2> DEFINE right == IF currentStack = Task1.dest THEN currentStack + 1 ELSE currentStack
             x == ExprTask(Task1.right, right)
             y == [t |-> "binOp", op |-> Task1.op, dest |-> Task1.dest, right |-> right]
  <2>1. Plain(x) /\ Plain(y)
    BY <1>0 DEF Plain
  <2>2. todo # <<>> /\ Then(<<x, y>>) /\ UNCHANGED instructions
    BY <1>9, AtType DEF BinaryRight
  <2> HIDE DEF x, y
  <2> QED
    BY <2>1, <2>2, QuietTwo
<1>10. ASSUME Compare PROVE HereStep
  <2> DEFINE x == ExprTask(Task1.e.left, Task1.dest + 1)
             y == ExprTask(Task1.e.right, Task1.dest + 2)
             z == [t |-> "compare", op |-> Task1.e.op, dest |-> Task1.dest,
                   saved |-> currentStack]
  <2>1. Plain(x) /\ Plain(y) /\ Plain(z)
    BY <1>0 DEF Plain
  <2>2. todo # <<>> /\ Then(<<x, y, z>>) /\ UNCHANGED instructions
    BY <1>10, AtExprType DEF Compare
  <2> HIDE DEF x, y, z
  <2>3. <<x, y, z>> \in Seq({x, y, z}) /\ \A n \in 1..Len(<<x, y, z>>) : Plain(<<x, y, z>>[n])
    BY <2>1
  <2> QED
    BY <2>2, <2>3, QuietStep
<1> QED
  BY <1>1, <1>2, <1>3, <1>4, <1>5, <1>6, <1>7, <1>8, <1>9, <1>10

LEMMA EmitActionsFit ==
  ASSUME Types, Types', HereFits
  PROVE  /\ SetGlobal => HereStep
         /\ EmitReturn => HereStep
         /\ ExprStmtCall => HereStep
         /\ CallStmt => HereStep
         /\ IntLiteral => HereStep
         /\ FloatLiteral => HereStep
         /\ BoolLiteral => HereStep
         /\ Variable => HereStep
         /\ BinaryOp => HereStep
         /\ Call => HereStep
         /\ CallExpr => HereStep
         /\ CompareOp => HereStep
         /\ FuncEnd => HereStep
<1>1. ASSUME SetGlobal PROVE HereStep
  <2> DEFINE x == encodeABC("SETTABUP", 0, addConstantIndex(strConstant(Task1.name)),
                            Task1.reg)
  <2>1. x.op \in Lone
    BY OpFacts DEF Lone
  <2>2. todo # <<>> /\ emit(<<x>>) /\ Then(<<>>)
    BY <1>1, AtType DEF SetGlobal
  <2> QED
    BY <2>1, <2>2, LoneNone
<1>2. ASSUME EmitReturn PROVE HereStep
  <2> DEFINE x == encodeABC("RETURN", Task1.reg, 2, IF isMain THEN 1 ELSE 0)
  <2>1. x.op \in Lone
    BY OpFacts DEF Lone
  <2>2. todo # <<>> /\ emit(<<x>>) /\ Then(<<>>)
    BY <1>2, AtType DEF EmitReturn
  <2> HIDE DEF x
  <2> QED
    BY <2>1, <2>2, LoneNone
<1>3. ASSUME ExprStmtCall PROVE HereStep
  <2> DEFINE call == Task1.s.expr
             x == encodeABC("GETTABUP", currentStack, 0,
                            addConstantIndex(strConstant(call.name)))
             y == [t |-> "callStmt", func |-> currentStack, next |-> currentStack + 1,
                   args |-> call.args, n |-> Len(call.args)]
  <2>1. x.op \in Lone /\ Plain(y)
    BY OpFacts DEF Lone, Plain
  <2>2. todo # <<>> /\ emit(<<x>>) /\ Then(<<y>>)
    BY <1>3, AtStmtType DEF ExprStmtCall
  <2> HIDE DEF x, y
  <2> QED
    BY <2>1, <2>2, LoneOne
<1>4. ASSUME CallStmt PROVE HereStep
  <2>0. Task1 \in Task /\ Task1.t = "callStmt" /\ todo # <<>>
    BY <1>4, AtType DEF CallStmt
  <2>1. CASE Task1.args # <<>>
    <3> DEFINE x == ExprTask(Head(Task1.args), Task1.next)
               y == [Task1 EXCEPT !.next = @ + 1, !.args = Tail(@)]
    <3>1. Plain(x) /\ Plain(y)
      <4>1. y.t = Task1.t
        OBVIOUS
      <4> QED
        BY <2>0, <4>1 DEF Plain, ExprTask
    <3>2. Then(<<x, y>>) /\ UNCHANGED instructions
      BY <1>4, <2>1 DEF CallStmt
    <3> HIDE DEF x, y
    <3> QED
      BY <2>0, <3>1, <3>2, QuietTwo
  <2>2. CASE Task1.args = <<>>
    <3> DEFINE x == encodeABC("CALL", Task1.func, Task1.n + 1, 1)
    <3>1. x.op \in Lone
      BY OpFacts DEF Lone
    <3>2. emit(<<x>>) /\ Then(<<>>)
      BY <1>4, <2>2 DEF CallStmt
    <3> HIDE DEF x
    <3> QED
      BY <2>0, <3>1, <3>2, LoneNone
  <2> QED
    BY <2>1, <2>2

<1>5. ASSUME IntLiteral PROVE HereStep
  <2> DEFINE n == Task1.e.int
             x == encodeAsBx("LOADI", Task1.dest, n)
             seg == loadConstant(Task1.dest, addConstantIndex(intConstant(n)))
  <2>0. todo # <<>> /\ Then(<<>>)
    BY <1>5, AtExprType DEF IntLiteral
  <2>1. CASE emit(<<x>>)
    <3>1. x.op \in Lone
      BY OpFacts DEF Lone
    <3> HIDE DEF x
    <3> QED
      BY <2>0, <2>1, <3>1, LoneNone
  <2>2. CASE emit(seg)
    BY <2>0, <2>2, ConstantStep
  <2> QED
    BY <1>5, <2>1, <2>2 DEF IntLiteral
<1>6. ASSUME FloatLiteral PROVE HereStep
  <2> DEFINE x == encodeAsBx("LOADF", Task1.dest, Task1.e.num)
             seg == loadConstant(Task1.dest,
                                 addConstantIndex(fltConstant(Task1.e.num, Task1.e.den)))
  <2>0. todo # <<>> /\ Then(<<>>)
    BY <1>6, AtExprType DEF FloatLiteral
  <2>1. CASE emit(<<x>>)
    <3>1. x.op \in Lone
      BY OpFacts DEF Lone
    <3> HIDE DEF x
    <3> QED
      BY <2>0, <2>1, <3>1, LoneNone
  <2>2. CASE emit(seg)
    BY <2>0, <2>2, ConstantStep
  <2> QED
    BY <1>6, <2>1, <2>2 DEF FloatLiteral
<1>7. ASSUME BoolLiteral PROVE HereStep
  <2> DEFINE x == encodeABC(IF Task1.e.bool THEN "LOADTRUE" ELSE "LOADFALSE",
                            Task1.dest, 0, 0)
  <2>1. x.op \in Lone
    BY OpFacts DEF Lone
  <2>2. todo # <<>> /\ emit(<<x>>) /\ Then(<<>>)
    BY <1>7, AtExprType DEF BoolLiteral
  <2> HIDE DEF x
  <2> QED
    BY <2>1, <2>2, LoneNone
<1>8. ASSUME Variable PROVE HereStep
  <2> DEFINE name == Task1.e.name
             x == encodeABC("MOVE", Task1.dest, localIndex[name], 0)
             y == encodeABC("GETTABUP", Task1.dest, 0, addConstantIndex(strConstant(name)))
  <2>1. x.op \in Lone /\ y.op \in Lone
    BY OpFacts DEF Lone
  <2>2. todo # <<>> /\ (emit(<<x>>) \/ emit(<<y>>)) /\ Then(<<>>)
    BY <1>8, AtExprType DEF Variable
  <2> HIDE DEF x, y
  <2> QED
    BY <2>1, <2>2, LoneNone
<1>9. ASSUME BinaryOp PROVE HereStep
  <2> DEFINE x == encodeABC(Task1.op, Task1.dest, Task1.dest, Task1.right)
             y == encodeABC("MMBIN", Task1.dest, Task1.right, MM[Task1.op])
  <2>1. todo # <<>> /\ Task1.op \in ArithOps /\ emit(<<x, y>>) /\ Then(<<>>)
    BY <1>9, AtType, TaskFields DEF BinaryOp
  <2>2. FirstOfPair(x) /\ y.op = Partner[x.op] /\ y.op # "JMP"
    BY <2>1, OpFacts, PartnerFacts DEF ArithOps
  <2> HIDE DEF x, y
  <2>3. ASSUME <<x, y>> \in Seq(Instruction) PROVE WellFormed(<<x, y>>)
    <3>1. x \in Instruction /\ y \in Instruction
      BY <2>3
    <3> QED
      BY <2>2, <3>1, PairFits
  <2>4. <<x, y>> \in Seq({x, y})
    OBVIOUS
  <2> QED
    BY <2>1, <2>3, <2>4, SegmentNone
<1>10. ASSUME Call PROVE HereStep
  <2> DEFINE x == encodeABC("GETTABUP", Task1.dest, 0,
                            addConstantIndex(strConstant(Task1.e.name)))
             y == [t |-> "callExpr", func |-> Task1.dest, inc |-> 0,
                   args |-> Task1.e.args, n |-> Len(Task1.e.args), saved |-> currentStack]
  <2>1. x.op \in Lone /\ Plain(y)
    BY OpFacts DEF Lone, Plain
  <2>2. todo # <<>> /\ emit(<<x>>) /\ Then(<<y>>)
    BY <1>10, AtExprType DEF Call
  <2> HIDE DEF x, y
  <2> QED
    BY <2>1, <2>2, LoneOne
<1>11. ASSUME CallExpr PROVE HereStep
  <2>0. Task1 \in Task /\ Task1.t = "callExpr" /\ todo # <<>>
    BY <1>11, AtType DEF CallExpr
  <2>1. CASE Task1.args # <<>>
    <3> DEFINE x == ExprTask(Head(Task1.args), currentStack + Task1.inc)
               y == [Task1 EXCEPT !.inc = 1, !.args = Tail(@)]
    <3>1. Plain(x) /\ Plain(y)
      <4>1. y.t = Task1.t
        OBVIOUS
      <4> QED
        BY <2>0, <4>1 DEF Plain, ExprTask
    <3>2. Then(<<x, y>>) /\ UNCHANGED instructions
      BY <1>11, <2>1 DEF CallExpr
    <3> HIDE DEF x, y
    <3> QED
      BY <2>0, <3>1, <3>2, QuietTwo
  <2>2. CASE Task1.args = <<>>
    <3> DEFINE x == encodeABC("CALL", Task1.func, Task1.n + 1, 2)
    <3>1. x.op \in Lone
      BY OpFacts DEF Lone
    <3>2. emit(<<x>>) /\ Then(<<>>)
      BY <1>11, <2>2 DEF CallExpr
    <3> HIDE DEF x
    <3> QED
      BY <2>0, <3>1, <3>2, LoneNone
  <2> QED
    BY <2>1, <2>2
<1>12. ASSUME CompareOp PROVE HereStep
  <2> DEFINE w == encodeABC("LOADFALSE", Task1.dest, 0, 0)
             x == CompareInstruction(Task1.op, Task1.dest + 1, Task1.dest + 2)
             y == encodeIsJ(1)
             z == encodeABC("LOADTRUE", Task1.dest, 0, 0)
  <2>1. /\ todo # <<>> /\ Task1.op \in CompareOps
        /\ emit(<<w, x, y, z>>) /\ Then(<<>>)
    BY <1>12, AtType, TaskFields DEF CompareOp
  <2>2. w.op = "LOADFALSE" /\ y.op = "JMP" /\ y.b = 1 /\ z.op = "LOADTRUE"
    BY OpFacts
  <2>3. x.op \in {"EQ", "LT", "LE"}
    BY <2>1, OpFacts DEF CompareInstruction, CompareOps
  <2> HIDE DEF w, x, y, z
  <2>4. ASSUME <<w, x, y, z>> \in Seq(Instruction) PROVE WellFormed(<<w, x, y, z>>)
    <3>1. w \in Instruction /\ x \in Instruction /\ y \in Instruction /\ z \in Instruction
      BY <2>4
    <3> QED
      BY <2>2, <2>3, <3>1, TemplateFits
  <2>5. <<w, x, y, z>> \in Seq({w, x, y, z})
    OBVIOUS
  <2> QED
    BY <2>1, <2>4, <2>5, SegmentNone
<1>13. ASSUME FuncEnd PROVE HereStep
  <2> DEFINE x == encodeABx("CLOSURE", addLocalIndex(Task1.name), Len(functions))
             y == encodeABC("SETTABUP", 0, addConstantIndex(strConstant(Task1.name)),
                            addLocalIndex(Task1.name))
  <2>1. x.op \in Lone /\ y.op \in Lone
    BY OpFacts DEF Lone
  <2>2. todo # <<>> /\ emit(<<x, y>>) /\ Then(<<>>)
    BY <1>13, AtType DEF FuncEnd
  <2> HIDE DEF x, y
  <2>3. ASSUME <<x, y>> \in Seq(Instruction) PROVE WellFormed(<<x, y>>)
    <3>1. x \in Instruction /\ y \in Instruction
      BY <2>3
    <3> QED
      BY <2>1, <3>1, PlainPairFits
  <2>4. <<x, y>> \in Seq({x, y})
    OBVIOUS
  <2> QED
    BY <2>2, <2>3, <2>4, SegmentNone
<1> QED
  BY <1>1, <1>2, <1>3, <1>4, <1>5, <1>6, <1>7, <1>8, <1>9, <1>10, <1>11, <1>12, <1>13

LEMMA AppendFits ==
  ASSUME NEW c, NEW ss \in Seq(Stmt), NEW x, TaskFits(c, x)
  PROVE  \E S : /\ Append(generateStatements(ss), x) \in Seq(S)
                /\ \A n \in 1..Len(Append(generateStatements(ss), x)) :
                     TaskFits(c, Append(generateStatements(ss), x)[n])
<1> DEFINE g == generateStatements(ss)
           S == Task \cup {x}
<1>1. g \in Seq(Task) /\ \A n \in 1..Len(g) : Plain(g[n])
  BY StatementsFit
<1> HIDE DEF g
<1>2. g \in Seq(S) /\ x \in S /\ Len(g) \in Nat
  BY <1>1
<1> HIDE DEF S
<1>3. /\ Append(g, x) \in Seq(S)
      /\ Len(Append(g, x)) = Len(g) + 1
      /\ \A n \in 1..Len(g) : Append(g, x)[n] = g[n]
      /\ Append(g, x)[Len(g) + 1] = x
  BY <1>2, AppendFacts
<1>4. ASSUME NEW n \in 1..Len(Append(g, x)) PROVE TaskFits(c, Append(g, x)[n])
  <2>1. n \in 1..Len(g) \/ n = Len(g) + 1
    BY <1>2, <1>3
  <2> QED
    BY <1>1, <1>3, <2>1, PlainFits
<1> QED
  BY <1>3, <1>4 DEF g

(* A condition has been compiled: its test, and a jump to be patched.      *)
LEMMA TestStep ==
  ASSUME Types, Types', HereFits, NEW r \in Nat,
         emit(<<encodeABC("TEST", r, 0, 0), encodeIsJ(0)>>)
  PROVE  /\ WellFormed(instructions') /\ Grown(instructions, instructions')
         /\ Len(instructions) + 1 < Len(instructions')
         /\ instructions'[Len(instructions) + 1 + 1].op = "JMP"
<1> DEFINE x == encodeABC("TEST", r, 0, 0)
           y == encodeIsJ(0)
           seg == <<x, y>>
<1>1. x.op = "TEST" /\ y.op = "JMP" /\ y.b = 0
  BY OpFacts
<1>2. x \in Instruction /\ y \in Instruction
  BY EncodeType DEF Ops
<1> HIDE DEF x, y
<1>3. Len(seg) = 2 /\ seg[1] = x /\ seg[2] = y /\ seg \in Seq(Instruction)
  BY <1>2
<1>4. emit(seg)
  BY DEF x, y
<1> HIDE DEF seg
<1>5. WellFormed(seg)
  <2>1. PairsKept(seg)
    BY <1>1, <1>3, PartnerFacts DEF PairsKept
  <2>2. JumpTarget(seg, 2) = 3 /\ Entry(seg, 3)
    BY <1>1, <1>3, PartnerFacts DEF JumpTarget, Entry
  <2> QED
    BY <1>1, <1>3, <2>1, <2>2 DEF WellFormed, JumpsEnter
<1>6. instructions \in Seq(Instruction) /\ instructions' = instructions \o seg
  BY <1>4 DEF Types, CodeType, emit
<1>7. /\ Len(instructions') = Len(instructions) + 2 /\ Len(instructions) \in Nat
      /\ instructions'[Len(instructions) + 2] = y
  <2> DEFINE d == instructions \o seg
  <2>0. instructions \in Seq(Instruction) /\ seg \in Seq(Instruction)
    BY <1>3, <1>6
  <2>1. /\ Len(d) = Len(instructions) + Len(seg)
        /\ \A n \in 1..Len(seg) : d[Len(instructions) + n] = seg[n]
        /\ Len(instructions) \in Nat
    BY <2>0, ConcatFacts
  <2> HIDE DEF d
  <2>2. 2 \in 1..Len(seg)
    BY <1>3
  <2>3. d[Len(instructions) + 2] = seg[2]
    BY <2>1, <2>2
  <2> QED
    BY <1>3, <1>6, <2>1, <2>3 DEF d
<1>8. WellFormed(instructions') /\ Grown(instructions, instructions')
  BY <1>3, <1>5, <1>6, ConcatWellFormed DEF HereFits
<1>9. Len(instructions) + 1 + 1 = Len(instructions) + 2
  BY <1>7
<1> QED
  BY <1>1, <1>7, <1>8, <1>9

LEMMA PatchStep ==
  ASSUME Types, Types', HereFits, todo # <<>>, Then(<<>>),
         NEW j \in Nat, j < Len(instructions), instructions[j + 1].op = "JMP",
         instructions' = Patched(instructions, j, Len(instructions))
  PROVE  HereStep
<1>1. WellFormed(instructions') /\ Grown(instructions, instructions')
  BY PatchToEnd DEF HereFits, Types, CodeType
<1>2. <<>> \in Seq({}) /\ \A n \in 1..Len(<<>>) : TaskFits(instructions', <<>>[n])
  OBVIOUS
<1> QED
  BY <1>1, <1>2, StepFits

LEMMA BranchActionsFit ==
  ASSUME Types, Types', HereFits
  PROVE  /\ IfTest => HereStep
         /\ IfThenEnd => HereStep
         /\ IfElseEnd => HereStep
         /\ While => HereStep
         /\ WhileTest => HereStep
         /\ WhileEnd => HereStep
<1>0. /\ instructions \in Seq(Instruction) /\ instructions' \in Seq(Instruction)
      /\ Len(instructions) \in Nat /\ WellFormed(instructions)
      /\ Len(instructions) + 1 \in Nat
  BY DEF Types, CodeType, HereFits
<1>1. ASSUME IfTest PROVE HereStep
  <2> DEFINE x == [t |-> "ifThenEnd", saved |-> Task1.saved,
                   jmp |-> Len(instructions) + 1, else |-> Task1.else]
             ss == Task1.then
  <2>1. todo # <<>> /\ Task1.saved \in Nat /\ ss \in Seq(Stmt)
    BY <1>1, AtType, TaskFields DEF IfTest
  <2>2. /\ emit(<<encodeABC("TEST", Task1.saved, 0, 0), encodeIsJ(0)>>)
        /\ Then(Append(generateStatements(ss), x))
    BY <1>1 DEF IfTest
  <2>3. /\ WellFormed(instructions') /\ Grown(instructions, instructions')
        /\ TaskFits(instructions', x)
    BY <2>1, <2>2, TestStep DEF TaskFits
  <2> HIDE DEF x, ss
  <2> QED
    BY <2>1, <2>2, <2>3, AppendFits, StepFits
<1>2. ASSUME IfThenEnd PROVE HereStep
  <2>1. /\ todo # <<>> /\ Task1 \in Task /\ Task1.t = "ifThenEnd"
        /\ Task1.jmp \in Nat /\ Task1.else \in Seq(Stmt)
    BY <1>2, AtType, TaskFields DEF IfThenEnd
  <2>2. Task1.jmp < Len(instructions) /\ instructions[Task1.jmp + 1].op = "JMP"
    BY <2>1, HeadFits DEF TaskFits
  <2>3. CASE Task1.else # <<>>
    <3> DEFINE c == Append(instructions, encodeIsJ(0))
               x == [t |-> "ifElseEnd", saved |-> Task1.saved, jmp |-> Len(instructions)]
               ss == Task1.else
    <3>1. /\ instructions' = Patched(c, Task1.jmp, Len(instructions) + 1)
          /\ Then(Append(generateStatements(ss), x))
      BY <1>2, <2>3 DEF IfThenEnd
    <3>2. /\ c \in Seq(Instruction) /\ WellFormed(c) /\ Grown(instructions, c)
          /\ c[Len(instructions) + 1].op = "JMP"
      BY <1>0, JumpWellFormed
    <3>3. Len(c) = Len(instructions) + 1
      BY <1>0, AppendFacts, EncodeType DEF Ops
    <3>4. x.t = "ifElseEnd" /\ x.jmp = Len(instructions)
      OBVIOUS
    <3> HIDE DEF c, x
    <3>5. Task1.jmp < Len(c) /\ c[Task1.jmp + 1].op = "JMP"
      <4>1. Task1.jmp + 1 \in 1..Len(instructions) /\ Task1.jmp < Len(c)
        BY <1>0, <2>1, <2>2, <3>3
      <4> QED
        BY <2>2, <3>2, <4>1 DEF Grown
    <3>6. WellFormed(instructions') /\ Grown(c, instructions')
      BY <2>1, <3>1, <3>2, <3>3, <3>5, PatchToEnd
    <3>7. Grown(instructions, instructions')
      BY <1>0, <3>2, <3>6, GrownTwice
    <3>8. TaskFits(instructions', x)
      <4>1. Len(instructions) < Len(instructions')
            /\ instructions'[Len(instructions) + 1].op = "JMP"
        <5>1. Len(instructions) + 1 \in 1..Len(c)
          BY <1>0, <3>3
        <5> QED
          BY <1>0, <3>2, <3>3, <3>6, <5>1 DEF Grown
      <4> QED
        BY <3>4, <4>1 DEF TaskFits
    <3> HIDE DEF ss
    <3>9. ss \in Seq(Stmt)
      BY <2>1 DEF ss
    <3> QED
      BY <2>1, <3>1, <3>6, <3>7, <3>8, <3>9, AppendFits, StepFits
  <2>4. CASE Task1.else = <<>>
    <3>1. instructions' = Patched(instructions, Task1.jmp, Len(instructions)) /\ Then(<<>>)
      BY <1>2, <2>4 DEF IfThenEnd
    <3> QED
      BY <2>1, <2>2, <3>1, PatchStep
  <2> QED
    BY <2>3, <2>4
<1>3. ASSUME IfElseEnd PROVE HereStep
  <2>1. /\ todo # <<>> /\ Task1 \in Task /\ Task1.t = "ifElseEnd" /\ Task1.jmp \in Nat
    BY <1>3, AtType, TaskFields DEF IfElseEnd
  <2>2. Task1.jmp < Len(instructions) /\ instructions[Task1.jmp + 1].op = "JMP"
    BY <2>1, HeadFits DEF TaskFits
  <2> QED
    BY <1>3, <2>1, <2>2, PatchStep DEF IfElseEnd
<1>4. ASSUME While PROVE HereStep
  <2> DEFINE x == ExprTask(Task1.s.cond, currentStack)
             y == [t |-> "whileTest", saved |-> currentStack,
                   start |-> Len(instructions), body |-> Task1.s.body]
  <2>1. todo # <<>> /\ Then(<<x, y>>) /\ UNCHANGED instructions
    BY <1>4, AtStmtType DEF While, OnlyTodo
  <2>2. TaskFits(instructions', x)
    BY PlainFits DEF Plain, ExprTask
  <2>3. TaskFits(instructions', y)
    BY <1>0, <2>1, EndIsEntry DEF TaskFits, WellFormed
  <2> HIDE DEF x, y
  <2>4. <<x, y>> \in Seq({x, y})
        /\ \A n \in 1..Len(<<x, y>>) : TaskFits(instructions', <<x, y>>[n])
    BY <2>2, <2>3
  <2>5. WellFormed(instructions') /\ Grown(instructions, instructions')
    BY <1>0, <2>1 DEF Grown
  <2> QED
    BY <2>1, <2>4, <2>5, StepFits
<1>5. ASSUME WhileTest PROVE HereStep
  <2> DEFINE x == [t |-> "whileEnd", saved |-> Task1.saved,
                   start |-> Task1.start, jmp |-> Len(instructions) + 1]
             ss == Task1.body
  <2>1. /\ todo # <<>> /\ Task1.saved \in Nat /\ ss \in Seq(Stmt)
        /\ Task1 \in Task /\ Task1.t = "whileTest"
    BY <1>5, AtType, TaskFields DEF WhileTest
  <2>2. /\ emit(<<encodeABC("TEST", Task1.saved, 0, 0), encodeIsJ(0)>>)
        /\ Then(Append(generateStatements(ss), x))
    BY <1>5 DEF WhileTest
  <2>3. /\ WellFormed(instructions') /\ Grown(instructions, instructions')
        /\ Len(instructions) + 1 < Len(instructions')
        /\ instructions'[Len(instructions) + 1 + 1].op = "JMP"
    BY <2>1, <2>2, TestStep
  <2>4. Entry(instructions', Task1.start + 1)
    <3>1. TaskFits(instructions', Task1)
      BY <1>0, <2>1, <2>3, HeadFits, FitsGrow
    <3> QED
      BY <2>1, <3>1 DEF TaskFits
  <2>5. TaskFits(instructions', x)
    BY <2>3, <2>4 DEF TaskFits
  <2> HIDE DEF x, ss
  <2> QED
    BY <2>1, <2>2, <2>3, <2>5, AppendFits, StepFits
<1>6. ASSUME WhileEnd PROVE HereStep
  <2> DEFINE c == Append(instructions, encodeIsJ(Task1.start - Len(instructions) - 1))
  <2>1. /\ todo # <<>> /\ Task1 \in Task /\ Task1.t = "whileEnd"
        /\ Task1.jmp \in Nat /\ Task1.start \in Nat
    BY <1>6, AtType, TaskFields DEF WhileEnd
  <2>2. /\ Task1.jmp < Len(instructions) /\ instructions[Task1.jmp + 1].op = "JMP"
        /\ Entry(instructions, Task1.start + 1)
    BY <2>1, HeadFits DEF TaskFits
  <2>3. instructions' = Patched(c, Task1.jmp, Len(instructions) + 1) /\ Then(<<>>)
    BY <1>6 DEF WhileEnd
  <2>4. /\ c \in Seq(Instruction) /\ WellFormed(c) /\ Grown(instructions, c)
    BY <1>0, <2>1, <2>2, BackWellFormed
  <2>5. Len(c) = Len(instructions) + 1
    <3>1. Task1.start - Len(instructions) - 1 \in Int
      BY <1>0, <2>1
    <3> QED
      BY <1>0, <3>1, AppendFacts, EncodeType DEF Ops
  <2> HIDE DEF c
  <2>6. Task1.jmp < Len(c) /\ c[Task1.jmp + 1].op = "JMP"
    BY <1>0, <2>1, <2>2, <2>4, <2>5 DEF Grown
  <2>7. WellFormed(instructions') /\ Grown(c, instructions')
    BY <2>1, <2>3, <2>4, <2>5, <2>6, PatchToEnd
  <2>8. Grown(instructions, instructions')
    BY <1>0, <2>4, <2>7, GrownTwice
  <2>9. <<>> \in Seq({}) /\ \A n \in 1..Len(<<>>) : TaskFits(instructions', <<>>[n])
    OBVIOUS
  <2> QED
    BY <2>1, <2>3, <2>7, <2>8, <2>9, StepFits
<1> QED
  BY <1>1, <1>2, <1>3, <1>4, <1>5, <1>6

----------------------------------------------------------------------------
(* All generators, and the finished functions.                             *)

OuterFits == \A n \in 1..Len(outer) : CodeFits(outer[n])
ProtosFit == \A p \in 1..Len(protos) : WellFormed(protos[p].code) /\ Closed(protos[p].code)
Fits == HereFits /\ OuterFits /\ ProtosFit

LEMMA FitsParts == CodeInv <=> Fits
  BY DEF CodeInv, CodeFits, Here, Fits, HereFits, OuterFits, ProtosFit

LEMMA WorkingFits ==
  ASSUME Types, Types', Fits, Working
  PROVE  Fits'
<1>1. HereFits'
  BY QuietActionsFit, EmitActionsFit, BranchActionsFit DEF Fits, Working, HereStep
<1>2. UNCHANGED <<outer, protos>>
  <2>1. ASSUME VarDecl \/ FuncEnd PROVE UNCHANGED <<outer, protos>>
    BY <2>1 DEF VarDecl, FuncEnd
  <2>2. ASSUME SameRest PROVE UNCHANGED <<outer, protos>>
    BY <2>2 DEF SameRest
  <2>3. ASSUME \/ AssignLocal \/ AssignGlobal \/ If \/ While \/ Return \/ Block
               \/ ExprStmtOther \/ Binary
        PROVE  SameRest
    BY <2>3 DEF AssignLocal, AssignGlobal, If, While, Return, Block, ExprStmtOther, Binary,
                OnlyTodo
  <2>4. ASSUME \/ SetGlobal \/ IfTest \/ IfThenEnd \/ IfElseEnd \/ WhileTest \/ WhileEnd
               \/ EmitReturn \/ ExprStmtCall \/ CallStmt
        PROVE  SameRest
    BY <2>4 DEF SetGlobal, IfTest, IfThenEnd, IfElseEnd, WhileTest, WhileEnd, EmitReturn,
                ExprStmtCall, CallStmt
  <2>5. ASSUME \/ IntLiteral \/ FloatLiteral \/ BoolLiteral \/ Variable \/ BinaryRight
               \/ BinaryOp \/ Call \/ CallExpr \/ Compare \/ CompareOp
        PROVE  SameRest
    BY <2>5 DEF IntLiteral, FloatLiteral, BoolLiteral, Variable, BinaryRight, BinaryOp, Call,
                CallExpr, Compare, CompareOp
  <2> QED
    BY <2>1, <2>2, <2>3, <2>4, <2>5 DEF Working
<1> QED
  BY <1>1, <1>2 DEF Fits, OuterFits, ProtosFit

(* The functions that have finished, with one more.                        *)
LEMMA FinishFits ==
  ASSUME Types, Fits, protos' = Append(protos, Finished)
  PROVE  ProtosFit'
<1>1. WellFormed(Finished.code) /\ Closed(Finished.code)
  BY FinishedClosed DEF Fits, HereFits, Finished, Types, CodeType
<1>2. protos \in Seq(Proto) /\ Finished \in Proto
  BY FinishedType DEF Types, ProtosType
<1>3. /\ Len(protos') = Len(protos) + 1 /\ Len(protos) \in Nat
      /\ \A p \in 1..Len(protos) : protos'[p] = protos[p]
      /\ protos'[Len(protos) + 1] = Finished
  BY <1>2, AppendFacts
<1>4. ASSUME NEW p \in 1..Len(protos')
      PROVE  WellFormed(protos'[p].code) /\ Closed(protos'[p].code)
  <2>1. p \in 1..Len(protos) \/ p = Len(protos) + 1
    BY <1>3
  <2> QED
    BY <1>1, <1>3, <2>1 DEF Fits, ProtosFit
<1> QED
  BY <1>4 DEF ProtosFit

LEMMA OuterFitsPush ==
  ASSUME OuterType, OuterFits, NEW g, CodeFits(g), outer' = Append(outer, g)
  PROVE  OuterFits'
<1> DEFINE S == {outer[n] : n \in 1..Len(outer)} \cup {g}
<1>1. outer \in Seq(S) /\ g \in S
  <2>1. outer \in Seq({outer[n] : n \in 1..Len(outer)})
    BY DEF OuterType, IsSequence
  <2> QED
    BY <2>1
<1> HIDE DEF S
<1>2. /\ Len(outer') = Len(outer) + 1 /\ Len(outer) \in Nat
      /\ \A n \in 1..Len(outer) : outer'[n] = outer[n]
      /\ outer'[Len(outer) + 1] = g
  BY <1>1, AppendFacts
<1>3. ASSUME NEW n \in 1..Len(outer') PROVE CodeFits(outer'[n])
  <2>1. n \in 1..Len(outer) \/ n = Len(outer) + 1
    BY <1>2
  <2> QED
    BY <1>2, <2>1 DEF OuterFits
<1> QED
  BY <1>3 DEF OuterFits

LEMMA FuncDeclFits ==
  ASSUME Types, Types', Fits, FuncDecl
  PROVE  Fits'
<1> DEFINE y == [t |-> "funcEnd", name |-> Task1.s.name, params |-> Len(Task1.s.params)]
           rest == <<y>> \o Tail(todo)
           up == [instructions |-> instructions, constants |-> constants,
                  constantIndex |-> constantIndex, locals |-> locals,
                  localIndex |-> localIndex, currentStack |-> currentStack,
                  maxStack |-> maxStack, functions |-> functions, todo |-> rest]
<1>1. /\ todo # <<>> /\ todo \in Seq(Task) /\ Task1.s.body \in Seq(Stmt)
      /\ instructions \in Seq(Instruction)
  BY AtStmtType, StmtFields DEF FuncDecl, Types, TodoType, CodeType
<1>2. CodeFits(up)
  <2>1. TaskFits(instructions, y)
    BY PlainFits DEF Plain
  <2> HIDE DEF y
  <2> DEFINE T == Task \cup {y}
  <2>2. <<y>> \in Seq(T) /\ Tail(todo) \in Seq(T) /\ Len(<<y>>) = 1 /\ <<y>>[1] = y
    BY <1>1, TailFacts
  <2> HIDE DEF T
  <2>3. /\ Len(rest) = 1 + Len(Tail(todo)) /\ Len(Tail(todo)) \in Nat
        /\ rest[1] = y
        /\ \A n \in 1..Len(Tail(todo)) : rest[1 + n] = Tail(todo)[n]
    BY <2>2, ConcatFacts
  <2> HIDE DEF rest
  <2>4. ASSUME NEW n \in 1..Len(rest) PROVE TaskFits(instructions, rest[n])
    <3>1. CASE n = 1
      BY <2>1, <2>3, <3>1
    <3>2. CASE n # 1
      <4>1. /\ n - 1 \in 1..Len(Tail(todo)) /\ n = 1 + (n - 1) /\ n = (n - 1) + 1
            /\ n \in 1..Len(todo)
        BY <1>1, <2>3, <3>2, TailFacts
      <4>2. rest[n] = Tail(todo)[n - 1] /\ Tail(todo)[n - 1] = todo[n]
        <5>1. \A m \in 1..Len(Tail(todo)) : Tail(todo)[m] = todo[m + 1]
          BY <1>1, TailFacts
        <5> QED
          BY <2>3, <4>1, <5>1
      <4> QED
        BY <4>1, <4>2 DEF Fits, HereFits
    <3> QED
      BY <3>1, <3>2
  <2> QED
    BY <2>4 DEF CodeFits, Fits, HereFits
<1>3. OuterFits'
  <2> HIDE DEF up
  <2>1. outer' = Append(outer, up)
    BY DEF FuncDecl, up, rest, y
  <2> QED
    BY <1>2, <2>1, OuterFitsPush DEF Types, Fits
<1>4. HereFits'
  <2>1. instructions' = <<>> /\ todo' = generateStatements(Task1.s.body)
    BY DEF FuncDecl
  <2>2. WellFormed(instructions')
    BY <2>1 DEF WellFormed, PairsKept, JumpsEnter
  <2>3. \A n \in 1..Len(todo') : TaskFits(instructions', todo'[n])
    BY <1>1, <2>1, StatementsFit, PlainFits
  <2> QED
    BY <2>2, <2>3 DEF HereFits
<1>5. ProtosFit'
  BY DEF FuncDecl, Fits, ProtosFit
<1> QED
  BY <1>3, <1>4, <1>5 DEF Fits

LEMMA EndFunctionFits ==
  ASSUME Types, Types', Fits, EndFunction
  PROVE  Fits'
<1> DEFINE up == outer[Len(outer)]
<1>1. outer # <<>> /\ outer \in Seq({outer[n] : n \in 1..Len(outer)})
  BY DEF EndFunction, isMain, Types, OuterType, IsSequence
<1>2. Len(outer) \in 1..Len(outer)
  BY <1>1, FrontFacts
<1>3. CodeFits(up)
  BY <1>2 DEF Fits, OuterFits
<1>4. HereFits'
  <2>1. instructions' = up.instructions /\ todo' = up.todo
    BY DEF EndFunction
  <2> HIDE DEF up
  <2> QED
    BY <1>3, <2>1 DEF HereFits, CodeFits
<1>5. OuterFits'
  <2>1. outer' = SubSeq(outer, 1, Len(outer) - 1)
    BY DEF EndFunction
  <2>2. /\ Len(outer') = Len(outer) - 1 /\ Len(outer) \in Nat
        /\ \A n \in 1..Len(outer) - 1 : outer'[n] = outer[n]
    BY <1>1, <2>1, FrontFacts
  <2> QED
    BY <2>2 DEF Fits, OuterFits
<1>6. ProtosFit'
  BY FinishFits DEF EndFunction
<1> QED
  BY <1>4, <1>5, <1>6 DEF Fits

LEMMA EndMainFits ==
  ASSUME Types, Fits, EndMain
  PROVE  Fits'
<1>1. ProtosFit'
  BY FinishFits DEF EndMain
<1>2. UNCHANGED <<instructions, todo, outer>>
  BY DEF EndMain, genVars
<1> QED
  BY <1>1, <1>2 DEF Fits, HereFits, OuterFits

LEMMA InitFits == Init => Fits
<1> SUFFICES ASSUME Init PROVE Fits
  OBVIOUS
<1> DEFINE x == encodeABx("VARARGPREP", 0, 0)
<1>1. x \in Instruction /\ x.op = "VARARGPREP"
  BY EncodeType, OpFacts DEF Ops
<1>2. WellFormed(<<x>>)
  <2> HIDE DEF x
  <2> QED
    BY <1>1, PlainWellFormed
<1>3. program \in Seq(Stmt)
  BY ProgramsAssumption DEF Init
<1>4. \A n \in 1..Len(todo) : TaskFits(instructions, todo[n])
  BY <1>3, StatementsFit, PlainFits DEF Init
<1> QED
  BY <1>2, <1>4 DEF Init, Fits, HereFits, OuterFits, ProtosFit

LEMMA NextFits == Types /\ Types' /\ Fits /\ [Next]_vars => Fits'
<1> SUFFICES ASSUME Types, Types', Fits, [Next]_vars PROVE Fits'
  OBVIOUS
<1>1. CASE Working
  BY <1>1, WorkingFits
<1>2. CASE FuncDecl
  BY <1>2, FuncDeclFits
<1>3. CASE EndFunction
  BY <1>3, EndFunctionFits
<1>4. CASE EndMain
  BY <1>4, EndMainFits
<1>5. CASE UNCHANGED vars
  BY <1>5 DEF vars, genVars, Fits, HereFits, OuterFits, ProtosFit
<1> QED
  BY <1>1, <1>2, <1>3, <1>4, <1>5 DEF Next, Working

(* Code is well formed while it grows, in the working generator and in the *)
(* suspended ones, every jump yet to be patched is where its task says,    *)
(* and finished functions are closed (generateIfStmt, generateWhileStmt,   *)
(* generateCompareExpr and their emits).                                   *)
THEOREM CodeCorrect == Spec => []CodeInv
<1>1. Spec => []Types
  BY InitTypes, NextTypes, PTL DEF Spec
<1>2. Spec => []Fits
  BY <1>1, InitFits, NextFits, PTL DEF Spec
<1>3. Fits => CodeInv
  BY FitsParts
<1> QED
  BY <1>2, <1>3, PTL

(* In a finished function control stays: whatever the values tested, the   *)
(* machine goes from an instruction to an instruction of the same code     *)
(* (the backpatching of generateIfStmt and generateWhileStmt, the skips of *)
(* comparisons and arithmetic, the RETURN0 that ends generate and          *)
(* generateFunction).                                                      *)
THEOREM ControlStaysAlways == Spec => []ControlStays
<1>1. CodeInv => ControlStays
  BY DEF CodeInv, ControlStays
<1> QED
  BY <1>1, CodeCorrect, PTL

----------------------------------------------------------------------------
(* Tables.                                                                 *)

Indexed(g) == ConstantsIndexed(g) /\ LocalsIndexed(g)

ConstantsHere ==
  /\ \A n \in 1..Len(constants) :
       /\ ConstantKey(constants[n]) \in DOMAIN constantIndex
       /\ constantIndex[ConstantKey(constants[n])] = n - 1
  /\ \A x \in DOMAIN constantIndex :
       /\ constantIndex[x] < Len(constants)
       /\ ConstantKey(constants[constantIndex[x] + 1]) = x
LocalsHere ==
  /\ {locals[n] : n \in 1..Len(locals)} = DOMAIN localIndex
  /\ \A x \in DOMAIN localIndex :
       localIndex[x] < Len(locals) /\ locals[localIndex[x] + 1] = x
OuterIndexed == \A n \in 1..Len(outer) : Indexed(outer[n])
Tables == ConstantsHere /\ LocalsHere /\ OuterIndexed

LEMMA TablesParts == TablesAgree <=> Tables
<1>1. ConstantsIndexed(Here) <=> ConstantsHere
  BY Zenon DEF ConstantsIndexed, ConstantsHere, Here
<1>2. LocalsIndexed(Here) <=> LocalsHere
  BY Zenon DEF LocalsIndexed, LocalsHere, Here
<1> QED
  BY <1>1, <1>2, Zenon DEF TablesAgree, Tables, OuterIndexed, Indexed

----------------------------------------------------------------------------
(* The two ways a generator's tables change.                               *)

LEMMA AddConstantKeeps ==
  ASSUME ConstantsType, ConstantsHere, NEW k, addConstant(k)
  PROVE  ConstantsHere'
<1>1. CASE Known(k)
  BY <1>1 DEF addConstant, ConstantsHere
<1>2. CASE ~Known(k)
  <2> DEFINE key == ConstantKey(k)
             S == Constant \cup {k}
  <2>1. /\ constants' = Append(constants, k)
        /\ constantIndex' = [x \in DOMAIN constantIndex \cup {key} |->
                               IF x = key THEN Len(constants) ELSE constantIndex[x]]
        /\ key \notin DOMAIN constantIndex
    BY <1>2 DEF addConstant, Known
  <2>2. constants \in Seq(S) /\ k \in S /\ Len(constants) \in Nat
    BY DEF ConstantsType
  <2> HIDE DEF S
  <2>3. /\ Len(constants') = Len(constants) + 1
        /\ \A n \in 1..Len(constants) : constants'[n] = constants[n]
        /\ constants'[Len(constants) + 1] = k
    BY <2>1, <2>2, AppendFacts
  <2>4. /\ DOMAIN constantIndex' = DOMAIN constantIndex \cup {key}
        /\ constantIndex'[key] = Len(constants)
        /\ \A x \in DOMAIN constantIndex : constantIndex'[x] = constantIndex[x]
    BY <2>1
  <2>5. ASSUME NEW n \in 1..Len(constants')
        PROVE  /\ ConstantKey(constants'[n]) \in DOMAIN constantIndex'
               /\ constantIndex'[ConstantKey(constants'[n])] = n - 1
    <3>1. CASE n = Len(constants) + 1
      BY <2>2, <2>3, <2>4, <3>1
    <3>2. CASE n \in 1..Len(constants)
      BY <2>3, <2>4, <3>2 DEF ConstantsHere
    <3> QED
      BY <2>2, <2>3, <3>1, <3>2
  <2>6. ASSUME NEW x \in DOMAIN constantIndex'
        PROVE  /\ constantIndex'[x] < Len(constants')
               /\ ConstantKey(constants'[constantIndex'[x] + 1]) = x
    <3>1. CASE x = key
      BY <2>2, <2>3, <2>4, <3>1
    <3>2. CASE x \in DOMAIN constantIndex
      <4>1. /\ constantIndex[x] \in Nat /\ constantIndex[x] < Len(constants)
            /\ ConstantKey(constants[constantIndex[x] + 1]) = x
        BY <3>2 DEF ConstantsHere, ConstantsType
      <4>2. constantIndex[x] + 1 \in 1..Len(constants)
        BY <2>2, <4>1
      <4> QED
        BY <2>2, <2>3, <2>4, <3>2, <4>1, <4>2
    <3> QED
      BY <2>4, <3>1, <3>2
  <2> QED
    BY <2>5, <2>6 DEF ConstantsHere
<1> QED
  BY <1>1, <1>2

LEMMA AddLocalKeeps ==
  ASSUME LocalsType, LocalsHere, NEW name, addLocal(name)
  PROVE  LocalsHere'
<1>1. CASE isLocal(name)
  BY <1>1 DEF addLocal, LocalsHere
<1>2. CASE ~isLocal(name)
  <2> DEFINE S == Names \cup {name}
  <2>1. /\ locals' = Append(locals, name)
        /\ localIndex' = [x \in DOMAIN localIndex \cup {name} |->
                            IF x = name THEN Len(locals) ELSE localIndex[x]]
        /\ name \notin DOMAIN localIndex
    BY <1>2 DEF addLocal, isLocal
  <2>2. locals \in Seq(S) /\ name \in S /\ Len(locals) \in Nat
    BY DEF LocalsType
  <2> HIDE DEF S
  <2>3. /\ Len(locals') = Len(locals) + 1
        /\ \A n \in 1..Len(locals) : locals'[n] = locals[n]
        /\ locals'[Len(locals) + 1] = name
    BY <2>1, <2>2, AppendFacts
  <2>4. /\ DOMAIN localIndex' = DOMAIN localIndex \cup {name}
        /\ localIndex'[name] = Len(locals)
        /\ \A x \in DOMAIN localIndex : localIndex'[x] = localIndex[x]
    BY <2>1
  <2>5. \A n \in 1..Len(locals') : locals'[n] \in DOMAIN localIndex'
    <3> TAKE n \in 1..Len(locals')
    <3>1. CASE n = Len(locals) + 1
      BY <2>3, <2>4, <3>1
    <3>2. CASE n \in 1..Len(locals)
      BY <2>3, <2>4, <3>2 DEF LocalsHere
    <3> QED
      BY <2>2, <2>3, <3>1, <3>2
  <2>6. ASSUME NEW x \in DOMAIN localIndex'
        PROVE  localIndex'[x] + 1 \in 1..Len(locals') /\ locals'[localIndex'[x] + 1] = x
               /\ localIndex'[x] < Len(locals')
    <3>1. CASE x = name
      BY <2>2, <2>3, <2>4, <3>1
    <3>2. CASE x \in DOMAIN localIndex
      <4>1. /\ localIndex[x] \in Nat /\ localIndex[x] < Len(locals)
            /\ locals[localIndex[x] + 1] = x
        BY <3>2 DEF LocalsHere, LocalsType
      <4>2. localIndex[x] + 1 \in 1..Len(locals)
        BY <2>2, <4>1
      <4> QED
        BY <2>2, <2>3, <2>4, <3>2, <4>1, <4>2
    <3> QED
      BY <2>4, <3>1, <3>2
  <2>7. {locals'[n] : n \in 1..Len(locals')} = DOMAIN localIndex'
    BY <2>5, <2>6
  <2> QED
    BY <2>6, <2>7 DEF LocalsHere
<1> QED
  BY <1>1, <1>2

----------------------------------------------------------------------------
(* The actions.                                                            *)

SameLocals == UNCHANGED <<locals, localIndex>>
ConstantsGrow == SameConstants \/ \E k : addConstant(k)
LocalsGrow == SameLocals \/ \E name : addLocal(name)

LEMMA WorkingGrows ==
  ASSUME Working
  PROVE  ConstantsGrow /\ LocalsGrow /\ UNCHANGED outer
<1>1. ASSUME VarDecl PROVE SameConstants /\ LocalsGrow /\ UNCHANGED outer
  BY <1>1 DEF VarDecl, LocalsGrow
<1>2. ASSUME FuncEnd PROVE ConstantsGrow /\ LocalsGrow /\ UNCHANGED outer
  BY <1>2 DEF FuncEnd, ConstantsGrow, LocalsGrow
<1>3. ASSUME SameRest PROVE LocalsGrow /\ UNCHANGED outer
  BY <1>3 DEF SameRest, LocalsGrow, SameLocals
<1>4. ASSUME \/ AssignLocal \/ AssignGlobal \/ If \/ While \/ Return \/ Block
             \/ ExprStmtOther \/ Binary
      PROVE  SameConstants /\ SameRest
  BY <1>4 DEF AssignLocal, AssignGlobal, If, While, Return, Block, ExprStmtOther, Binary,
              OnlyTodo
<1>5. ASSUME \/ IfTest \/ IfThenEnd \/ IfElseEnd \/ WhileTest \/ WhileEnd
             \/ EmitReturn \/ CallStmt
      PROVE  SameConstants /\ SameRest
  BY <1>5 DEF IfTest, IfThenEnd, IfElseEnd, WhileTest, WhileEnd, EmitReturn, CallStmt
<1>6. ASSUME BoolLiteral \/ BinaryRight \/ BinaryOp \/ CallExpr \/ Compare \/ CompareOp
      PROVE  SameConstants /\ SameRest
  BY <1>6 DEF BoolLiteral, BinaryRight, BinaryOp, CallExpr, Compare, CompareOp
<1>7. ASSUME SetGlobal \/ ExprStmtCall \/ Call
      PROVE  ConstantsGrow /\ SameRest
  BY <1>7 DEF SetGlobal, ExprStmtCall, Call, ConstantsGrow
<1>8. ASSUME IntLiteral \/ FloatLiteral \/ Variable
      PROVE  ConstantsGrow /\ SameRest
  BY <1>8 DEF IntLiteral, FloatLiteral, Variable, ConstantsGrow
<1> QED
  BY <1>1, <1>2, <1>3, <1>4, <1>5, <1>6, <1>7, <1>8 DEF Working, ConstantsGrow

LEMMA WorkingKeeps ==
  ASSUME Types, Tables, Working
  PROVE  Tables'
<1>1. ConstantsGrow /\ LocalsGrow /\ UNCHANGED outer
  BY WorkingGrows
<1>2. ConstantsHere'
  <2>1. CASE SameConstants
    BY <2>1 DEF SameConstants, Tables, ConstantsHere
  <2>2. CASE \E k : addConstant(k)
    BY <2>2, AddConstantKeeps DEF Tables, Types
  <2> QED
    BY <1>1, <2>1, <2>2 DEF ConstantsGrow
<1>3. LocalsHere'
  <2>1. CASE SameLocals
    BY <2>1 DEF SameLocals, Tables, LocalsHere
  <2>2. CASE \E name : addLocal(name)
    BY <2>2, AddLocalKeeps DEF Tables, Types
  <2> QED
    BY <1>1, <2>1, <2>2 DEF LocalsGrow
<1> QED
  BY <1>1, <1>2, <1>3 DEF Tables, OuterIndexed

LEMMA FuncDeclKeeps ==
  ASSUME Types, Tables, FuncDecl
  PROVE  Tables'
<1> DEFINE rest == <<[t |-> "funcEnd", name |-> Task1.s.name,
                      params |-> Len(Task1.s.params)]>> \o Tail(todo)
           up == [instructions |-> instructions, constants |-> constants,
                  constantIndex |-> constantIndex, locals |-> locals,
                  localIndex |-> localIndex, currentStack |-> currentStack,
                  maxStack |-> maxStack, functions |-> functions, todo |-> rest]
           S == {outer[n] : n \in 1..Len(outer)} \cup {up}
<1>1. Indexed(up)
  BY DEF Indexed, ConstantsIndexed, LocalsIndexed, Tables, ConstantsHere, LocalsHere
<1>2. outer' = Append(outer, up)
  BY DEF FuncDecl
<1> HIDE DEF up
<1>3. outer \in Seq(S) /\ up \in S
  <2>1. outer \in Seq({outer[n] : n \in 1..Len(outer)})
    BY DEF Types, OuterType, IsSequence
  <2> QED
    BY <2>1
<1> HIDE DEF S
<1>4. /\ Len(outer') = Len(outer) + 1 /\ Len(outer) \in Nat
      /\ \A n \in 1..Len(outer) : outer'[n] = outer[n]
      /\ outer'[Len(outer) + 1] = up
  BY <1>2, <1>3, AppendFacts
<1>5. ASSUME NEW n \in 1..Len(outer') PROVE Indexed(outer'[n])
  <2>1. n \in 1..Len(outer) \/ n = Len(outer) + 1
    BY <1>4
  <2> QED
    BY <1>1, <1>4, <2>1 DEF Tables, OuterIndexed
<1>6. ConstantsHere'
  BY DEF FuncDecl, ConstantsHere
<1>7. LocalsHere'
  <2>1. Task1.s.params \in Seq(Names)
    BY AtStmtType, StmtFields DEF FuncDecl
  <2> DEFINE ps == Task1.s.params
  <2>2. locals' = ps /\ localIndex' = paramIndex(ps)
    BY DEF FuncDecl
  <2> HIDE DEF ps
  <2>3. ps \in Seq(Names)
    BY <2>1 DEF ps
  <2>4. /\ DOMAIN paramIndex(ps) = {ps[n] : n \in 1..Len(ps)}
        /\ \A x \in DOMAIN paramIndex(ps) :
             paramIndex(ps)[x] < Len(ps) /\ ps[paramIndex(ps)[x] + 1] = x
    BY <2>3, ParamIndexType, Zenon
  <2> QED
    BY <2>2, <2>4, Zenon DEF LocalsHere
<1> QED
  BY <1>5, <1>6, <1>7 DEF Tables, OuterIndexed

LEMMA EndFunctionKeeps ==
  ASSUME Types, Tables, EndFunction
  PROVE  Tables'
<1> DEFINE up == outer[Len(outer)]
<1>1. outer # <<>> /\ outer \in Seq({outer[n] : n \in 1..Len(outer)})
  BY DEF EndFunction, isMain, Types, OuterType, IsSequence
<1>2. Len(outer) \in 1..Len(outer)
  BY <1>1, FrontFacts
<1>3. Indexed(up)
  BY <1>2 DEF Tables, OuterIndexed
<1>4. ConstantsHere' /\ LocalsHere'
  <2>1. /\ constants' = up.constants /\ constantIndex' = up.constantIndex
        /\ locals' = up.locals /\ localIndex' = up.localIndex
    BY DEF EndFunction
  <2> HIDE DEF up
  <2> QED
    BY <1>3, <2>1 DEF Indexed, ConstantsIndexed, LocalsIndexed, ConstantsHere, LocalsHere
<1>5. OuterIndexed'
  <2>1. outer' = SubSeq(outer, 1, Len(outer) - 1)
    BY DEF EndFunction
  <2>2. /\ Len(outer') = Len(outer) - 1 /\ Len(outer) \in Nat
        /\ \A n \in 1..Len(outer) - 1 : outer'[n] = outer[n]
    BY <1>1, <2>1, FrontFacts
  <2> QED
    BY <2>2 DEF Tables, OuterIndexed
<1> QED
  BY <1>4, <1>5 DEF Tables

LEMMA NextTables == Types /\ Tables /\ [Next]_vars => Tables'
<1> SUFFICES ASSUME Types, Tables, [Next]_vars PROVE Tables'
  OBVIOUS
<1>1. CASE Working
  BY <1>1, WorkingKeeps
<1>2. CASE FuncDecl
  BY <1>2, FuncDeclKeeps
<1>3. CASE EndFunction
  BY <1>3, EndFunctionKeeps
<1>4. CASE EndMain \/ UNCHANGED vars
  <2>1. UNCHANGED <<constants, constantIndex, locals, localIndex, outer>>
    BY <1>4 DEF EndMain, vars, genVars
  <2> QED
    BY <2>1 DEF Tables, ConstantsHere, LocalsHere, OuterIndexed
<1> QED
  BY <1>1, <1>2, <1>3, <1>4 DEF Next, Working

LEMMA InitTables == Init => Tables
  BY DEF Init, Tables, ConstantsHere, LocalsHere, OuterIndexed

(* In every generator, working or suspended, the index of a constant or a  *)
(* local is the position of one with that key or name (addConstantFloat,   *)
(* addConstantInt, addConstantString, addLocal, generateFunction).         *)
THEOREM TablesCorrect == Spec => []TablesAgree
<1>1. Spec => []Types
  BY InitTypes, NextTypes, PTL DEF Spec
<1>2. Spec => []Tables
  BY <1>1, InitTables, NextTables, PTL DEF Spec
<1>3. Tables => TablesAgree
  BY TablesParts
<1> QED
  BY <1>2, <1>3, PTL

----------------------------------------------------------------------------
(***************************************************************************)
(* What a reference in emitted code means does not change: no step of the  *)
(* generator takes back a constant, a function or an instruction.          *)
(***************************************************************************)

LEMMA AppendPrefix ==
  ASSUME NEW S, NEW s \in Seq(S), NEW x
  PROVE  IsPrefixOf(s, Append(s, x))
<1> DEFINE T == S \cup {x}
<1>1. s \in Seq(T) /\ x \in T /\ Len(s) \in Nat
  OBVIOUS
<1> HIDE DEF T
<1> QED
  BY <1>1, AppendFacts DEF IsPrefixOf

LEMMA SamePrefix ==
  ASSUME NEW S, NEW s \in Seq(S)
  PROVE  IsPrefixOf(s, s)
  BY DEF IsPrefixOf

LEMMA FunctionsGrow ==
  ASSUME FunctionsType, Working
  PROVE  IsPrefixOf(functions, functions')
<1>1. ASSUME UNCHANGED functions PROVE IsPrefixOf(functions, functions')
  BY <1>1, SamePrefix DEF FunctionsType
<1>2. ASSUME FuncEnd PROVE IsPrefixOf(functions, functions')
  BY <1>2, AppendPrefix DEF FuncEnd, FunctionsType
<1>3. ASSUME SameRest PROVE UNCHANGED functions
  BY <1>3 DEF SameRest
<1>4. ASSUME \/ VarDecl \/ AssignLocal \/ AssignGlobal \/ If \/ While \/ Return \/ Block
             \/ ExprStmtOther \/ Binary
      PROVE  UNCHANGED functions
  BY <1>3, <1>4 DEF VarDecl, AssignLocal, AssignGlobal, If, While, Return, Block,
                    ExprStmtOther, Binary, OnlyTodo
<1>5. ASSUME \/ IfTest \/ IfThenEnd \/ IfElseEnd \/ WhileTest \/ WhileEnd
             \/ EmitReturn \/ CallStmt
      PROVE  SameRest
  BY <1>5 DEF IfTest, IfThenEnd, IfElseEnd, WhileTest, WhileEnd, EmitReturn, CallStmt
<1>6. ASSUME BoolLiteral \/ BinaryRight \/ BinaryOp \/ CallExpr \/ Compare \/ CompareOp
      PROVE  SameRest
  BY <1>6 DEF BoolLiteral, BinaryRight, BinaryOp, CallExpr, Compare, CompareOp
<1>7. ASSUME \/ SetGlobal \/ ExprStmtCall \/ Call \/ IntLiteral \/ FloatLiteral \/ Variable
      PROVE  SameRest
  BY <1>7 DEF SetGlobal, ExprStmtCall, Call, IntLiteral, FloatLiteral, Variable
<1> QED
  BY <1>1, <1>2, <1>3, <1>4, <1>5, <1>6, <1>7 DEF Working

LEMMA ConstantsPrefix ==
  ASSUME ConstantsType, ConstantsGrow
  PROVE  IsPrefixOf(constants, constants')
<1>1. ASSUME UNCHANGED constants PROVE IsPrefixOf(constants, constants')
  BY <1>1, SamePrefix DEF ConstantsType
<1>2. ASSUME NEW k, addConstant(k) PROVE IsPrefixOf(constants, constants')
  BY <1>1, <1>2, AppendPrefix DEF addConstant, ConstantsType
<1> QED
  BY <1>1, <1>2 DEF ConstantsGrow, SameConstants

Stays == /\ IsPrefixOf(constants, constants')
         /\ IsPrefixOf(functions, functions')
         /\ Len(instructions) <= Len(instructions')
         /\ \A n \in 1..Len(instructions) :
              \/ instructions'[n] = instructions[n]
              \/ instructions[n].op = "JMP" /\ instructions'[n].op = "JMP"

LEMMA WorkingStays ==
  ASSUME Types, Types', Fits, Working
  PROVE  Stays
<1>1. IsPrefixOf(constants, constants')
  BY WorkingGrows, ConstantsPrefix DEF Types
<1>2. IsPrefixOf(functions, functions')
  BY FunctionsGrow DEF Types
<1>3. Grown(instructions, instructions')
  BY QuietActionsFit, EmitActionsFit, BranchActionsFit DEF Fits, Working, HereStep
<1> QED
  BY <1>1, <1>2, <1>3 DEF Stays, Grown

LEMMA OthersStay ==
  ASSUME Types, UNCHANGED <<constants, functions, instructions>>
  PROVE  Stays
<1>1. IsPrefixOf(constants, constants') /\ IsPrefixOf(functions, functions')
  BY SamePrefix DEF Types, ConstantsType, FunctionsType
<1> QED
  BY <1>1 DEF Stays, Types, CodeType

(* FuncDecl and EndFunction change the generator at work.                  *)
LEMMA GeneratorsChange ==
  ASSUME Types, FuncDecl \/ EndFunction
  PROVE  Len(outer') # Len(outer)
<1>1. outer \in Seq({outer[n] : n \in 1..Len(outer)})
  BY DEF Types, OuterType, IsSequence
<1>2. ASSUME FuncDecl PROVE Len(outer') # Len(outer)
  <2>1. PICK g : outer' = Append(outer, g)
    BY <1>2 DEF FuncDecl
  <2> DEFINE S == {outer[n] : n \in 1..Len(outer)} \cup {g}
  <2>2. outer \in Seq(S) /\ g \in S /\ Len(outer) \in Nat
    BY <1>1
  <2> HIDE DEF S
  <2> QED
    BY <2>1, <2>2, AppendFacts
<1>3. ASSUME EndFunction PROVE Len(outer') # Len(outer)
  <2>1. outer # <<>> /\ outer' = SubSeq(outer, 1, Len(outer) - 1)
    BY <1>3 DEF EndFunction, isMain
  <2>2. Len(outer') = Len(outer) - 1 /\ Len(outer) \in Nat
    BY <1>1, <2>1, FrontFacts
  <2> QED
    BY <2>2
<1> QED
  BY <1>2, <1>3

LEMMA NextStays ==
  ASSUME Types, Types', Fits, [Next]_vars, Len(outer') = Len(outer)
  PROVE  Stays
<1>1. CASE Working
  BY <1>1, WorkingStays
<1>2. CASE FuncDecl \/ EndFunction
  BY <1>2, GeneratorsChange
<1>3. CASE EndMain \/ UNCHANGED vars
  <2>1. UNCHANGED <<constants, functions, instructions>>
    BY <1>3 DEF EndMain, vars, genVars
  <2> QED
    BY <2>1, OthersStay
<1> QED
  BY <1>1, <1>2, <1>3 DEF Next, Working

(* While a generator works its constants and functions only grow, and an   *)
(* emitted instruction stays but for the target of a jump (addConstant*,   *)
(* FuncDecl's functions.add, emit and the backpatching), so an index in    *)
(* emitted code goes on meaning what it meant.                             *)
THEOREM EmittedStaysAlways == Spec => EmittedStays
<1>1. Spec => []Types
  BY InitTypes, NextTypes, PTL DEF Spec
<1>2. Spec => []Fits
  BY <1>1, InitFits, NextFits, PTL DEF Spec
<1>3. Types /\ Types' /\ Fits /\ [Next]_vars =>
        [Len(outer') = Len(outer) => Stays]_vars
  BY NextStays
<1>4. Spec => [][Len(outer') = Len(outer) => Stays]_vars
  BY <1>1, <1>2, <1>3, PTL DEF Spec
<1> QED
  BY <1>4 DEF EmittedStays, Stays
=============================================================================
