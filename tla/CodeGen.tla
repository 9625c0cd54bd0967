------------------------------ MODULE CodeGen ------------------------------
(***************************************************************************)
(* The code generator: src/src/codegen/code_generator.cj.                  *)
(*                                                                         *)
(* The recursive descent over the AST is a state machine.  todo holds the  *)
(* calls and the rests of calls still to make, the next one first; a step  *)
(* runs one of them up to the next recursive call.  The fields of the      *)
(* CodeGenerator at work are variables; FuncDecl suspends it in outer while*)
(* a fresh one compiles the body, and protos is the heap of generators     *)
(* that have finished, which functions refers to by position.              *)
(*                                                                         *)
(* Not here: functionNames (written, never read), the byte layout of the   *)
(* chunk, jump offsets beyond 24 bits.                                     *)
(***************************************************************************)
EXTENDS Integers, Sequences

CONSTANTS
  Names,      \* identifiers
  Expr,       \* expression nodes, with their sub-nodes
  Stmt,       \* statement nodes, with their sub-nodes
  Programs,   \* statement lists the parser may hand over
  ArgSize,    \* 256: values of an 8-bit operand, and of UInt8
  BxSize,     \* 131072: values of a 17-bit operand
  IntLimit,   \* 2^62: writeLuaInteger multiplies by 2 in 64 bits
  FloatScale  \* 10^6: toString of a Float64 keeps 6 decimals

MM == [ADD |-> 6, SUB |-> 7, MUL |-> 8, DIV |-> 9]
ArithOps == {"ADD", "SUB", "MUL", "DIV"}
CompareOps == {"EQ", "NEQ", "LT", "LTE", "GT", "GTE"}

(* The shape of AST nodes (src/src/parser/ast.cj).  A Float64 literal is a *)
(* fraction num/den in lowest terms.                                       *)
ExprShape(e) ==
  \/ e.kind = "int" /\ e.int \in Int
  \/ e.kind = "flt" /\ e.num \in Int /\ e.den \in Nat \ {0}
  \/ e.kind = "bool" /\ e.bool \in BOOLEAN
  \/ e.kind = "var" /\ e.name \in Names
  \/ e.kind = "bin" /\ e.op \in ArithOps \cup CompareOps
                    /\ e.left \in Expr /\ e.right \in Expr
  \/ e.kind = "call" /\ e.name \in Names /\ e.args \in Seq(Expr)

StmtShape(s) ==
  \/ s.kind = "decl" /\ s.name \in Names /\ s.expr \in Expr
  \/ s.kind = "assign" /\ s.name \in Names /\ s.expr \in Expr
  \/ s.kind = "if" /\ s.cond \in Expr /\ s.then \in Seq(Stmt) /\ s.else \in Seq(Stmt)
  \/ s.kind = "while" /\ s.cond \in Expr /\ s.body \in Seq(Stmt)
  \/ s.kind = "func" /\ s.name \in Names /\ s.params \in Seq(Names) /\ s.body \in Seq(Stmt)
  \/ s.kind = "return" /\ s.expr \in Expr
  \/ s.kind = "expr" /\ s.expr \in Expr
  \/ s.kind = "block" /\ s.body \in Seq(Stmt)

ASSUME ExprAssumption == \A e \in Expr : ExprShape(e)
ASSUME StmtAssumption == \A s \in Stmt : StmtShape(s)
ASSUME ProgramsAssumption == Programs \subseteq Seq(Stmt)
ASSUME SizeAssumption == /\ ArgSize \in Nat \ {0}
                         /\ BxSize \in Nat \ {0}
                         /\ IntLimit \in Nat
                         /\ FloatScale \in Nat

VARIABLES
  program,       \* the list generate() was called with
  instructions,  \* Seq of instructions; the code's index i is position i+1
  constants,
  constantIndex, \* constant key -> index
  locals,
  localIndex,    \* name -> register
  currentStack,
  maxStack,
  functions,     \* FunctionProtos: the generator's position in protos, numParams
  todo,
  outer,         \* generators suspended in FuncDecl, outermost first
  protos,
  outcome        \* "generating", "chunk" or "exception"

genVars == <<instructions, constants, constantIndex, locals, localIndex,
             currentStack, maxStack, functions, todo>>
vars == <<program, genVars, outer, protos, outcome>>

----------------------------------------------------------------------------
(* Instructions.  b is B, Bx, sBx or sJ, whichever the format has.         *)

encodeABCK(op, a, b, c, k) ==
  [op |-> op, a |-> a % ArgSize, b |-> b % ArgSize, c |-> c % ArgSize, k |-> k]
encodeABC(op, a, b, c) == encodeABCK(op, a, b, c, 0)
encodeABx(op, a, bx) ==
  [op |-> op, a |-> a % ArgSize, b |-> bx % BxSize, c |-> 0, k |-> 0]
encodeAsBx(op, a, sbx) ==
  [op |-> op, a |-> a % ArgSize, b |-> sbx, c |-> 0, k |-> 0]
encodeIsJ(sj) == [op |-> "JMP", a |-> 0, b |-> sj, c |-> 0, k |-> 0]

emit(seg) == instructions' = instructions \o seg

(* Two slips of backpatching: one past the end, and one place early.       *)
PatchedPast(code, jmp, end) == [code EXCEPT ![jmp + 1] = encodeIsJ(end - jmp)]
PatchedEarly(code, jmp, end) == [code EXCEPT ![jmp] = encodeIsJ(end - jmp - 1)]

(* instructions[jmp] = JMP to position end, both 0-based.                  *)
Patched(code, jmp, end) == [code EXCEPT ![jmp + 1] = encodeIsJ(end - jmp - 1)]

----------------------------------------------------------------------------
(* Constants.  An entry is looked up by the text of its value, so by the   *)
(* text a Float64 prints as.                                               *)

FloatText(num, den) == (2 * num * FloatScale + den) \div (2 * den)
intConstant(n) == [kind |-> "int", int |-> n]
fltConstant(num, den) == [kind |-> "flt", num |-> num, den |-> den]
strConstant(s) == [kind |-> "str", str |-> s]

ConstantKey(k) ==
  IF k.kind = "int" THEN <<"int", k.int>>
  ELSE IF k.kind = "flt" THEN <<"flt", FloatText(k.num, k.den)>>
  ELSE <<"str", k.str>>

Known(k) == ConstantKey(k) \in DOMAIN constantIndex
addConstantIndex(k) ==
  IF Known(k) THEN constantIndex[ConstantKey(k)] ELSE Len(constants)

(* A slip: the constant is stored but not entered in the index.            *)
addConstantOnly(k) ==
  IF Known(k) THEN UNCHANGED <<constants, constantIndex>>
  ELSE constants' = Append(constants, k) /\ UNCHANGED constantIndex

addConstant(k) ==
  IF Known(k) THEN UNCHANGED <<constants, constantIndex>>
  ELSE /\ constants' = Append(constants, k)
       /\ constantIndex' = [x \in DOMAIN constantIndex \cup {ConstantKey(k)} |->
                              IF x = ConstantKey(k) THEN Len(constants)
                              ELSE constantIndex[x]]

(* A slip: LOADKX without the instruction that holds its index.            *)
loadConstantBare(dest, idx) ==
  <<encodeABx(IF idx < BxSize THEN "LOADK" ELSE "LOADKX", dest, idx)>>

(* LOADK, or LOADKX and its EXTRAARG.                                      *)
loadConstant(dest, idx) ==
  IF idx < BxSize THEN <<encodeABx("LOADK", dest, idx)>>
  ELSE <<encodeABx("LOADKX", dest, 0), encodeABx("EXTRAARG", 0, idx)>>

----------------------------------------------------------------------------
(* Locals and stack depth.                                                 *)

(* A slip: the comparison the wrong way round.                             *)
Smaller(m, n) == IF m < n THEN m ELSE n

Larger(m, n) == IF m < n THEN n ELSE m
isLocal(name) == name \in DOMAIN localIndex
addLocalIndex(name) == IF isLocal(name) THEN localIndex[name] ELSE Len(locals)
addLocal(name) ==
  IF isLocal(name) THEN UNCHANGED <<locals, localIndex, currentStack, maxStack>>
  ELSE /\ locals' = Append(locals, name)
       /\ localIndex' = [x \in DOMAIN localIndex \cup {name} |->
                           IF x = name THEN Len(locals) ELSE localIndex[x]]
       /\ currentStack' = currentStack + 1
       /\ maxStack' = Larger(maxStack, currentStack + 1)

(* A slip: one register too few.                                           *)
setStackShort(n) == currentStack' = n - 1

setStack(n) == currentStack' = n
bumpStack(n) == currentStack' = n /\ maxStack' = Larger(maxStack, n)

----------------------------------------------------------------------------
(* The calls to make.  generateStmt and generateExpr tasks are calls; the  *)
(* others are what is left of a function after a recursive call returned.  *)

StmtTask(s) == [t |-> "stmt", s |-> s]
ExprTask(e, dest) == [t |-> "expr", e |-> e, dest |-> dest]
generateStatements(ss) == [i \in 1..Len(ss) |-> StmtTask(ss[i])]

Task ==
       [t : {"stmt"}, s : Stmt]
  \cup [t : {"expr"}, e : Expr, dest : Nat]
  \cup [t : {"setGlobal"}, name : Names, reg : Nat]
  \cup [t : {"return"}, reg : Nat]
  \cup [t : {"ifTest"}, saved : Nat, then : Seq(Stmt), else : Seq(Stmt)]
  \cup [t : {"ifThenEnd"}, saved : Nat, jmp : Nat, else : Seq(Stmt)]
  \cup [t : {"ifElseEnd"}, saved : Nat, jmp : Nat]
  \cup [t : {"whileTest"}, saved : Nat, start : Nat, body : Seq(Stmt)]
  \cup [t : {"whileEnd"}, saved : Nat, start : Nat, jmp : Nat]
  \cup [t : {"callStmt"}, func : Nat, next : Nat, args : Seq(Expr), n : Nat]
  \cup [t : {"callExpr"}, func : Nat, inc : {0, 1}, args : Seq(Expr), n : Nat, saved : Nat]
  \cup [t : {"binRight"}, op : ArithOps, dest : Nat, right : Expr]
  \cup [t : {"binOp"}, op : ArithOps, dest : Nat, right : Nat]
  \cup [t : {"compare"}, op : CompareOps, dest : Nat, saved : Nat]
  \cup [t : {"funcEnd"}, name : Names, params : Nat]

Task1 == Head(todo)
At(t) == outcome = "generating" /\ todo # <<>> /\ Task1.t = t
AtStmt(kind) == At("stmt") /\ Task1.s.kind = kind
AtExpr(kind) == At("expr") /\ Task1.e.kind = kind
Then(tasks) == todo' = tasks \o Tail(todo)
isMain == outer = <<>>

SameConstants == UNCHANGED <<constants, constantIndex>>
SameStack == UNCHANGED <<currentStack, maxStack>>
SameRest == UNCHANGED <<program, locals, localIndex, functions, outer, protos, outcome>>
OnlyTodo == UNCHANGED instructions /\ SameConstants /\ SameStack /\ SameRest

----------------------------------------------------------------------------
(* Of parameters with one name, the last one is found.                     *)
paramIndex(names) ==
  [x \in {names[i] : i \in 1..Len(names)} |->
     (CHOOSE i \in 1..Len(names) :
        names[i] = x /\ \A j \in 1..Len(names) : names[j] = x => j <= i) - 1]

Init ==
  /\ program \in Programs
  /\ instructions = <<encodeABx("VARARGPREP", 0, 0)>>
  /\ constants = <<>> /\ constantIndex = [x \in {} |-> 0]
  /\ locals = <<>> /\ localIndex = [x \in {} |-> 0]
  /\ currentStack = 0 /\ maxStack = 0
  /\ functions = <<>>
  /\ todo = generateStatements(program)
  /\ outer = <<>> /\ protos = <<>>
  /\ outcome = "generating"

----------------------------------------------------------------------------
(* Statements.                                                             *)

VarDecl ==
  /\ AtStmt("decl")
  /\ addLocal(Task1.s.name)
  /\ Then(<<ExprTask(Task1.s.expr, addLocalIndex(Task1.s.name))>>)
  /\ SameConstants /\ UNCHANGED <<program, instructions, functions, outer, protos, outcome>>

AssignLocal ==
  /\ AtStmt("assign") /\ isLocal(Task1.s.name)
  /\ Then(<<ExprTask(Task1.s.expr, localIndex[Task1.s.name])>>)
  /\ OnlyTodo

AssignGlobal ==
  /\ AtStmt("assign") /\ ~isLocal(Task1.s.name)
  /\ Then(<<ExprTask(Task1.s.expr, currentStack),
            [t |-> "setGlobal", name |-> Task1.s.name, reg |-> currentStack]>>)
  /\ OnlyTodo

(* reg | RK_CONSTANT_BIT loses the ninth bit in the 8-bit operand C.       *)
SetGlobal ==
  /\ At("setGlobal")
  /\ addConstant(strConstant(Task1.name))
  /\ emit(<<encodeABC("SETTABUP", 0, addConstantIndex(strConstant(Task1.name)),
                      Task1.reg)>>)
  /\ Then(<<>>)
  /\ SameStack /\ SameRest

(* generateIfStmt, up to the condition; after it; after each branch.       *)
If ==
  /\ AtStmt("if")
  /\ Then(<<ExprTask(Task1.s.cond, currentStack),
            [t |-> "ifTest", saved |-> currentStack,
             then |-> Task1.s.then, else |-> Task1.s.else]>>)
  /\ OnlyTodo

IfTest ==
  /\ At("ifTest")
  /\ setStack(Task1.saved)
  /\ emit(<<encodeABC("TEST", Task1.saved, 0, 0), encodeIsJ(0)>>)
  /\ Then(Append(generateStatements(Task1.then),
                 [t |-> "ifThenEnd", saved |-> Task1.saved,
                  jmp |-> Len(instructions) + 1, else |-> Task1.else]))
  /\ SameConstants /\ UNCHANGED maxStack /\ SameRest

IfThenEnd ==
  /\ At("ifThenEnd")
  /\ setStack(Task1.saved)
  /\ \/ /\ Task1.else # <<>>
        /\ instructions' = Patched(Append(instructions, encodeIsJ(0)),
                                   Task1.jmp, Len(instructions) + 1)
        /\ Then(Append(generateStatements(Task1.else),
                       [t |-> "ifElseEnd", saved |-> Task1.saved,
                        jmp |-> Len(instructions)]))
     \/ /\ Task1.else = <<>>
        /\ instructions' = Patched(instructions, Task1.jmp, Len(instructions))
        /\ Then(<<>>)
  /\ SameConstants /\ UNCHANGED maxStack /\ SameRest

IfElseEnd ==
  /\ At("ifElseEnd")
  /\ setStack(Task1.saved)
  /\ instructions' = Patched(instructions, Task1.jmp, Len(instructions))
  /\ Then(<<>>)
  /\ SameConstants /\ UNCHANGED maxStack /\ SameRest

(* generateWhileStmt, up to the condition; after it; after the body.       *)
While ==
  /\ AtStmt("while")
  /\ Then(<<ExprTask(Task1.s.cond, currentStack),
            [t |-> "whileTest", saved |-> currentStack,
             start |-> Len(instructions), body |-> Task1.s.body]>>)
  /\ OnlyTodo

WhileTest ==
  /\ At("whileTest")
  /\ setStack(Task1.saved)
  /\ emit(<<encodeABC("TEST", Task1.saved, 0, 0), encodeIsJ(0)>>)
  /\ Then(Append(generateStatements(Task1.body),
                 [t |-> "whileEnd", saved |-> Task1.saved,
                  start |-> Task1.start, jmp |-> Len(instructions) + 1]))
  /\ SameConstants /\ UNCHANGED maxStack /\ SameRest

WhileEnd ==
  /\ At("whileEnd")
  /\ setStack(Task1.saved)
  /\ instructions' =
       Patched(Append(instructions, encodeIsJ(Task1.start - Len(instructions) - 1)),
               Task1.jmp, Len(instructions) + 1)
  /\ Then(<<>>)
  /\ SameConstants /\ UNCHANGED maxStack /\ SameRest

Return ==
  /\ AtStmt("return")
  /\ Then(<<ExprTask(Task1.s.expr, currentStack),
            [t |-> "return", reg |-> currentStack]>>)
  /\ OnlyTodo

EmitReturn ==
  /\ At("return")
  /\ emit(<<encodeABC("RETURN", Task1.reg, 2, IF isMain THEN 1 ELSE 0)>>)
  /\ Then(<<>>)
  /\ SameConstants /\ SameStack /\ SameRest

(* A slip: the block itself is generated again, not its statements.        *)
BlockAgain == AtStmt("block") /\ Then(<<Task1>>) /\ OnlyTodo

Block ==
  /\ AtStmt("block")
  /\ Then(generateStatements(Task1.s.body))
  /\ OnlyTodo

(* generateExprStmt of a call; of anything else.                           *)
ExprStmtCall ==
  /\ AtStmt("expr") /\ Task1.s.expr.kind = "call"
  /\ LET call == Task1.s.expr
         k == strConstant(call.name)
     IN /\ addConstant(k)
        /\ emit(<<encodeABC("GETTABUP", currentStack, 0, addConstantIndex(k))>>)
        /\ Then(<<[t |-> "callStmt", func |-> currentStack, next |-> currentStack + 1,
                   args |-> call.args, n |-> Len(call.args)]>>)
  /\ SameStack /\ SameRest

(* The argument loop and the CALL; next is argReg + 1 of the last argument.*)
CallStmt ==
  /\ At("callStmt")
  /\ \/ /\ Task1.args # <<>>
        /\ setStack(Task1.next)
        /\ Then(<<ExprTask(Head(Task1.args), Task1.next),
                  [Task1 EXCEPT !.next = @ + 1, !.args = Tail(@)]>>)
        /\ UNCHANGED <<maxStack, instructions>>
     \/ /\ Task1.args = <<>>
        /\ maxStack' = Larger(maxStack, Task1.next)
        /\ emit(<<encodeABC("CALL", Task1.func, Task1.n + 1, 1)>>)
        /\ setStack(Task1.func)
        /\ Then(<<>>)
  /\ SameConstants /\ SameRest

ExprStmtOther ==
  /\ AtStmt("expr") /\ Task1.s.expr.kind # "call"
  /\ Then(<<ExprTask(Task1.s.expr, currentStack)>>)
  /\ OnlyTodo

----------------------------------------------------------------------------
(* Expressions.                                                            *)

LOADI_RANGE == -32768..32767
LOADF_RANGE == -65536..65535

IntLiteral ==
  /\ AtExpr("int")
  /\ LET n == Task1.e.int
         k == intConstant(n)
     IN \/ /\ n \in LOADI_RANGE
           /\ emit(<<encodeAsBx("LOADI", Task1.dest, n)>>)
           /\ SameConstants
        \/ /\ n \notin LOADI_RANGE
           /\ addConstant(k)
           /\ emit(loadConstant(Task1.dest, addConstantIndex(k)))
  /\ Then(<<>>)
  /\ SameStack /\ SameRest

(* The literals of the sets Expr are such that Int64(value) does not throw *)
(* (377): it does for one beyond the Int64.                                *)
FloatLiteral ==
  /\ AtExpr("flt")
  /\ LET num == Task1.e.num
         den == Task1.e.den
         k == fltConstant(num, den)
     IN \/ /\ den = 1 /\ num \in LOADF_RANGE
           /\ emit(<<encodeAsBx("LOADF", Task1.dest, num)>>)
           /\ SameConstants
        \/ /\ ~(den = 1 /\ num \in LOADF_RANGE)
           /\ addConstant(k)
           /\ emit(loadConstant(Task1.dest, addConstantIndex(k)))
  /\ Then(<<>>)
  /\ SameStack /\ SameRest

BoolLiteral ==
  /\ AtExpr("bool")
  /\ emit(<<encodeABC(IF Task1.e.bool THEN "LOADTRUE" ELSE "LOADFALSE",
                      Task1.dest, 0, 0)>>)
  /\ Then(<<>>)
  /\ SameConstants /\ SameStack /\ SameRest

Variable ==
  /\ AtExpr("var")
  /\ LET name == Task1.e.name
         k == strConstant(name)
     IN \/ /\ isLocal(name)
           /\ emit(<<encodeABC("MOVE", Task1.dest, localIndex[name], 0)>>)
           /\ SameConstants
        \/ /\ ~isLocal(name)
           /\ addConstant(k)
           /\ emit(<<encodeABC("GETTABUP", Task1.dest, 0, addConstantIndex(k))>>)
  /\ Then(<<>>)
  /\ SameStack /\ SameRest

Binary ==
  /\ AtExpr("bin") /\ Task1.e.op \in ArithOps
  /\ Then(<<ExprTask(Task1.e.left, Task1.dest),
            [t |-> "binRight", op |-> Task1.e.op, dest |-> Task1.dest,
             right |-> Task1.e.right]>>)
  /\ OnlyTodo

(* The first free register, the next one if that is the left operand's;    *)
(* currentStack keeps what this takes.                                     *)
BinaryRight ==
  /\ At("binRight")
  /\ LET right == IF currentStack = Task1.dest THEN currentStack + 1 ELSE currentStack
     IN /\ bumpStack(right + 1)
        /\ Then(<<ExprTask(Task1.right, right),
                  [t |-> "binOp", op |-> Task1.op, dest |-> Task1.dest, right |-> right]>>)
  /\ SameConstants /\ UNCHANGED instructions /\ SameRest

BinaryOp ==
  /\ At("binOp")
  /\ emit(<<encodeABC(Task1.op, Task1.dest, Task1.dest, Task1.right),
            encodeABC("MMBIN", Task1.dest, Task1.right, MM[Task1.op])>>)
  /\ Then(<<>>)
  /\ SameConstants /\ SameStack /\ SameRest

Call ==
  /\ AtExpr("call")
  /\ LET k == strConstant(Task1.e.name)
     IN /\ addConstant(k)
        /\ emit(<<encodeABC("GETTABUP", Task1.dest, 0, addConstantIndex(k))>>)
        /\ Then(<<[t |-> "callExpr", func |-> Task1.dest, inc |-> 0,
                   args |-> Task1.e.args, n |-> Len(Task1.e.args),
                   saved |-> currentStack]>>)
  /\ setStack(Task1.dest + 1)
  /\ UNCHANGED maxStack /\ SameRest

(* The argument loop and the CALL; inc is the currentStack++ that ends the *)
(* previous argument's round.                                              *)
CallExpr ==
  /\ At("callExpr")
  /\ LET next == currentStack + Task1.inc
     IN \/ /\ Task1.args # <<>>
           /\ setStack(next)
           /\ Then(<<ExprTask(Head(Task1.args), next),
                     [Task1 EXCEPT !.inc = 1, !.args = Tail(@)]>>)
           /\ UNCHANGED <<maxStack, instructions>>
        \/ /\ Task1.args = <<>>
           /\ maxStack' = Larger(maxStack, next)
           /\ emit(<<encodeABC("CALL", Task1.func, Task1.n + 1, 2)>>)
           /\ setStack(Task1.saved)
           /\ Then(<<>>)
  /\ SameConstants /\ SameRest

Compare ==
  /\ AtExpr("bin") /\ Task1.e.op \in CompareOps
  /\ bumpStack(Task1.dest + 3)
  /\ Then(<<ExprTask(Task1.e.left, Task1.dest + 1),
            ExprTask(Task1.e.right, Task1.dest + 2),
            [t |-> "compare", op |-> Task1.e.op, dest |-> Task1.dest,
             saved |-> currentStack]>>)
  /\ SameConstants /\ UNCHANGED instructions /\ SameRest

(* A slip: GT and GTE without the exchange.                                *)
CompareInOrder(op, l, r) ==
  encodeABCK(IF op \in {"EQ", "NEQ"} THEN "EQ" ELSE IF op \in {"LT", "GT"} THEN "LT" ELSE "LE",
             l, r, 0, IF op = "NEQ" THEN 1 ELSE 0)

(* GT and GTE are LT and LE with the operands exchanged.                   *)
CompareInstruction(op, l, r) ==
  CASE op = "EQ"  -> encodeABCK("EQ", l, r, 0, 0)
    [] op = "NEQ" -> encodeABCK("EQ", l, r, 0, 1)
    [] op = "LT"  -> encodeABCK("LT", l, r, 0, 0)
    [] op = "LTE" -> encodeABCK("LE", l, r, 0, 0)
    [] op = "GT"  -> encodeABCK("LT", r, l, 0, 0)
    [] op = "GTE" -> encodeABCK("LE", r, l, 0, 0)

CompareOp ==
  /\ At("compare")
  /\ emit(<<encodeABC("LOADFALSE", Task1.dest, 0, 0),
            CompareInstruction(Task1.op, Task1.dest + 1, Task1.dest + 2),
            encodeIsJ(1),
            encodeABC("LOADTRUE", Task1.dest, 0, 0)>>)
  /\ setStack(Task1.saved)
  /\ Then(<<>>)
  /\ SameConstants /\ UNCHANGED maxStack /\ SameRest

----------------------------------------------------------------------------
(* Functions.                                                              *)

(* FuncDecl up to generateFunction: a new generator compiles the body.     *)
FuncDecl ==
  /\ AtStmt("func")
  /\ outer' = Append(outer,
       [instructions |-> instructions, constants |-> constants,
        constantIndex |-> constantIndex, locals |-> locals, localIndex |-> localIndex,
        currentStack |-> currentStack, maxStack |-> maxStack, functions |-> functions,
        todo |-> <<[t |-> "funcEnd", name |-> Task1.s.name,
                    params |-> Len(Task1.s.params)]>> \o Tail(todo)])
  /\ instructions' = <<>>
  /\ constants' = <<>> /\ constantIndex' = [x \in {} |-> 0]
  /\ locals' = Task1.s.params /\ localIndex' = paramIndex(Task1.s.params)
  /\ currentStack' = Len(Task1.s.params) /\ maxStack' = Len(Task1.s.params)
  /\ functions' = <<>>
  /\ todo' = generateStatements(Task1.s.body)
  /\ UNCHANGED <<program, protos, outcome>>

(* A slip: a function without the functions declared in it.                *)
FinishedAlone ==
  [code |-> Append(instructions, encodeABC("RETURN0", 0, 0, 0)),
   constants |-> constants, functions |-> <<>>, maxStack |-> maxStack]

(* The generator as writeFunction and writeSubFunction read it, after the  *)
(* RETURN0 that ends it.                                                   *)
Finished ==
  [code |-> Append(instructions, encodeABC("RETURN0", 0, 0, 0)),
   constants |-> constants, functions |-> functions, maxStack |-> maxStack]

EndFunction ==
  /\ outcome = "generating" /\ todo = <<>> /\ ~isMain
  /\ protos' = Append(protos, Finished)
  /\ outer' = SubSeq(outer, 1, Len(outer) - 1)
  /\ LET up == outer[Len(outer)]
     IN /\ instructions' = up.instructions
        /\ constants' = up.constants /\ constantIndex' = up.constantIndex
        /\ locals' = up.locals /\ localIndex' = up.localIndex
        /\ currentStack' = up.currentStack /\ maxStack' = up.maxStack
        /\ functions' = up.functions
        /\ todo' = up.todo
  /\ UNCHANGED <<program, outcome>>

(* The rest of FuncDecl: the prototype, the local, the global.             *)
FuncEnd ==
  /\ At("funcEnd")
  /\ functions' = Append(functions, [proto |-> Len(protos), numParams |-> Task1.params])
  /\ addLocal(Task1.name)
  /\ LET reg == addLocalIndex(Task1.name)
         k == strConstant(Task1.name)
     IN /\ addConstant(k)
        /\ emit(<<encodeABx("CLOSURE", reg, Len(functions)),
                  encodeABC("SETTABUP", 0, addConstantIndex(k), reg)>>)
  /\ Then(<<>>)
  /\ UNCHANGED <<program, outer, protos, outcome>>

(* The end of generate.  Writing throws where a UInt8 or a doubled integer *)
(* constant overflows.                                                     *)
STACK_EXTRA == 2
WritesInt(n) == n < IntLimit /\ -n < IntLimit
Writes(p) ==
  /\ p.maxStack + STACK_EXTRA < ArgSize
  /\ \A i \in 1..Len(p.functions) : p.functions[i].numParams < ArgSize
  /\ \A i \in 1..Len(p.constants) :
       p.constants[i].kind = "int" => WritesInt(p.constants[i].int)

EndMain ==
  /\ outcome = "generating" /\ todo = <<>> /\ isMain
  /\ protos' = Append(protos, Finished)
  /\ outcome' = IF \A i \in 1..Len(protos') : Writes(protos'[i])
                THEN "chunk" ELSE "exception"
  /\ UNCHANGED <<program, outer, genVars>>

----------------------------------------------------------------------------
Next ==
  \/ VarDecl \/ AssignLocal \/ AssignGlobal \/ SetGlobal
  \/ If \/ IfTest \/ IfThenEnd \/ IfElseEnd
  \/ While \/ WhileTest \/ WhileEnd
  \/ Return \/ EmitReturn \/ Block
  \/ ExprStmtCall \/ CallStmt \/ ExprStmtOther
  \/ IntLiteral \/ FloatLiteral \/ BoolLiteral \/ Variable
  \/ Binary \/ BinaryRight \/ BinaryOp
  \/ Call \/ CallExpr \/ Compare \/ CompareOp
  \/ FuncDecl \/ EndFunction \/ FuncEnd \/ EndMain

(* A sequential program runs on: weak fairness of the whole step.          *)
Spec == Init /\ [][Next]_vars /\ WF_vars(Next)
=============================================================================
