------------------------- MODULE CodeGenProperties -------------------------
(***************************************************************************)
(* What the code generator guarantees, whatever program it is given:       *)
(* stated here, model-checked by MCCodeGen, and proved in CodeGenShape     *)
(* and CodeGenPrototypes (the README says which).                          *)
(***************************************************************************)
EXTENDS CodeGen

Ops == {"VARARGPREP", "MOVE", "LOADI", "LOADF", "LOADK", "LOADKX", "EXTRAARG",
        "LOADTRUE", "LOADFALSE", "GETTABUP", "SETTABUP", "CLOSURE", "MMBIN",
        "ADD", "SUB", "MUL", "DIV", "EQ", "LT", "LE", "TEST", "JMP",
        "CALL", "RETURN", "RETURN0"}
Instruction == [op : Ops, a : 0..ArgSize-1, b : Int, c : 0..ArgSize-1, k : {0, 1}]
Constant == [kind : {"int"}, int : Int]
              \cup [kind : {"flt"}, num : Int, den : Nat \ {0}]
              \cup [kind : {"str"}, str : Names]
Key == ({"int", "flt"} \X Int) \cup ({"str"} \X Names)
FunctionProto == [proto : Nat, numParams : Nat]
Proto == [code : Seq(Instruction), constants : Seq(Constant),
          functions : Seq(FunctionProto), maxStack : Nat]

GeneratorOK(g) ==
  /\ g.instructions \in Seq(Instruction)
  /\ g.constants \in Seq(Constant)
  /\ g.constantIndex \in [DOMAIN g.constantIndex -> Nat]
  /\ DOMAIN g.constantIndex \subseteq Key
  /\ g.locals \in Seq(Names)
  /\ g.localIndex \in [DOMAIN g.localIndex -> Nat]
  /\ DOMAIN g.localIndex \subseteq Names
  /\ g.currentStack \in Nat
  /\ g.maxStack \in Nat
  /\ g.functions \in Seq(FunctionProto)
  /\ g.todo \in Seq(Task)

IsSequence(s) == s \in Seq({s[n] : n \in 1..Len(s)})

(* The generator at work, as FuncDecl suspends one.                        *)
Here == [instructions |-> instructions, constants |-> constants,
         constantIndex |-> constantIndex, locals |-> locals, localIndex |-> localIndex,
         currentStack |-> currentStack, maxStack |-> maxStack, functions |-> functions,
         todo |-> todo]

(* Every variable has its type, in the working and the suspended           *)
(* generators.                                                             *)
TypeOK ==
  /\ program \in Seq(Stmt)
  /\ GeneratorOK(Here)
  /\ IsSequence(outer)
  /\ \A n \in 1..Len(outer) : GeneratorOK(outer[n])
  /\ protos \in Seq(Proto)
  /\ outcome \in {"generating", "chunk", "exception"}
----------------------------------------------------------------------------
(* Index tables.                                                           *)

(* constantIndex finds a constant at the position of a constant with the   *)
(* same key, and there is one constant of a key.                           *)
ConstantsIndexed(g) ==
  /\ \A n \in 1..Len(g.constants) :
       /\ ConstantKey(g.constants[n]) \in DOMAIN g.constantIndex
       /\ g.constantIndex[ConstantKey(g.constants[n])] = n - 1
  /\ \A x \in DOMAIN g.constantIndex :
       /\ g.constantIndex[x] < Len(g.constants)
       /\ ConstantKey(g.constants[g.constantIndex[x] + 1]) = x

(* A name's register is the position of that name in locals: two names     *)
(* never share one.                                                        *)
LocalsIndexed(g) ==
  /\ {g.locals[n] : n \in 1..Len(g.locals)} = DOMAIN g.localIndex
  /\ \A x \in DOMAIN g.localIndex :
       g.localIndex[x] < Len(g.locals) /\ g.locals[g.localIndex[x] + 1] = x

(* In every generator, the lookup tables and the lists they index agree    *)
(* (addConstant, addLocal, generateFunction).                              *)
TablesAgree ==
  /\ ConstantsIndexed(Here) /\ LocalsIndexed(Here)
  /\ \A n \in 1..Len(outer) : ConstantsIndexed(outer[n]) /\ LocalsIndexed(outer[n])

----------------------------------------------------------------------------
(* The shape of code.  The virtual machine treats some instructions as one *)
(* with the next: a test and its jump, an arithmetic operation and the     *)
(* metamethod call for the operands it cannot add, LOADKX and its operand. *)

Partner == [TEST |-> "JMP", EQ |-> "JMP", LT |-> "JMP", LE |-> "JMP",
            ADD |-> "MMBIN", SUB |-> "MMBIN", MUL |-> "MMBIN", DIV |-> "MMBIN",
            LOADKX |-> "EXTRAARG"]
FirstOfPair(x) == x.op \in DOMAIN Partner

(* Control may come to position p: it is in the code or just after it, and *)
(* not the second of a pair.                                               *)
Entry(code, p) == p \in 1..Len(code)+1 /\ (p > 1 => ~FirstOfPair(code[p - 1]))

PairsKept(code) ==
  \A n \in 1..Len(code) :
    FirstOfPair(code[n]) => n < Len(code) /\ code[n + 1].op = Partner[code[n].op]
JumpTarget(code, n) == n + 1 + code[n].b
JumpsEnter(code) ==
  \A n \in 1..Len(code) : code[n].op = "JMP" => Entry(code, JumpTarget(code, n))
WellFormed(code) == PairsKept(code) /\ JumpsEnter(code)

(* A jump that waits to be patched is where the task remembers it, and the *)
(* start of a loop is an entry.                                            *)
TaskFits(code, task) ==
  /\ task.t \in {"ifThenEnd", "ifElseEnd", "whileEnd"} =>
       task.jmp < Len(code) /\ code[task.jmp + 1].op = "JMP"
  /\ task.t \in {"whileTest", "whileEnd"} => Entry(code, task.start + 1)
CodeFits(g) ==
  /\ WellFormed(g.instructions)
  /\ \A n \in 1..Len(g.todo) : TaskFits(g.instructions, g.todo[n])

(* Where the machine may go from position n.                               *)
Successors(code, n) ==
  CASE code[n].op \in {"RETURN", "RETURN0"} -> {}
    [] code[n].op = "JMP" -> {JumpTarget(code, n)}
    [] code[n].op \in {"TEST", "EQ", "LT", "LE"} -> {n + 2, JumpTarget(code, n + 1)}
    [] code[n].op \in {"ADD", "SUB", "MUL", "DIV"} -> {n + 1, n + 2}
    [] code[n].op = "LOADKX" -> {n + 2}
    [] OTHER -> {n + 1}

(* In a finished function no instruction leads outside its code: the       *)
(* machine, which checks no pc, runs it up to a return.                    *)
Closed(code) == \A n \in 1..Len(code) : Successors(code, n) \subseteq 1..Len(code)
ControlStays == \A p \in 1..Len(protos) : Closed(protos[p].code)

(* Nor does a jump separate a pair.                                        *)
CodeInv ==
  /\ CodeFits(Here)
  /\ \A n \in 1..Len(outer) : CodeFits(outer[n])
  /\ \A p \in 1..Len(protos) : WellFormed(protos[p].code) /\ Closed(protos[p].code)

----------------------------------------------------------------------------
(* What a reference in emitted code means does not change: while a         *)
(* generator works, its constants and functions only grow, and an          *)
(* instruction once emitted stays, except that a jump gets its target.     *)
IsPrefixOf(s, t) == Len(s) <= Len(t) /\ \A n \in 1..Len(s) : t[n] = s[n]
EmittedStays ==
  [][Len(outer') = Len(outer) =>
       /\ IsPrefixOf(constants, constants')
       /\ IsPrefixOf(functions, functions')
       /\ Len(instructions) <= Len(instructions')
       /\ \A n \in 1..Len(instructions) :
            \/ instructions'[n] = instructions[n]
            \/ instructions[n].op = "JMP" /\ instructions'[n].op = "JMP"]_vars

(* The functions of a chunk are a tree with the main function at its root: *)
(* each other one belongs to exactly one function, finished after it, so   *)
(* writeFunction's recursion ends and writes each exactly once.  Each asks *)
(* for a frame that holds its registers.                                   *)
References == UNION {{p} \X (1..Len(protos[p].functions)) : p \in 1..Len(protos)}
Tree ==
  outcome # "generating" =>
    \A child \in 1..Len(protos)-1 :
      \E r \in References :
        /\ protos[r[1]].functions[r[2]].proto = child /\ child < r[1]
        /\ \A q \in References :
             protos[q[1]].functions[q[2]].proto = child => q = r

(* The registers an instruction names lie in the frame the function asks   *)
(* for (maxStack, with the two writeFunction adds), if no local is         *)
(* declared inside an if, while or block.                                  *)
Registers(x) ==
  IF x.op \in {"MOVE", "ADD", "SUB", "MUL", "DIV"} THEN {x.a, x.b, x.c}
  ELSE IF x.op \in {"EQ", "LT", "LE"} THEN {x.a, x.b}
  ELSE IF x.op = "SETTABUP" THEN {x.c}
  ELSE IF x.op = "CALL" THEN x.a .. x.a + x.b - 1
  ELSE IF x.op \in {"LOADI", "LOADF", "LOADK", "LOADKX", "LOADTRUE", "LOADFALSE",
                    "GETTABUP", "CLOSURE", "TEST", "RETURN"} THEN {x.a}
  ELSE {}
FrameFits(p) ==
  \A n \in 1..Len(p.code) : \A r \in Registers(p.code[n]) : r < p.maxStack + STACK_EXTRA

(* Bare[s]: nothing in s declares; Flat[s]: nothing in an if, while or     *)
(* block of s does.                                                        *)
Declares(s) == s.kind \in {"decl", "func"}
AllOf(property, ss) == \A n \in 1..Len(ss) : property[ss[n]]
BareNode(bare, s) ==
  /\ ~Declares(s)
  /\ s.kind \in {"while", "block"} => AllOf(bare, s.body)
  /\ s.kind = "if" => AllOf(bare, s.then) /\ AllOf(bare, s.else)
Bare[s \in Stmt] == BareNode(Bare, s)
FlatNode(flat, s) ==
  /\ s.kind \in {"while", "block"} => AllOf(Bare, s.body)
  /\ s.kind = "if" => AllOf(Bare, s.then) /\ AllOf(Bare, s.else)
  /\ s.kind = "func" => AllOf(flat, s.body)
Flat[s \in Stmt] == FlatNode(Flat, s)

(* Statements are finite trees, so the recursions have a value.            *)
ASSUME FlatAssumption ==
  \A s \in Stmt : (Bare[s] <=> BareNode(Bare, s)) /\ (Flat[s] <=> FlatNode(Flat, s))

FramesFit == AllOf(Flat, program) => \A p \in 1..Len(protos) : FrameFits(protos[p])
PrototypesSound == Tree /\ FramesFit

(* The generator always ends, with a chunk or an exception.                *)
Terminates == <>(outcome # "generating")
=============================================================================
