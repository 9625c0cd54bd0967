----------------------------- MODULE MCPipeline -----------------------------
(***************************************************************************)
(* Programs for the pipeline.  TamePrograms leaves out the shapes the      *)
(* generator is known to get wrong (README, "Register hazards"); they are  *)
(* the sets of programs after it, each with a property, a finding.         *)
(***************************************************************************)
EXTENDS Pipeline, MCCodeGen

----------------------------------------------------------------------------
(* Tame programs.                                                          *)

Arithmetic(e) == e.kind = "bin" /\ e.op \in ArithOps

RECURSIVE Mentions(_, _), CleanExpr(_), SpineOk(_, _, _), Tame(_, _, _)

Mentions(e, x) ==
  CASE e.kind = "var" -> e.name = x
    [] e.kind = "bin" -> Mentions(e.left, x) \/ Mentions(e.right, x)
    [] e.kind = "call" -> \E j \in 1..Len(e.args) : Mentions(e.args[j], x)
    [] OTHER -> FALSE

(* Only the last argument of a nested call may leave currentStack raised.  *)
CleanExpr(e) ==
  /\ e.kind = "bin" => CleanExpr(e.left) /\ CleanExpr(e.right)
  /\ e.kind = "call" =>
       \A j \in 1..Len(e.args) :
         CleanExpr(e.args[j]) /\ (j < Len(e.args) => ~Arithmetic(e.args[j]))

(* e is compiled into the register of x, which is not read once written,   *)
(* and the registers above it are free if the leftmost operand needs them. *)
SpineOk(e, x, last) ==
  IF Arithmetic(e) THEN ~Mentions(e.right, x) /\ SpineOk(e.left, x, last)
  ELSE IF e.kind = "call" THEN last /\ ~Mentions(e, x)
  ELSE IF e.kind = "bin" THEN last
  ELSE TRUE

(* names: the locals so far; flat: declarations are allowed here.          *)
Tame(ss, names, flat) ==
  \/ ss = <<>>
  \/ LET s == Head(ss)
         known == \E j \in 1..Len(names) : names[j] = s.name
         last == names # <<>> /\ names[Len(names)] = s.name
         after == IF s.kind \in {"decl", "func"} THEN Append(names, s.name) ELSE names
     IN /\ CASE s.kind = "decl" ->
                  flat /\ ~known /\ CleanExpr(s.expr) /\ ~Mentions(s.expr, s.name)
             [] s.kind = "assign" ->
                  CleanExpr(s.expr) /\ (known => SpineOk(s.expr, s.name, last))
             [] s.kind = "return" -> CleanExpr(s.expr)
             [] s.kind = "expr" ->
                  IF s.expr.kind = "call"
                  THEN \A j \in 1..Len(s.expr.args) : CleanExpr(s.expr.args[j])
                  ELSE CleanExpr(s.expr)
             [] s.kind = "if" -> /\ CleanExpr(s.cond)
                                 /\ Tame(s.then, names, FALSE) /\ Tame(s.else, names, FALSE)
             [] s.kind = "while" -> CleanExpr(s.cond) /\ Tame(s.body, names, FALSE)
             [] s.kind = "block" -> Tame(s.body, names, FALSE)
             [] s.kind = "func" -> flat /\ ~known /\ Tame(s.body, s.params, TRUE)
        /\ Tame(Tail(ss), after, flat)

TamePrograms == {p \in Candidates : Tame(p, <<>>, TRUE)}

(* TLC evaluates a definition once, but the body of one that a cfg gives   *)
(* a constant each time: hence the two names.                              *)
MCNames == SampleNames
MCPrograms == TamePrograms
MCStmt == AnyStmt
MCExpr == AnyExpr

----------------------------------------------------------------------------
(* Programs on which the compiler does not do what its comments, tests and *)
(* README say of it.                                                       *)

FindingNames == {"a", "b", "p", "q", "add", "println"}

(* tests/73_just_add.scj: b is overwritten with a before it is read.       *)
AliasPrograms == {
  <<Decl("a", I(5)), Decl("b", I(0)), Set("b", Bin("ADD", V("a"), V("b"))),
    PrintS(V("a")), PrintS(V("b"))>>}

(* An arithmetic argument before the last.                                 *)
ArgumentPrograms == {
  <<Func("add", <<"p", "q">>, <<Ret(Bin("ADD", V("p"), V("q")))>>),
    Decl("a", CallE("add", <<Bin("MUL", I(2), I(3)), I(4)>>)), Ret(V("a"))>>}

(* In the argument loop of generateExpr the next argument goes where CALL  *)
(* expects it: right after the function and the arguments before it.       *)
ArgumentsContiguous ==
  At("callExpr") =>
    currentStack + Task1.inc = Task1.func + 1 + Task1.n - Len(Task1.args)

(* Four conditionals that declare a variable each: every one gets a new    *)
(* register, but the stack depth is reset after each.                      *)
FramePrograms == {
  [n \in 1..4 |-> IfS(B(TRUE), <<Decl(<<"a", "b", "p", "q">>[n], I(n))>>, <<>>)]}

(* The frame a function asks for holds every register it names.            *)
FrameHoldsRegisters == \A p \in 1..Len(protos) : FrameFits(protos[p])

(* Two small fractions with the same six decimals.                         *)
FloatPrograms == {<<Decl("a", F(1, 10000000)), Decl("b", F(2, 10000000)), Ret(V("b"))>>}

(* A float literal is loaded from a constant of its value.                 *)
LoadsItsLiteral ==
  [][FloatLiteral =>
       LET x == instructions'[Len(instructions')]
       IN x.op = "LOADK" =>
            constants'[x.b + 1] = fltConstant(Task1.e.num, Task1.e.den)]_vars

(* As many statements a = a - 1 as registers: each one keeps a register.   *)
LeakPrograms == {
  <<Decl("a", I(0))>> \o [n \in 1..254 |-> Set("a", Bin("SUB", V("a"), I(1)))]}

(* The generator hands over a chunk and throws no exception.               *)
NoException == outcome # "exception"

(* A function with a name the virtual machine interns as a long string.    *)
LongNamePrograms == {
  <<Func("add", <<"p">>, <<Ret(V("p"))>>), PrintS(CallE("add", <<I(1)>>))>>}

(* More integer constants than LOADK can number.                           *)
ManyConstants == {
  <<Decl("a", I(40000)), Decl("b", I(40001)), Decl("p", I(40002)), Ret(V("p"))>>}

(* A comparison, and a call, assigned to a local with others after it.     *)
ComparePrograms == {
  <<Decl("a", I(0)), Decl("b", I(1)), Decl("p", I(2)), Set("a", Bin("LT", V("p"), V("b"))),
    PrintS(V("a")), PrintS(V("b"))>>}
CallPrograms == {
  <<Func("add", <<"p">>, <<Ret(V("p"))>>), Decl("a", I(0)), Decl("b", I(1)),
    Set("a", CallE("add", <<I(2)>>)), PrintS(V("b"))>>}

(* A name that comes after as many other constants as an operand can tell  *)
(* apart, 16 here.                                                         *)
ManyNames == {
  <<Func("add", <<"p">>, <<Ret(V("p"))>>), Decl("a", I(0))>>
    \o [n \in 1..15 |-> Set("a", I(40000 + n))] \o <<PrintS(V("a"))>>}

FindingPrograms == AliasPrograms \cup ArgumentPrograms \cup FramePrograms
                 \cup FloatPrograms \cup LeakPrograms \cup LongNamePrograms
                 \cup ManyConstants \cup ComparePrograms \cup CallPrograms
                 \cup ManyNames
AllExpr == ExprsOf(FindingPrograms)
AllStmt == StmtsOf(FindingPrograms)
FindingExpr == AllExpr
FindingStmt == AllStmt
=============================================================================
