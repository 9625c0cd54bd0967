------------------------------- MODULE Parser -------------------------------
(***************************************************************************)
(* The parser, src/src/parser/parser.cj: recursive descent over a list of  *)
(* tokens.  todo holds the calls still to make, the next one first; what   *)
(* they return is on vals, the last one first, statements in a row as a    *)
(* block, a name as its token.  An action runs a function up to its first  *)
(* call, and leaves the rest of it in todo.                                *)
(*                                                                         *)
(* A token is its type and its text.  Where the code reports a line, error *)
(* has the place of the token whose line it is.                            *)
(***************************************************************************)
EXTENDS Ast

CONSTANTS
  TokenLists,   \* the lists of tokens to parse, each with EOF last
  NumberValue   \* text of a NUMBER -> literal, or Overflow where Int64.parse throws

VARIABLES tokens, pos, error, varTypes, functionReturnTypes, todo, vals,
  outcome   \* "parsing", "accepted" with the statements on vals, "rejected" or "exception"

vars == <<tokens, pos, error, varTypes, functionReturnTypes, todo, vals, outcome>>

None == [what |-> "none", at |-> 0]
Overflow == [kind |-> "overflow"]
NoTypes == [x \in {} |-> "Unknown"]
CompareTokens == [EQEQ |-> "EQ", NEQ |-> "NEQ", LT |-> "LT", LTE |-> "LTE",
                  GT |-> "GT", GTE |-> "GTE"]
AddTokens == [PLUS |-> "ADD", MINUS |-> "SUB"]
MulTokens == [STAR |-> "MUL", SLASH |-> "DIV"]

----------------------------------------------------------------------------
(* Tokens.  After the last token there is the last token again.            *)

Place(p) == IF p < Len(tokens) THEN p + 1 ELSE Len(tokens)
current == tokens[Place(pos)]
peek == tokens[Place(pos + 1)]
check(type) == current.t = type
advance == pos' = pos + 1
Fail(what, p) == error' = IF error = None THEN [what |-> what, at |-> Place(p)] ELSE error

----------------------------------------------------------------------------
(* Types, as far as conditions need them.                                  *)

inferExprType(e) ==
  CASE e.kind \in {"int", "flt"} -> "Number"
    [] e.kind = "bool" -> "Bool"
    [] e.kind = "var" -> IF e.name \in DOMAIN varTypes THEN varTypes[e.name] ELSE "Unknown"
    [] e.kind = "call" ->
         IF e.name \notin DOMAIN functionReturnTypes THEN "Unknown"
         ELSE IF functionReturnTypes[e.name] = "Bool" THEN "Bool" ELSE "Number"
    [] e.kind = "bin" ->
         IF \E t \in DOMAIN CompareTokens : CompareTokens[t] = e.op THEN "Bool" ELSE "Number"

With(types, x, type) == [y \in DOMAIN types \cup {x} |-> IF y = x THEN type ELSE types[y]]

----------------------------------------------------------------------------
(* Calls and values.                                                       *)

Call(f) == [f |-> f]
expression == Call("comparison")
Consume(type) == [f |-> "consume", type |-> type, keep |-> FALSE]
ConsumeText(type) == [f |-> "consume", type |-> type, keep |-> TRUE]
Several(f, n) == [f |-> f, n |-> n]      \* with n values so far
Reduce(op) == [f |-> "binary", op |-> op]

At(f) == todo # <<>> /\ Head(todo).f = f
Then(calls) == todo' = calls \o Tail(todo)
Push(v) == vals' = <<v>> \o vals
(* The last n values become v.                                             *)
Replace(n, v) == vals' = <<v>> \o SubSeq(vals, n + 1, Len(vals))
(* The last n values, the first of them first.                             *)
LastVals(n) == [j \in 1..n |-> vals[n + 1 - j]]

SameTypes == UNCHANGED <<varTypes, functionReturnTypes>>
Only == UNCHANGED <<tokens, error, outcome>> /\ SameTypes
Stay == UNCHANGED <<pos, vals>> /\ Only

Init ==
  /\ tokens \in TokenLists
  /\ pos = 0 /\ error = None /\ outcome = "parsing"
  /\ varTypes = NoTypes /\ functionReturnTypes = NoTypes
  /\ todo = <<Several("program", 0)>> /\ vals = <<>>

(* A slip: the error is forgotten when the token is there after all.       *)
consumeForgets ==
  /\ At("consume")
  /\ IF check(Head(todo).type) THEN error' = None ELSE Fail("token", pos)
  /\ IF Head(todo).keep THEN Push(current) ELSE UNCHANGED vals
  /\ advance /\ Then(<<>>)
  /\ UNCHANGED <<tokens, outcome>> /\ SameTypes

(* A slip: the line is taken after the token has been passed.              *)
consumeLate ==
  /\ At("consume")
  /\ IF check(Head(todo).type) THEN UNCHANGED error ELSE Fail("token", pos + 1)
  /\ IF Head(todo).keep THEN Push(current) ELSE UNCHANGED vals
  /\ advance /\ Then(<<>>)
  /\ UNCHANGED <<tokens, outcome>> /\ SameTypes

consume ==
  /\ At("consume")
  /\ IF check(Head(todo).type) THEN UNCHANGED error ELSE Fail("token", pos)
  /\ IF Head(todo).keep THEN Push(current) ELSE UNCHANGED vals
  /\ advance /\ Then(<<>>)
  /\ UNCHANGED <<tokens, outcome>> /\ SameTypes

----------------------------------------------------------------------------
(* Declarations and statements.                                            *)

parse ==
  /\ At("program")
  /\ LET n == Head(todo).n
     IN \/ error # None /\ outcome' = "rejected" /\ todo' = <<>> /\ UNCHANGED vals
        \/ /\ error = None /\ check("EOF")
           /\ outcome' = "accepted" /\ todo' = <<>> /\ Replace(n, BlockS(LastVals(n)))
        \/ /\ error = None /\ ~check("EOF")
           /\ Then(<<Call("declaration"), Several("program", n + 1)>>)
           /\ UNCHANGED <<outcome, vals>>
  /\ UNCHANGED <<tokens, pos, error>> /\ SameTypes

parseDeclaration ==
  /\ At("declaration")
  /\ Then(<<Call(IF check("LET") \/ check("VAR") THEN "varDecl"
                 ELSE IF check("FUNC") THEN "funcDecl" ELSE "statement")>>)
  /\ Stay

parseVarDecl ==
  /\ At("varDecl")
  /\ advance
  /\ Then(<<ConsumeText("IDENTIFIER"), Consume("ASSIGN"), expression, Call("declare")>>)
  /\ UNCHANGED vals /\ Only

(* The end of parseVarDecl, and of an assignment.                          *)
SetType == varTypes' = With(varTypes, vals[2].text, inferExprType(vals[1]))
Declare ==
  /\ At("declare") /\ Then(<<>>)
  /\ SetType /\ Replace(2, Decl(vals[2].text, vals[1]))
  /\ UNCHANGED <<tokens, pos, error, functionReturnTypes, outcome>>
Assign ==
  /\ At("assign") /\ Then(<<>>)
  /\ SetType /\ Replace(2, Set(vals[2].text, vals[1]))
  /\ UNCHANGED <<tokens, pos, error, functionReturnTypes, outcome>>

parseFuncDecl ==
  /\ At("funcDecl")
  /\ Then(<<Consume("FUNC"), ConsumeText("IDENTIFIER"), Consume("LPAREN"), Call("params")>>)
  /\ Stay

BodyOf(n) == <<Consume("LBRACE"), Several("block", 0), Consume("RBRACE"), Several("func", n)>>
AfterParams(n) == <<Consume("RPAREN"), Several("returnType", n)>>

Params ==
  /\ At("params")
  /\ Then(IF check("RPAREN") THEN AfterParams(0)
          ELSE <<ConsumeText("IDENTIFIER"), Several("paramType", 1)>>)
  /\ Stay

(* After the n-th parameter's name: its type; without one, tokens are      *)
(* skipped up to one of stops.                                             *)
ParamTypeOr(stops) ==
  /\ At("paramType")
  /\ \/ /\ check("COLON")
        /\ advance /\ UNCHANGED error
        /\ Then(<<Consume("IDENTIFIER"), Several("nextParam", Head(todo).n)>>)
     \/ /\ ~check("COLON")
        /\ Fail("annotation", pos - 1)
        /\ \E p \in pos..(pos + Len(tokens)) :
             /\ tokens[Place(p)].t \in stops
             /\ \A q \in pos..p-1 : tokens[Place(q)].t \notin stops
             /\ pos' = p
        /\ Then(<<Several("nextParam", Head(todo).n)>>)
  /\ UNCHANGED <<tokens, vals, outcome>> /\ SameTypes
(* A slip: the end of the tokens does not stop it.                         *)
ParamTypeForever == ParamTypeOr({"COMMA", "RPAREN"})
ParamType == ParamTypeOr({"COMMA", "RPAREN", "EOF"})

NextParam ==
  /\ At("nextParam")
  /\ LET n == Head(todo).n
     IN IF check("COMMA")
        THEN /\ advance
             /\ Then(<<ConsumeText("IDENTIFIER"), Several("paramType", n + 1)>>)
        ELSE Then(AfterParams(n)) /\ UNCHANGED pos
  /\ UNCHANGED vals /\ Only

ReturnType ==
  /\ At("returnType")
  /\ LET n == Head(todo).n
     IN IF check("COLON")
        THEN advance /\ Then(<<ConsumeText("IDENTIFIER"), Several("setReturnType", n)>>)
        ELSE Then(BodyOf(n)) /\ UNCHANGED pos
  /\ UNCHANGED vals /\ Only

SetReturnType ==
  /\ At("setReturnType")
  /\ LET n == Head(todo).n
     IN /\ functionReturnTypes' = With(functionReturnTypes, vals[n + 2].text, vals[1].text)
        /\ Then(BodyOf(n))
  /\ vals' = Tail(vals)
  /\ UNCHANGED <<tokens, pos, error, varTypes, outcome>>

FuncEnd ==
  /\ At("func") /\ Then(<<>>)
  /\ LET n == Head(todo).n
         names == [j \in 1..n |-> vals[n + 2 - j].text]
     IN Replace(n + 2, Func(vals[n + 2].text, names, vals[1].body))
  /\ UNCHANGED pos /\ Only

parseStatement ==
  /\ At("statement")
  /\ IF check("LBRACE")
     THEN /\ advance
          /\ Then(<<Several("block", 0), Consume("RBRACE")>>)
     ELSE /\ UNCHANGED pos
          /\ Then(<<Call(IF check("IF") THEN "if" ELSE IF check("WHILE") THEN "while"
                         ELSE IF check("RETURN") THEN "return" ELSE "exprOrAssignment")>>)
  /\ UNCHANGED vals /\ Only

Braces == <<Consume("LBRACE"), Several("block", 0), Consume("RBRACE")>>
Condition == <<Consume("LPAREN"), expression, Call("condition"), Consume("RPAREN")>>

parseIfStmt ==
  /\ At("if")
  /\ Then(<<Consume("IF")>> \o Condition \o Braces \o <<Call("else")>>)
  /\ Stay

ConditionIsBool ==
  /\ At("condition") /\ Then(<<>>)
  /\ IF inferExprType(vals[1]) # "Bool" THEN Fail("condition", pos) ELSE UNCHANGED error
  /\ UNCHANGED <<tokens, pos, vals, outcome>> /\ SameTypes

(* An else that is followed by neither { nor if has no branch.             *)
Else ==
  /\ At("else")
  /\ \/ /\ check("ELSE") /\ peek.t = "LBRACE"
        /\ pos' = pos + 2 /\ UNCHANGED vals
        /\ Then(<<Several("block", 0), Consume("RBRACE"), Call("ifEnd")>>)
     \/ /\ check("ELSE") /\ peek.t = "IF"
        /\ advance /\ UNCHANGED vals
        /\ Then(<<Call("if"), Call("elseIf"), Call("ifEnd")>>)
     \/ /\ check("ELSE") /\ peek.t \notin {"LBRACE", "IF"}
        /\ advance /\ Push(BlockS(<<>>))
        /\ Then(<<Call("ifEnd")>>)
     \/ /\ ~check("ELSE") /\ UNCHANGED pos /\ Push(BlockS(<<>>))
        /\ Then(<<Call("ifEnd")>>)
  /\ Only

ElseIf == At("elseIf") /\ Then(<<>>) /\ Replace(1, BlockS(<<vals[1]>>)) /\ UNCHANGED pos /\ Only
IfEnd == At("ifEnd") /\ Then(<<>>) /\ Replace(3, IfS(vals[3], vals[2].body, vals[1].body))
           /\ UNCHANGED pos /\ Only

parseWhileStmt ==
  /\ At("while")
  /\ Then(<<Consume("WHILE")>> \o Condition \o Braces \o <<Call("whileEnd")>>)
  /\ Stay
WhileEnd == At("whileEnd") /\ Then(<<>>) /\ Replace(2, WhileS(vals[2], vals[1].body))
              /\ UNCHANGED pos /\ Only

parseReturnStmt ==
  /\ At("return") /\ Then(<<Consume("RETURN"), expression, Call("returnEnd")>>) /\ Stay
ReturnEnd == At("returnEnd") /\ Then(<<>>) /\ Replace(1, Ret(vals[1])) /\ UNCHANGED pos /\ Only

parseBlock ==
  /\ At("block")
  /\ LET n == Head(todo).n
     IN IF check("RBRACE") \/ check("EOF")
        THEN Then(<<>>) /\ Replace(n, BlockS(LastVals(n)))
        ELSE Then(<<Call("declaration"), Several("block", n + 1)>>) /\ UNCHANGED vals
  /\ UNCHANGED pos /\ Only

parseExprOrAssignmentStmt ==
  /\ At("exprOrAssignment")
  /\ IF check("IDENTIFIER") /\ peek.t = "ASSIGN"
     THEN pos' = pos + 2 /\ Push(current) /\ Then(<<expression, Call("assign")>>)
     ELSE UNCHANGED <<pos, vals>> /\ Then(<<expression, Call("exprEnd")>>)
  /\ Only
ExprEnd == At("exprEnd") /\ Then(<<>>) /\ Replace(1, ExprS(vals[1])) /\ UNCHANGED pos /\ Only

----------------------------------------------------------------------------
(* Expressions.  A level reads an operand, then operators with operands.   *)

Level(f, operand) == At(f) /\ Then(<<Call(operand), Call(f \o "Rest")>>) /\ Stay
(* A slip: the operator takes all that follows for its right operand.      *)
RestRight(f, operand, ops) ==
  /\ At(f \o "Rest")
  /\ IF current.t \in DOMAIN ops
     THEN advance /\ Then(<<Call(f), Reduce(ops[current.t])>>)
     ELSE UNCHANGED pos /\ Then(<<>>)
  /\ UNCHANGED vals /\ Only

Rest(f, operand, ops) ==
  /\ At(f \o "Rest")
  /\ IF current.t \in DOMAIN ops
     THEN advance /\ Then(<<Call(operand), Reduce(ops[current.t]), Call(f \o "Rest")>>)
     ELSE UNCHANGED pos /\ Then(<<>>)
  /\ UNCHANGED vals /\ Only
parseComparison == Level("comparison", "addition") \/ Rest("comparison", "addition", CompareTokens)
parseAddition == Level("addition", "multiplication") \/ Rest("addition", "multiplication", AddTokens)
parseMultiplication == Level("multiplication", "unary") \/ Rest("multiplication", "unary", MulTokens)
Binary == At("binary") /\ Then(<<>>) /\ Replace(2, Bin(Head(todo).op, vals[2], vals[1]))
            /\ UNCHANGED pos /\ Only

parseUnary ==
  /\ At("unary")
  /\ IF check("MINUS") THEN advance /\ Then(<<Call("unary"), Call("negate")>>)
                       ELSE UNCHANGED pos /\ Then(<<Call("primary")>>)
  /\ UNCHANGED vals /\ Only
Negate ==
  /\ At("negate") /\ Then(<<>>)
  /\ LET e == vals[1]
     IN Replace(1, CASE e.kind = "int" -> I(-e.int)
                     [] e.kind = "flt" -> F(-e.num, e.den)
                     [] OTHER -> Bin("SUB", I(0), e))
  /\ UNCHANGED pos /\ Only

Literal ==
  /\ At("primary") /\ current.t \in {"NUMBER", "TRUE", "FALSE"}
  /\ IF check("NUMBER") /\ NumberValue[current.text] = Overflow
     THEN outcome' = "exception" /\ todo' = <<>> /\ UNCHANGED vals
     ELSE /\ Push(IF check("NUMBER") THEN NumberValue[current.text] ELSE B(check("TRUE")))
          /\ Then(<<>>) /\ UNCHANGED outcome
  /\ advance /\ UNCHANGED <<tokens, error>> /\ SameTypes

(* An identifier, alone or called; the name of the called one is on vals.  *)
Identifier ==
  /\ At("primary") /\ check("IDENTIFIER")
  /\ IF peek.t = "LPAREN"
     THEN pos' = pos + 2 /\ Push(current) /\ Then(<<Several("args", 0)>>)
     ELSE advance /\ Push(V(current.text)) /\ Then(<<>>)
  /\ Only
Args ==
  /\ At("args")
  /\ LET n == Head(todo).n
         End == <<Consume("RPAREN"), Several("callEnd", n)>>
         More == <<expression, Several("args", n + 1)>>
     IN \/ n = 0 /\ Then(IF check("RPAREN") THEN End ELSE More) /\ UNCHANGED pos
        \/ n > 0 /\ check("COMMA") /\ advance /\ Then(More)
        \/ n > 0 /\ ~check("COMMA") /\ Then(End) /\ UNCHANGED pos
  /\ UNCHANGED vals /\ Only
CallEnd ==
  /\ At("callEnd") /\ Then(<<>>)
  /\ LET n == Head(todo).n IN Replace(n + 1, CallE(vals[n + 1].text, LastVals(n)))
  /\ UNCHANGED pos /\ Only

Parentheses ==
  /\ At("primary") /\ check("LPAREN")
  /\ advance /\ Then(<<expression, Consume("RPAREN")>>) /\ UNCHANGED vals /\ Only

Unexpected ==
  /\ At("primary")
  /\ current.t \notin {"NUMBER", "TRUE", "FALSE", "IDENTIFIER", "LPAREN"}
  /\ Fail("unexpected", pos) /\ advance /\ Push(I(0)) /\ Then(<<>>)
  /\ UNCHANGED <<tokens, outcome>> /\ SameTypes
parsePrimary == Literal \/ Identifier \/ Args \/ CallEnd \/ Parentheses \/ Unexpected

Next ==
  \/ parse \/ consume \/ parseDeclaration \/ parseVarDecl \/ Declare \/ Assign
  \/ parseFuncDecl \/ Params \/ ParamType \/ NextParam \/ ReturnType \/ SetReturnType
  \/ FuncEnd \/ parseStatement \/ parseIfStmt \/ ConditionIsBool \/ Else
  \/ ElseIf \/ IfEnd \/ parseWhileStmt \/ WhileEnd \/ parseReturnStmt \/ ReturnEnd
  \/ parseBlock \/ parseExprOrAssignmentStmt \/ ExprEnd
  \/ parseComparison \/ parseAddition \/ parseMultiplication \/ Binary
  \/ parseUnary \/ Negate \/ parsePrimary

Spec == Init /\ [][Next]_vars /\ WF_vars(Next)

(* Once there is an error it stays the same one to the end, and the list   *)
(* is not accepted (the _error guards, 73, 139, 203, 236, 394).            *)
ErrorStays == [][error # None => error' = error /\ outcome' # "accepted"]_vars
=============================================================================
