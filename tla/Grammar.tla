------------------------------- MODULE Grammar -------------------------------
(***************************************************************************)
(* The grammar in the head of src/src/parser/parser.cj, with the if, while *)
(* and return of src/README.md 5.2: what a list of tokens may mean, read   *)
(* in every way the rules allow.  A reading of a nonterminal from place i  *)
(* is <<v, j>>: the tokens from i to j - 1 make the tree v.                *)
(*                                                                         *)
(* Nothing separates statements, and x - y could be two of them: a         *)
(* declaration is as long as it can be.                                    *)
(*                                                                         *)
(* Lists may be cut short: behind its end a list may go on in any way, so  *)
(* a prefix of a program has a reading, and what is no prefix of a program *)
(* has none.                                                               *)
(***************************************************************************)
EXTENDS Ast
LOCAL INSTANCE SequencesExt
LOCAL INSTANCE TLC

CONSTANT NumberOf     \* text of a NUMBER -> literal

Compare == [EQEQ |-> "EQ", NEQ |-> "NEQ", LT |-> "LT", LTE |-> "LTE", GT |-> "GT", GTE |-> "GTE"]
Additive == [PLUS |-> "ADD", MINUS |-> "SUB"]
Multiplicative == [STAR |-> "MUL", SLASH |-> "DIV"]
Operators == Compare @@ Additive @@ Multiplicative

Rests(ops, operand, rest) == {<<>>} \cup {<<op, operand, rest>> : op \in DOMAIN ops}

Rules == [
  program |-> {<<"declarations", "EOF">>},
  declarations |-> {<<>>, <<"declaration", "declarations">>},
  declaration |-> {<<"LET", "IDENTIFIER", "ASSIGN", "expression">>,
                   <<"VAR", "IDENTIFIER", "ASSIGN", "expression">>,
                   <<"FUNC", "IDENTIFIER", "LPAREN", "params", "RPAREN", "returnType", "block">>,
                   <<"if">>,
                   <<"WHILE", "LPAREN", "expression", "RPAREN", "block">>,
                   <<"RETURN", "expression">>,
                   <<"block">>,
                   <<"IDENTIFIER", "ASSIGN", "expression">>,
                   <<"expression">>},
  params |-> {<<>>, <<"param", "moreParams">>},
  moreParams |-> {<<>>, <<"COMMA", "param", "moreParams">>},
  param |-> {<<"IDENTIFIER", "COLON", "IDENTIFIER">>},
  returnType |-> {<<>>, <<"COLON", "IDENTIFIER">>},
  block |-> {<<"LBRACE", "declarations", "RBRACE">>},
  if |-> {<<"IF", "LPAREN", "expression", "RPAREN", "block", "else">>},
  else |-> {<<>>, <<"ELSE", "block">>, <<"ELSE", "if">>},
  expression |-> {<<"addition", "comparisons">>},
  comparisons |-> Rests(Compare, "addition", "comparisons"),
  addition |-> {<<"multiplication", "additions">>},
  additions |-> Rests(Additive, "multiplication", "additions"),
  multiplication |-> {<<"unary", "multiplications">>},
  multiplications |-> Rests(Multiplicative, "unary", "multiplications"),
  unary |-> {<<"MINUS", "unary">>, <<"primary">>},
  primary |-> {<<"NUMBER">>, <<"TRUE">>, <<"FALSE">>, <<"IDENTIFIER">>,
               <<"IDENTIFIER", "LPAREN", "args", "RPAREN">>,
               <<"LPAREN", "expression", "RPAREN">>},
  args |-> {<<>>, <<"expression", "moreArgs">>},
  moreArgs |-> {<<>>, <<"COMMA", "expression", "moreArgs">>}]

Lists == {"program", "declarations", "params", "moreParams", "block", "else",
          "comparisons", "additions", "multiplications", "args", "moreArgs"}

LeftToRight(operand, rest) == FoldLeft(LAMBDA l, r : Bin(r[1], l, r[2]), operand, rest)

(* The tree of a rule, from the trees and texts c of its parts.            *)
Tree(nt, rule, c) ==
  CASE nt = "program" -> c[1]
    [] nt \in {"declarations", "args", "params"} -> IF c = <<>> THEN <<>> ELSE <<c[1]>> \o c[2]
    [] nt \in {"moreArgs", "moreParams"} -> IF c = <<>> THEN <<>> ELSE <<c[2]>> \o c[3]
    [] nt \in {"comparisons", "additions", "multiplications"} ->
         IF c = <<>> THEN <<>> ELSE <<<<Operators[rule[1]], c[2]>>>> \o c[3]
    [] nt = "declaration" ->
         (CASE rule[1] \in {"LET", "VAR"} -> Decl(c[2], c[4])
           [] rule[1] = "FUNC" -> Func(c[2], c[4], c[7])
           [] rule[1] = "if" -> c[1]
           [] rule[1] = "WHILE" -> WhileS(c[3], c[5])
           [] rule[1] = "RETURN" -> Ret(c[2])
           [] rule[1] = "block" -> BlockS(c[1])
           [] rule[1] = "IDENTIFIER" -> Set(c[1], c[3])
           [] rule[1] = "expression" -> ExprS(c[1]))
    [] nt = "param" -> c[1]
    [] nt = "returnType" -> IF c = <<>> THEN "" ELSE c[2]
    [] nt = "block" -> c[2]
    [] nt = "if" -> IfS(c[3], c[5], c[6])
    [] nt = "else" -> IF rule = <<>> THEN <<>>
                      ELSE IF rule[2] = "if" THEN <<c[2]>> ELSE c[2]
    [] nt \in {"expression", "addition", "multiplication"} -> LeftToRight(c[1], c[2])
    [] nt = "unary" -> IF rule[1] = "primary" THEN c[1]
                       ELSE IF c[2].kind = "int" THEN I(-c[2].int)
                       ELSE IF c[2].kind = "flt" THEN F(-c[2].num, c[2].den)
                       ELSE Bin("SUB", I(0), c[2])
    [] nt = "primary" ->
         CASE rule[1] = "NUMBER" -> NumberOf[c[1]]
           [] rule[1] \in {"TRUE", "FALSE"} -> B(rule[1] = "TRUE")
           [] rule = <<"IDENTIFIER">> -> V(c[1])
           [] Len(rule) = 4 -> CallE(c[1], c[3])
           [] rule[1] = "LPAREN" -> c[2]

RECURSIVE Readings(_, _, _), Parts(_, _, _, _)

(* The readings of the parts of a rule, after the trees in front.          *)
Parts(ts, parts, front, i) ==
  IF parts = <<>> THEN {<<front, i>>}
  ELSE LET part == Head(parts)
           first == IF part \in DOMAIN Rules THEN Readings(ts, part, i)
                    ELSE IF i > Len(ts) THEN {<<"", i>>}
                    ELSE IF ts[i].t = part THEN {<<ts[i].text, i + 1>>} ELSE {}
       IN UNION {Parts(ts, Tail(parts), Append(front, r[1]), r[2]) : r \in first}

Readings(ts, nt, i) ==
  IF i > Len(ts) THEN {<<IF nt \in Lists THEN <<>>
                         ELSE IF nt \in {"param", "returnType"} THEN "" ELSE I(0), i>>}
  ELSE LET all == UNION {{<<Tree(nt, rule, p[1]), p[2]>> : p \in Parts(ts, rule, <<>>, i)} :
                           rule \in Rules[nt]}
       IN IF nt = "declaration" THEN {r \in all : \A q \in all : q[2] <= r[2]} ELSE all

Programs(ts) == {r[1] : r \in Readings(ts, "program", 1)}
=============================================================================
