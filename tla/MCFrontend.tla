----------------------------- MODULE MCFrontend ----------------------------
(***************************************************************************)
(* Every short text over four alphabets, read and parsed; and every short  *)
(* list of tokens over three, and every list one token away from one of    *)
(* the programs below, parsed.  Or the tests of MCTester are run: the      *)
(* front end and the test runner are checked in one run, one or the other. *)
(***************************************************************************)
EXTENDS Frontend, MCTester, SequencesExt

T(type) == [t |-> type, text |-> type]
Id(x) == [t |-> "IDENTIFIER", text |-> x]
Num(s) == [t |-> "NUMBER", text |-> s]
MCLetters == {"i", "f", "x"}
MCDigits == {"1"}
MCKeywords == [t \in {<<"i", "f">>} |-> "IF"]
Texts(alphabet, n) == UNION {[1..k -> alphabet] : k \in 0..n}
MCSources == Texts({"i", "f", "/", "=", "!", "@", " ", "LF"}, 4)
               \cup Texts({"/", "LF", "i", "CR"}, 5) \cup Texts({"1", ".", "i", "LF"}, 5)
               \cup Texts({"x", "1", "(", ")", "-", "*", "<", ","}, 3)
NulSources == Texts({"i", "LF", "NUL"}, 4)

Numbers == {<<"1">> \o t : t \in Texts({"1", "."}, 4)}
MCNumberValue ==
  "0.5" :> F(1, 2) @@ "9..9" :> Overflow
    @@ [s \in {NameOf(t) : t \in {n \in Numbers : ~Contains(n, ".")}} |-> I(1)]
    @@ [s \in {NameOf(t) : t \in {n \in Numbers : Contains(n, ".")}} |-> F(1, 2)]
NumberOf == [s \in DOMAIN MCNumberValue |->
               IF MCNumberValue[s] = Overflow THEN I(0) ELSE MCNumberValue[s]]
Ts(types) == [j \in 1..Len(types) |-> T(types[j])]

If == Ts(<<"IF", "LPAREN">>)
Do == Ts(<<"RPAREN", "LBRACE">>)
End == Ts(<<"RBRACE">>)
Else_ == Ts(<<"ELSE">>)
While_ == Ts(<<"WHILE", "LPAREN">>)
Let(x) == <<T("LET"), Id(x), T("ASSIGN")>>
Sets(x) == <<Id(x), T("ASSIGN")>>
Fun(f) == <<T("FUNC"), Id(f), T("LPAREN")>>
Param(x) == <<Id(x), T("COLON"), Id("Bool")>>
Bool == <<T("COLON"), Id("Bool")>>
CallOf(f) == <<Id(f), T("LPAREN")>>
Less == Ts(<<"LT">>)
One == <<Num("1")>>

(* Conditions that hang on what was said before them; functions; branches. *)
Programs ==
  { Let("x") \o Ts(<<"TRUE">>) \o If \o <<Id("x")>> \o Do \o Sets("x") \o One \o End
      \o Else_ \o If \o <<Id("x")>> \o Less \o One \o Do \o End
      \o Else_ \o Ts(<<"LBRACE">>) \o <<Id("x")>> \o End,
    Fun("f") \o Param("x") \o <<T("COMMA")>> \o Param("y") \o Ts(<<"RPAREN">>) \o Bool
      \o Ts(<<"LBRACE">>) \o While_ \o CallOf("f") \o <<Id("x"), T("COMMA")>> \o One
      \o Ts(<<"RPAREN">>) \o Do \o Ts(<<"RETURN", "TRUE">>) \o End \o End
      \o If \o CallOf("f") \o Ts(<<"RPAREN">>) \o Do \o End,
    While_ \o Ts(<<"TRUE">>) \o Do \o Let("y") \o Ts(<<"LPAREN", "MINUS">>) \o One
      \o Ts(<<"PLUS">>) \o One \o Ts(<<"RPAREN", "STAR", "MINUS">>) \o <<Id("x")>> \o End
      \o Sets("y") \o One \o Ts(<<"EQEQ">>) \o One \o If \o <<Id("y")>> \o Do \o End
      \o CallOf("f") \o Ts(<<"RPAREN">>),
    Ts(<<"LBRACE", "LET">>) \o Sets("y") \o <<Num("9..9")>> \o Ts(<<"SLASH">>)
      \o <<Num("0.5")>> \o End }

(* What a function says of its y decides a condition behind it, and an     *)
(* else has no branch.                                                     *)
NotLegal ==
  Let("y") \o One \o Fun("f") \o Do \o Let("y") \o Ts(<<"TRUE">>) \o End
    \o If \o <<Id("y")>> \o Do \o End \o Else_

SomeTokens == {T(x) : x \in {"LET", "ELSE", "RPAREN", "LBRACE", "RBRACE", "COLON", "MINUS"}}
                \cup {Id("x")}
Without(s, j) == SubSeq(s, 1, j - 1) \o SubSeq(s, j + 1, Len(s))
Near(s) == {s} \cup {Without(s, j) : j \in 1..Len(s)}
               \cup {[s EXCEPT ![j] = t] : j \in 1..Len(s), t \in SomeTokens}
               \cup {SubSeq(s, 1, j) : j \in 0..Len(s)}
Short(alphabet, n) == UNION {[1..k -> alphabet] : k \in 0..n}

Ended(ss) == {Append(s, T("EOF")) : s \in ss}
MCTokenLists ==
  Ended(   Short({Id("x"), T("LET"), T("ASSIGN"), T("TRUE"), T("RETURN"), T("LBRACE"),
                  T("RBRACE")}, 4)
      \cup {If \o s : s \in Short({T("TRUE"), T("RPAREN"), T("LBRACE"), T("RBRACE"), T("ELSE"),
                                   T("IF")}, 4)}
      \cup {Fun("f") \o s : s \in Short({Id("x"), T("COMMA"), T("COLON"), T("RPAREN"),
                                         T("LBRACE")}, 5)}
      \cup UNION {Near(s) : s \in Programs})
NotLegalLists == Ended({NotLegal})
NoLists == {}
NoSources == {}

(* Nothing to read, and no test to run.                                    *)
NothingToRead ==
  /\ source = <<>> /\ place = 0 /\ line = 1 /\ lexemes = <<>> /\ badLine = 0 /\ reading = "given"
  /\ tokens = <<>> /\ pos = 0 /\ error = None /\ outcome = "exception"
  /\ varTypes = NoTypes /\ functionReturnTypes = NoTypes /\ todo = <<>> /\ vals = <<>>
MCInit ==
  /\ TesterInit
  /\ \/ tests = <<>> /\ FrontInit
     \/ tests # <<>> /\ NothingToRead
MCNext ==
  \/ FrontNext /\ UNCHANGED testerVars
  \/ TesterNext /\ UNCHANGED <<vars, lexVars>>
MCSpec ==
  MCInit /\ [][MCNext]_<<vars, lexVars, testerVars>> /\ WF_<<vars, lexVars, testerVars>>(MCNext)

G == INSTANCE Grammar WITH NumberOf <- NumberOf

----------------------------------------------------------------------------
(* The types of conditions, read from the tree in the order of the text.   *)
(* st is [ok, vars, results, fs]: whether all conditions are Bool so far,  *)
(* what the names are, what the functions return, and the annotations of   *)
(* the functions still to come.                                            *)

(* The annotations of the functions of a list of tokens: "" for none.      *)
Annotations(ts) ==
  LET Begins(i, j) == ts[i].t = "FUNC" /\ ts[j].t = "LBRACE" /\ i < j
                        /\ \A k \in i..j-1 : ts[k].t # "LBRACE"
      Of(i) == IF \E j \in 1..Len(ts) : Begins(i, j)
               THEN LET j == CHOOSE j \in 1..Len(ts) : Begins(i, j)
                    IN IF ts[j-2].t = "COLON" THEN ts[j-1].text ELSE ""
               ELSE ""
  IN [k \in 1..Cardinality({i \in 1..Len(ts) : ts[i].t = "FUNC"}) |->
        Of(CHOOSE i \in 1..Len(ts) : ts[i].t = "FUNC"
                     /\ Cardinality({h \in 1..i : ts[h].t = "FUNC"}) = k)]

IsBool(e, st) ==
  \/ e.kind = "bool"
  \/ e.kind = "bin" /\ e.op \in {"EQ", "NEQ", "LT", "LTE", "GT", "GTE"}
  \/ e.kind = "var" /\ e.name \in st.vars
  \/ e.kind = "call" /\ e.name \in st.results

Named(names, x, is) == IF is THEN names \cup {x} ELSE names \ {x}

RECURSIVE Typed(_, _)
(* What a block declares is forgotten at its end, and so are a function's  *)
(* parameters, which no condition may be.                                  *)
Typed(ss, st) ==
  LET Inside(body, s, params) ==
        LET own == params \cup {body[j].name : j \in {k \in 1..Len(body) : body[k].kind = "decl"}}
            end == Typed(body, [s EXCEPT !.vars = @ \ params])
        IN [end EXCEPT !.vars = (@ \ own) \cup (s.vars \cap own)]
      Tested(s, st1) == [st1 EXCEPT !.ok = @ /\ IsBool(s.cond, st1)]
      One_(st1, s) ==
        CASE s.kind \in {"decl", "assign"} ->
               [st1 EXCEPT !.vars = Named(@, s.name, IsBool(s.expr, st1))]
          [] s.kind = "if" -> Inside(s.else, Inside(s.then, Tested(s, st1), {}), {})
          [] s.kind = "while" -> Inside(s.body, Tested(s, st1), {})
          [] s.kind = "block" -> Inside(s.body, st1, {})
          [] s.kind = "func" ->
               Inside(s.body, [st1 EXCEPT
                 !.fs = Tail(@),
                 !.results = Named(@, s.name, Head(st1.fs) = "Bool")], ToSet(s.params))
          [] OTHER -> st1
  IN FoldLeft(One_, st, ss)

WellTyped(p) ==
  Typed(p, [ok |-> TRUE, vars |-> {}, results |-> {}, fs |-> Annotations(tokens)]).ok

----------------------------------------------------------------------------
(* Every name is one thing: declared once, as a variable, a parameter or a *)
(* function, and a variable or parameter used only where it reaches.       *)
Depth(i) == Cardinality({j \in 1..i : tokens[j].t = "LBRACE"})
              - Cardinality({j \in 1..i : tokens[j].t = "RBRACE"})
Names(i) == tokens[i].t = "IDENTIFIER"
IsParam(i) == Names(i) /\ i < Len(tokens) /\ tokens[i+1].t = "COLON"
IsDeclared(i, by) == Names(i) /\ i > 1 /\ tokens[i-1].t \in by
Variables == {i \in 1..Len(tokens) : IsDeclared(i, {"LET", "VAR"}) \/ IsParam(i)}
Declared == Variables \cup {i \in 1..Len(tokens) : IsDeclared(i, {"FUNC"})}
EndsScope(j, i) == tokens[j].t = "RBRACE" /\ Depth(j) < Depth(i) + (IF IsParam(i) THEN 1 ELSE 0)
NamesAreClear ==
  \A i \in Declared, k \in 1..Len(tokens) :
    k # i /\ tokens[k] = tokens[i] =>
      /\ k \notin Declared
      /\ i \in Variables => k > i /\ \A j \in i..k : ~EndsScope(j, i)

(* An else that may stand where it does has its branch.                    *)
ElsesBranch ==
  \A i \in 1..Len(tokens)-1 :
    tokens[i].t = "ELSE" /\ tokens[i+1].t \notin {"LBRACE", "IF"} =>
      G!Programs(SubSeq(tokens, 1, i)) = {}

----------------------------------------------------------------------------
(* A list of tokens is accepted if the grammar has it and the conditions   *)
(* are Bool, and the tree is the only one the grammar gives it: 68-79 and  *)
(* 267-401 of parser.cj, over all the error paths on which parsing goes on *)
(* with made-up tokens.  The place of a syntax error is where the text     *)
(* stops being the beginning of a program: no error is reported late, nor  *)
(* for what parsing made of the tokens after an earlier error (consume,    *)
(* 73-77, keeps the first).  Where an else has no branch, or one name is   *)
(* more than one thing, nothing is said here: see AcceptsLegal.            *)
FirstBadToken ==
  outcome = "rejected" /\ error.what # "condition" =>
    /\ G!Programs(SubSeq(tokens, 1, error.at - 1)) # {}
    /\ error.what # "annotation" => G!Programs(SubSeq(tokens, 1, error.at)) = {}
AcceptsGrammar ==
  outcome \in {"accepted", "rejected"} /\ ElsesBranch =>
    LET programs == G!Programs(tokens)
    IN /\ FirstBadToken
       /\ outcome = "accepted" => programs = {vals[1].body}
       /\ NamesAreClear => \A p \in programs : WellTyped(p) <=> outcome = "accepted"

(* What is accepted is legal.  An if has its else with a block or another  *)
(* if (src/README.md 107), and the conditions are Bool (parser.cj 10,      *)
(* src/README.md 116).  Not so: an else that stands alone is accepted      *)
(* (parser.cj 218); and so is a condition that is Bool only as another     *)
(* variable of its name (varTypes, 118, is one table for all scopes).      *)
ElseHasBranch == outcome = "accepted" => G!Programs(tokens) # {}
ConditionsAreBool == outcome = "accepted" => WellTyped(vals[1].body)
AcceptsLegal == ElseHasBranch /\ ConditionsAreBool
=============================================================================
