-------------------------------- MODULE Ast --------------------------------
(***************************************************************************)
(* Constructors for programs, used by the model-checking modules.          *)
(***************************************************************************)
EXTENDS Integers, Sequences

I(n) == [kind |-> "int", int |-> n]
F(num, den) == [kind |-> "flt", num |-> num, den |-> den]
B(b) == [kind |-> "bool", bool |-> b]
V(x) == [kind |-> "var", name |-> x]
Bin(op, l, r) == [kind |-> "bin", op |-> op, left |-> l, right |-> r]
CallE(f, args) == [kind |-> "call", name |-> f, args |-> args]

Decl(x, e) == [kind |-> "decl", name |-> x, expr |-> e]
Set(x, e) == [kind |-> "assign", name |-> x, expr |-> e]
IfS(c, t, e) == [kind |-> "if", cond |-> c, then |-> t, else |-> e]
WhileS(c, b) == [kind |-> "while", cond |-> c, body |-> b]
Func(f, ps, b) == [kind |-> "func", name |-> f, params |-> ps, body |-> b]
Ret(e) == [kind |-> "return", expr |-> e]
ExprS(e) == [kind |-> "expr", expr |-> e]
BlockS(b) == [kind |-> "block", body |-> b]
PrintS(e) == ExprS(CallE("println", <<e>>))

(* The nodes of a set of programs, MaxDepth levels deep.  Written without  *)
(* RECURSIVE, so that TLC evaluates the sets once.                         *)
LOCAL Elements(ss) == {ss[j] : j \in 1..Len(ss)}
LOCAL Kids(e) == IF e.kind = "bin" THEN {e.left, e.right}
                 ELSE IF e.kind = "call" THEN Elements(e.args) ELSE {}
LOCAL Inner(s) == IF s.kind = "if" THEN Elements(s.then) \cup Elements(s.else)
                  ELSE IF s.kind \in {"while", "func", "block"} THEN Elements(s.body)
                  ELSE {}
LOCAL Top(s) == IF s.kind \in {"decl", "assign", "return", "expr"} THEN {s.expr}
                ELSE IF s.kind \in {"if", "while"} THEN {s.cond} ELSE {}
MaxDepth == 6
StmtsOf(progs) ==
  LET close[n \in 0..MaxDepth] ==
        IF n = 0 THEN UNION {Elements(p) : p \in progs}
        ELSE LET up == close[n - 1] IN up \cup UNION {Inner(s) : s \in up}
  IN {s \in close[MaxDepth] : TRUE}
ExprsOf(progs) ==
  LET close[n \in 0..MaxDepth] ==
        IF n = 0 THEN UNION {Top(s) : s \in StmtsOf(progs)}
        ELSE LET up == close[n - 1] IN up \cup UNION {Kids(e) : e \in up}
  IN {e \in close[MaxDepth] : TRUE}
=============================================================================
