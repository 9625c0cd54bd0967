-------------------------- MODULE SourceSemantics --------------------------
(***************************************************************************)
(* What a program means, read off the AST and the README (6.3, 11) without *)
(* registers or instructions: the reference the compiled program is        *)
(* compared with.  Locals belong to a function; a name that is no local is *)
(* a global; a function is called by its global name.  Operands and        *)
(* arguments are evaluated from left to right.                             *)
(*                                                                         *)
(* A state is [out, globals, fuel]; fuel bounds calls and loop rounds.     *)
(***************************************************************************)
EXTENDS LuaValues, Sequences

CONSTANT SourceGlobals

LOCAL Bind(f, x, v) == [y \in DOMAIN f \cup {x} |-> IF y = x THEN v ELSE f[y]]

Lookup(name, env, st) == IF name \in DOMAIN env THEN env[name] ELSE st.globals[name]
Assign(name, v, env, st) ==
  IF name \in DOMAIN env THEN [env |-> Bind(env, name, v), st |-> st]
  ELSE [env |-> env, st |-> [st EXCEPT !.globals[name] = v]]

Compares(op, v, w) ==
  CASE op = "EQ"  -> EqualObj(v, w)
    [] op = "NEQ" -> ~EqualObj(v, w)
    [] op = "LT"  -> LessThan(v, w)
    [] op = "LTE" -> LessEqual(v, w)
    [] op = "GT"  -> LessThan(w, v)
    [] op = "GTE" -> LessEqual(w, v)

Apply(op, v, w) ==
  IF op \in {"EQ", "NEQ"} THEN [ok |-> TRUE, val |-> BoolValue(Compares(op, v, w))]
  ELSE IF ~CanArith(v, w) THEN [ok |-> FALSE, val |-> Nil]
  ELSE IF op \in {"ADD", "SUB", "MUL", "DIV"} THEN [ok |-> TRUE, val |-> Arith(op, v, w)]
  ELSE [ok |-> TRUE, val |-> BoolValue(Compares(op, v, w))]

RECURSIVE Eval(_, _, _), EvalArgs(_, _, _, _), CallFunction(_, _, _), Exec(_, _, _)

(* [ok, val, st]; ok is FALSE after a runtime error.                       *)
Eval(e, env, st) ==
  CASE e.kind = "int"  -> [ok |-> TRUE, val |-> IntValue(e.int), st |-> st]
    [] e.kind = "flt"  -> [ok |-> TRUE, val |-> FloatValue(e.num, e.den), st |-> st]
    [] e.kind = "bool" -> [ok |-> TRUE, val |-> BoolValue(e.bool), st |-> st]
    [] e.kind = "var"  -> [ok |-> TRUE, val |-> Lookup(e.name, env, st), st |-> st]
    [] e.kind = "bin"  ->
         LET l == Eval(e.left, env, st)
             r == Eval(e.right, env, l.st)
             v == Apply(e.op, l.val, r.val)
         IN IF ~l.ok THEN l ELSE IF ~r.ok THEN r
            ELSE [ok |-> v.ok, val |-> v.val, st |-> r.st]
    [] e.kind = "call" ->
         LET f == st.globals[e.name]
             a == EvalArgs(e.args, <<>>, env, st)
         IN IF ~a.ok THEN [ok |-> FALSE, val |-> Nil, st |-> a.st]
            ELSE CallFunction(f, a.vals, a.st)

EvalArgs(args, vals, env, st) ==
  IF args = <<>> THEN [ok |-> TRUE, vals |-> vals, st |-> st]
  ELSE LET v == Eval(Head(args), env, st)
       IN IF v.ok THEN EvalArgs(Tail(args), Append(vals, v.val), env, v.st)
          ELSE [ok |-> FALSE, vals |-> vals, st |-> v.st]

(* A source function is the closure of its declaration.                    *)
CallFunction(f, vals, st) ==
  IF f = Println
  THEN [ok |-> TRUE, val |-> Nil,
        st |-> IF vals = <<>> THEN st ELSE [st EXCEPT !.out = Append(@, RuntimeValue(vals[1]))]]
  ELSE IF f[1] # "closure" \/ st.fuel = 0 THEN [ok |-> FALSE, val |-> Nil, st |-> st]
  ELSE LET params == f[2].params
           env == [x \in {params[j] : j \in 1..Len(params)} |->
                     LET j == CHOOSE j \in 1..Len(params) : params[j] = x
                     IN IF j <= Len(vals) THEN vals[j] ELSE Nil]
           r == Exec(f[2].body, env, [st EXCEPT !.fuel = @ - 1])
       IN [ok |-> r.end # "error", val |-> r.val, st |-> r.st]

(* [end, val, env, st]: a list ends at its end ("next"), at a return or at *)
(* an error.                                                               *)
Exec(ss, env, st) ==
  LET Stop(end, v, s) == [end |-> end, val |-> v, env |-> env, st |-> s]
      s == Head(ss)
      rest == Tail(ss)
      e == Eval(IF s.kind \in {"if", "while"} THEN s.cond ELSE s.expr, env, st)
      Continue(r) == IF r.end = "next" THEN Exec(rest, r.env, r.st) ELSE r
  IN CASE ss = <<>> -> Stop("next", Nil, st)
       [] ss # <<>> /\ s.kind = "func" ->
            LET v == Closure([params |-> s.params, body |-> s.body])
            IN Exec(rest, Bind(env, s.name, v), [st EXCEPT !.globals[s.name] = v])
       [] ss # <<>> /\ s.kind = "block" -> Continue(Exec(s.body, env, st))
       [] ss # <<>> /\ s.kind \notin {"func", "block"} ->
            IF ~e.ok THEN Stop("error", Nil, e.st)
            ELSE CASE s.kind = "decl" -> Exec(rest, Bind(env, s.name, e.val), e.st)
                   [] s.kind = "assign" ->
                        LET r == Assign(s.name, e.val, env, e.st)
                        IN Exec(rest, r.env, r.st)
                   [] s.kind = "if" ->
                        Continue(Exec(IF IsFalse(e.val) THEN s.else ELSE s.then,
                                      env, e.st))
                   [] s.kind = "while" ->
                        IF IsFalse(e.val) THEN Exec(rest, env, e.st)
                        ELSE IF e.st.fuel = 0 THEN Stop("error", Nil, e.st)
                        ELSE LET r == Exec(s.body, env, [e.st EXCEPT !.fuel = @ - 1])
                             IN IF r.end = "next" THEN Exec(ss, r.env, r.st) ELSE r
                   [] s.kind = "return" -> Stop("return", e.val, e.st)
                   [] s.kind = "expr" -> Exec(rest, env, e.st)

(* A whole program: what it prints, how it ends and what it returns.       *)
Meaning(ss, fuel) ==
  LET none == [x \in {} |-> Nil]
      st == [out |-> <<>>, fuel |-> fuel,
             globals |-> [g \in SourceGlobals |-> IF g = "println" THEN Println ELSE Nil]]
      r == Exec(ss, none, st)
  IN [outputs |-> r.st.out, status |-> IF r.end = "error" THEN "error" ELSE "ok",
      result |-> RuntimeValue(r.val), fuel |-> r.st.fuel]
=============================================================================
