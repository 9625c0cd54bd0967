----------------------------- MODULE MCCodeGen -----------------------------
(***************************************************************************)
(* The programs that MCChunk and MCPipeline use as well, and more for the  *)
(* code generator: constants, functions and declarations in inner blocks.  *)
(***************************************************************************)
EXTENDS CodeGenProperties, Ast

SampleNames == {"a", "b", "c", "p", "q", "add", "fact", "println"}

Add(l, r) == Bin("ADD", l, r)
Lt(l, r) == Bin("LT", l, r)

----------------------------------------------------------------------------
(* Every expression of depth 2 with an operand of depth 0, in each place   *)
(* an expression has, between the same declarations and prints.            *)

Leaves == {V("a"), V("b"), I(3)}
Level1 == {Bin(op, l, r) : op \in {"SUB", "LT"}, l \in Leaves, r \in Leaves}
            \cup {CallE("add", <<l, r>>) : l \in Leaves, r \in Leaves}
Level2 == UNION {{Bin(op, l, r), Bin(op, r, l), CallE("add", <<l, r>>),
                  CallE("add", <<r, l>>)} :
                   op \in {"SUB", "LT"}, l \in Level1, r \in Leaves}
Places(e) == {<<Decl("c", e), PrintS(V("c"))>>, <<Set("a", e)>>, <<Set("b", e)>>,
              <<PrintS(e)>>, <<ExprS(CallE("add", <<e, V("b")>>)), Ret(e)>>,
              <<IfS(Lt(I(0), e), <<Set("a", I(7))>>, <<>>)>>}
Deep(e) == {<<Set("b", e)>>, <<ExprS(CallE("println", <<e, V("a")>>))>>}

AddDecl == Func("add", <<"p", "q">>, <<Ret(Add(V("p"), V("q")))>>)
Framed(ss) == <<AddDecl, Decl("a", I(10)), Decl("b", F(5, 2))>> \o ss
                \o <<PrintS(V("b")), Ret(V("a"))>>
Enumerated ==
  {Framed(ss) : ss \in UNION {Places(e) : e \in Leaves \cup Level1}
                         \cup UNION {Deep(e) : e \in Level2}}

(* Control flow, recursion, globals, nesting and runtime errors.           *)
Chosen == {
  \* fact(4), with the recursive call on the right of *
  <<Func("fact", <<"p">>,
      <<IfS(Bin("LTE", V("p"), I(1)), <<Ret(I(1))>>,
            <<Ret(Bin("MUL", V("p"), CallE("fact", <<Bin("SUB", V("p"), I(1))>>)))>>)>>),
    PrintS(CallE("fact", <<I(4)>>)), Ret(CallE("fact", <<I(3)>>))>>,
  \* nested loops with an if inside and an assignment to a global
  <<Decl("a", I(0)), Decl("b", I(0)),
    WhileS(Lt(V("a"), I(3)),
      <<Set("b", I(0)),
        WhileS(Bin("NEQ", V("b"), I(2)),
          <<IfS(Bin("EQ", V("a"), V("b")), <<PrintS(V("a"))>>, <<Set("c", V("b"))>>),
            Set("b", Add(V("b"), I(1)))>>),
        Set("a", Add(V("a"), I(1)))>>),
    PrintS(V("c")), Ret(Bin("GTE", V("a"), V("b")))>>,
  \* empty branches, a block, if without else, early return in a loop
  <<Decl("a", I(5)),
    IfS(B(TRUE), <<>>, <<PrintS(I(1))>>), IfS(B(FALSE), <<PrintS(I(2))>>, <<>>),
    BlockS(<<IfS(Bin("GT", V("a"), F(1, 2)), <<Set("a", Bin("DIV", V("a"), I(2)))>>, <<>>)>>),
    WhileS(B(TRUE), <<PrintS(V("a")), Ret(V("a"))>>)>>,
  \* missing and extra arguments, a call for its effect, println of nothing
  <<Func("add", <<"p", "q">>, <<PrintS(V("q")), PrintS(V("p"))>>),
    ExprS(CallE("add", <<I(1)>>)), ExprS(CallE("add", <<I(1), I(2), I(3)>>)),
    ExprS(CallE("println", <<>>)), PrintS(CallE("add", <<>>))>>,
  \* a function in a function is a global, a parameter named as a global
  <<Func("add", <<"p">>,
      <<Func("fact", <<"p", "q">>, <<Ret(Bin("SUB", V("p"), V("q")))>>),
        Decl("q", CallE("fact", <<V("p"), I(1)>>)), Ret(V("q"))>>),
    PrintS(CallE("add", <<I(8)>>)), PrintS(CallE("fact", <<I(8), I(2)>>))>>,
  \* constants that need LOADK, shared by two literals
  <<Decl("a", I(40000)), Decl("b", I(40000)), Decl("c", F(1, 2)),
    Set("a", Add(V("a"), V("c"))), PrintS(F(1, 2)), Ret(V("a"))>>,
  \* runtime errors: arithmetic, order, a call of no function
  <<PrintS(I(1)), Decl("a", Add(B(TRUE), I(1))), PrintS(I(2))>>,
  <<PrintS(Lt(I(1), V("c")))>>,
  <<Decl("a", I(3)), ExprS(CallE("a", <<>>))>>,
  <<Func("fact", <<"p">>, <<Ret(Add(I(1), CallE("fact", <<V("p")>>)))>>),
    ExprS(CallE("fact", <<I(1)>>))>>}

Candidates == Enumerated \cup Chosen
AnyExpr == ExprsOf(Candidates)
AnyStmt == StmtsOf(Candidates)

----------------------------------------------------------------------------
(* More programs for the code generator.                                   *)

Big(n) == I(100000 + n)
More == {
  \* three constants: the third needs LOADKX when BxSize is 2
  <<Decl("a", Big(0)), Decl("b", F(1, 2)), Set("c", Big(1)),
    PrintS(Bin("EQ", Big(1), F(1, 2))), Ret(Big(0))>>,
  \* an integer that cannot be written: the generator throws
  <<Func("add", <<>>, <<Ret(I(1000000))>>), Decl("a", I(1))>>,
  \* functions in functions, siblings, parameters of one name
  <<Func("add", <<"p", "q">>,
      <<Func("fact", <<"p", "p">>, <<Ret(V("p"))>>),
        Func("b", <<>>, <<Func("c", <<>>, <<>>), ExprS(CallE("c", <<>>))>>),
        Ret(CallE("fact", <<I(1), I(2)>>))>>),
    Func("fact", <<"q">>, <<WhileS(V("q"), <<Func("c", <<>>, <<Ret(Big(2))>>)>>)>>),
    ExprS(CallE("add", <<V("a"), Bin("MUL", V("b"), Big(3))>>))>>,
  \* declarations inside branches and loops
  <<Decl("a", I(1)),
    WhileS(Bin("LT", V("a"), I(3)),
      <<Decl("b", I(2)),
        IfS(B(TRUE), <<Decl("c", V("b")), Set("a", Bin("ADD", V("a"), V("c")))>>,
            <<BlockS(<<Decl("p", I(1)), WhileS(B(FALSE), <<>>)>>)>>)>>),
    ExprS(Bin("DIV", V("a"), V("b"))), ExprS(B(TRUE))>>}

GeneratorPrograms == Candidates \cup More
GeneratorExpr == ExprsOf(GeneratorPrograms)
GeneratorStmt == StmtsOf(GeneratorPrograms)

(* TLC evaluates a definition once, but the body of one that a cfg gives   *)
(* a constant each time: hence the two names.                              *)
MCGeneratorNames == SampleNames
MCGeneratorPrograms == GeneratorPrograms
MCGeneratorExpr == GeneratorExpr
MCGeneratorStmt == GeneratorStmt
=============================================================================
