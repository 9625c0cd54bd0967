------------------------------ MODULE MCChunk ------------------------------
(***************************************************************************)
(* Chunks of programs whose functions nest, whose constants have every     *)
(* kind and length, and some of which cannot be written.                   *)
(***************************************************************************)
EXTENDS Chunk, MCCodeGen

(* n sums, to have counts and lengths that take two bytes.                 *)
Long(n) == <<Decl("a", I(0))>> \o [j \in 1..n |-> Set("a", Add(V("a"), Big(0)))]

MCNames == SampleNames
MCNameLength == [x \in SampleNames |->
                   CASE x = "fact" -> 126 [] x = "add" -> 127 [] x = "b" -> 45
                     [] OTHER -> 1]
Edges == {-999999, -65537, -65536, -32770, -32769, 32768, 32769, 65535, 65536, 999999}
MCCandidates == Chosen \cup {<<Decl("a", I(n)), Ret(F(1, 3))>> : n \in Edges} \cup {
  <<>>, Long(10), Long(31), Long(43),
  \* integers that cannot be written, here and in a function
  <<Decl("a", I(1000000))>>,
  <<Func("add", <<>>, <<Func("b", <<"p">>, <<Ret(I(-1000000))>>)>>), Ret(Big(1))>>,
  \* too many registers for a function, too many parameters
  <<Func("b", <<>>, Long(254))>>,
  <<Func("b", [j \in 1..254 |-> "p"], <<>>)>>,
  <<Func("b", [j \in 1..253 |-> "p"], <<>>)>>,
  \* siblings and functions in functions, each with constants
  <<Func("add", <<"p", "q">>,
      <<Func("fact", <<"p", "p">>, <<Ret(F(1, 3))>>),
        Func("b", <<>>, <<Func("c", <<>>, <<Ret(Big(2))>>), ExprS(CallE("c", <<>>))>>),
        Ret(CallE("fact", <<I(1), Big(3)>>))>>),
    Func("fact", <<"q">>, <<Ret(Big(2)), Ret(V("q"))>>),
    ExprS(CallE("add", <<V("a"), F(1, 2), Big(4)>>))>>}

AllExpr == ExprsOf(MCCandidates)
AllStmt == StmtsOf(MCCandidates)
MCPrograms == MCCandidates
MCExpr == AllExpr
MCStmt == AllStmt
=============================================================================
