------------------------- MODULE CodeGenPrototypes -------------------------
(***************************************************************************)
(* The finished functions of a chunk: they form a tree, and each one's     *)
(* code stays within the registers it asks for (PrototypesSound), for all  *)
(* programs and constants.                                                 *)
(***************************************************************************)
EXTENDS CodeGenShape

----------------------------------------------------------------------------
(***************************************************************************)
(* The functions of a chunk are a tree.                                    *)
(*                                                                         *)
(* A finished function is recorded once, in the generator that suspended   *)
(* itself for it, as the first thing that one does when it is taken up     *)
(* again.  So at any time each finished function, but the one whose        *)
(* recording is still to come, is in the functions of exactly one          *)
(* generator, finished, suspended or at work.                              *)
(***************************************************************************)

(* What a step does to todo: its first task is replaced by others.         *)
LEMMA TodoStep ==
  ASSUME Types, Types', todo # <<>>, NEW S, NEW tasks \in Seq(S), Then(tasks)
  PROVE  /\ todo \in Seq(Task) /\ todo' \in Seq(Task) /\ tasks \in Seq(Task)
         /\ Len(todo') = Len(tasks) + Len(todo) - 1
         /\ Len(tasks) \in Nat /\ Len(todo) \in Nat \ {0} /\ Task1 = todo[1]
         /\ \A n \in 1..Len(tasks) : todo'[n] = tasks[n]
         /\ \A n \in Len(tasks)+1..Len(todo') :
              /\ n - Len(tasks) + 1 \in 2..Len(todo)
              /\ todo'[n] = todo[n - Len(tasks) + 1]
<1>1. /\ todo \in Seq(Task) /\ todo' \in Seq(Task) /\ tasks \in Seq(Task)
      /\ Tail(todo) \in Seq(Task)
  BY TasksType, HeadType DEF Types, TodoType
<1>2. /\ Len(todo) \in Nat \ {0} /\ Task1 = todo[1]
      /\ Len(Tail(todo)) = Len(todo) - 1
      /\ \A n \in 1..Len(Tail(todo)) : Tail(todo)[n] = todo[n + 1]
  BY <1>1, TailFacts DEF Task1
<1>3. /\ Len(tasks) \in Nat
      /\ Len(todo') = Len(tasks) + Len(Tail(todo))
      /\ \A n \in 1..Len(tasks) : todo'[n] = tasks[n]
      /\ \A n \in 1..Len(Tail(todo)) : todo'[Len(tasks) + n] = Tail(todo)[n]
  BY <1>1, ConcatFacts DEF Then
<1>4. ASSUME NEW n \in Len(tasks)+1..Len(todo')
      PROVE  n - Len(tasks) + 1 \in 2..Len(todo) /\ todo'[n] = todo[n - Len(tasks) + 1]
  <2> DEFINE m == n - Len(tasks)
  <2>1. m \in 1..Len(Tail(todo)) /\ n = Len(tasks) + m
    BY <1>2, <1>3
  <2> HIDE DEF m
  <2>2. todo'[n] = todo[m + 1] /\ m + 1 \in 2..Len(todo)
    BY <1>2, <1>3, <2>1
  <2> QED
    BY <2>2 DEF m
<1> QED
  BY <1>1, <1>2, <1>3, <1>4

NoEnd(s) == \A n \in 1..Len(s) : s[n].t # "funcEnd"
EndsFirst(s) == \A n \in 2..Len(s) : s[n].t # "funcEnd"
Ended == todo # <<>> /\ Task1.t = "funcEnd"

(* A generator resumes with the end of FuncDecl and never meets another.   *)
EndsInPlace ==
  /\ EndsFirst(todo)
  /\ \A k \in 1..Len(outer) :
       /\ outer[k].todo # <<>> /\ Head(outer[k].todo).t = "funcEnd"
       /\ EndsFirst(outer[k].todo)

(* The functions that are in the list of some generator.                   *)
Recorded == IF Ended THEN Len(protos) - 1 ELSE Len(protos)

Children(fs) == {fs[n].proto : n \in 1..Len(fs)}
Once(fs) == \A m, n \in 1..Len(fs) : fs[m].proto = fs[n].proto => m = n

(* The list of the generator at work or of a suspended one.                *)
Listed(k) == IF k = Len(outer) + 1 THEN functions ELSE outer[k].functions
Generators == 1..Len(outer)+1
Finishes(p) == Children(protos[p].functions)

FinishedLists ==
  /\ \A p \in 1..Len(protos) : Once(protos[p].functions) /\ Finishes(p) \subseteq 1..p-1
  /\ \A p, q \in 1..Len(protos) : p # q => Finishes(p) \cap Finishes(q) = {}
GrowingLists ==
  /\ Recorded \in Nat
  /\ \A k \in Generators : Once(Listed(k)) /\ Children(Listed(k)) \subseteq 1..Recorded
  /\ \A k, l \in Generators : k # l => Children(Listed(k)) \cap Children(Listed(l)) = {}
  /\ \A k \in Generators, p \in 1..Len(protos) : Children(Listed(k)) \cap Finishes(p) = {}
  /\ \A c \in 1..Recorded : \/ \E k \in Generators : c \in Children(Listed(k))
                            \/ \E p \in 1..Len(protos) : c \in Finishes(p)
MainIsRoot ==
  /\ Len(protos) > 0
  /\ \A c \in 1..Len(protos)-1 : \E p \in 1..Len(protos) : c \in Finishes(p)
Forest ==
  /\ EndsInPlace /\ FinishedLists
  /\ outcome = "generating" => GrowingLists
  /\ outcome # "generating" => MainIsRoot

LEMMA NoEndStep ==
  ASSUME Types, Types', EndsFirst(todo), todo # <<>>,
         NEW S, NEW tasks \in Seq(S), Then(tasks), NoEnd(tasks)
  PROVE  NoEnd(todo')
<1>1. /\ Len(tasks) \in Nat
      /\ \A n \in 1..Len(tasks) : todo'[n] = tasks[n]
      /\ \A n \in Len(tasks)+1..Len(todo') :
           n - Len(tasks) + 1 \in 2..Len(todo) /\ todo'[n] = todo[n - Len(tasks) + 1]
      /\ Len(todo') \in Nat
  BY TodoStep DEF Types, TodoType
<1>2. ASSUME NEW n \in 1..Len(todo') PROVE todo'[n].t # "funcEnd"
  <2>1. CASE n \in 1..Len(tasks)
    BY <1>1, <2>1 DEF NoEnd
  <2>2. CASE n \in Len(tasks)+1..Len(todo')
    BY <1>1, <2>2 DEF EndsFirst
  <2> QED
    BY <1>1, <2>1, <2>2
<1> QED
  BY <1>2 DEF NoEnd

LEMMA NoEndNone ==
  ASSUME Types, Types', EndsFirst(todo), todo # <<>>, Then(<<>>)
  PROVE  NoEnd(todo')
<1>1. <<>> \in Seq({}) /\ NoEnd(<<>>)
  BY DEF NoEnd
<1> QED
  BY <1>1, NoEndStep

LEMMA NoEndOne ==
  ASSUME Types, Types', EndsFirst(todo), todo # <<>>, NEW x, Then(<<x>>), x.t # "funcEnd"
  PROVE  NoEnd(todo')
<1>1. <<x>> \in Seq({x}) /\ NoEnd(<<x>>)
  BY DEF NoEnd
<1> QED
  BY <1>1, NoEndStep

LEMMA NoEndTwo ==
  ASSUME Types, Types', EndsFirst(todo), todo # <<>>, NEW x, NEW y, Then(<<x, y>>),
         x.t # "funcEnd", y.t # "funcEnd"
  PROVE  NoEnd(todo')
<1>1. <<x, y>> \in Seq({x, y}) /\ NoEnd(<<x, y>>)
  BY DEF NoEnd
<1> QED
  BY <1>1, NoEndStep

LEMMA NoEndStatements ==
  ASSUME NEW ss \in Seq(Stmt)
  PROVE  generateStatements(ss) \in Seq(Task) /\ NoEnd(generateStatements(ss))
<1> DEFINE g == generateStatements(ss)
<1>1. /\ g \in Seq(Task) /\ Len(g) = Len(ss)
      /\ \A n \in 1..Len(ss) : g[n] = StmtTask(ss[n])
  BY StatementsType
<1> HIDE DEF g
<1>2. \A n \in 1..Len(ss) : g[n].t = "stmt"
  <2> TAKE n \in 1..Len(ss)
  <2>1. g[n] = [t |-> "stmt", s |-> ss[n]]
    BY <1>1 DEF StmtTask
  <2> QED
    BY <2>1
<1>3. NoEnd(g)
  BY <1>1, <1>2 DEF NoEnd
<1> QED
  BY <1>1, <1>3 DEF g

LEMMA NoEndAppend ==
  ASSUME Types, Types', EndsFirst(todo), todo # <<>>,
         NEW ss \in Seq(Stmt), NEW x, Then(Append(generateStatements(ss), x)),
         x.t # "funcEnd"
  PROVE  NoEnd(todo')
<1> DEFINE g == generateStatements(ss)
           T == Task \cup {x}
<1>1. g \in Seq(T) /\ x \in T /\ NoEnd(g) /\ Len(g) \in Nat
  BY NoEndStatements
<1> HIDE DEF g, T
<1>2. /\ Append(g, x) \in Seq(T) /\ Len(Append(g, x)) = Len(g) + 1
      /\ \A n \in 1..Len(g) : Append(g, x)[n] = g[n]
      /\ Append(g, x)[Len(g) + 1] = x
  BY <1>1, AppendFacts
<1>3. NoEnd(Append(g, x))
  BY <1>1, <1>2 DEF NoEnd
<1> QED
  BY <1>2, <1>3, NoEndStep DEF g

LEMMA WorkingNoEnd ==
  ASSUME Types, Types', EndsFirst(todo), Working
  PROVE  NoEnd(todo')
<1>0. /\ \A s : StmtTask(s).t # "funcEnd"
      /\ \A e, d : ExprTask(e, d).t # "funcEnd"
  BY DEF StmtTask, ExprTask
<1>1. ASSUME VarDecl \/ AssignLocal \/ ExprStmtOther PROVE NoEnd(todo')
  BY <1>0, <1>1, NoEndOne DEF VarDecl, AssignLocal, ExprStmtOther, AtStmt, At
<1>2. ASSUME \/ SetGlobal \/ EmitReturn \/ IfElseEnd \/ WhileEnd \/ BinaryOp \/ CompareOp
             \/ FuncEnd
      PROVE  NoEnd(todo')
  <2>1. todo # <<>> /\ Then(<<>>)
    BY <1>2 DEF SetGlobal, EmitReturn, IfElseEnd, WhileEnd, BinaryOp, CompareOp, FuncEnd, At
  <2> QED
    BY <2>1, NoEndNone
<1>3. ASSUME IntLiteral \/ FloatLiteral \/ BoolLiteral \/ Variable PROVE NoEnd(todo')
  <2>1. todo # <<>> /\ Then(<<>>)
    BY <1>3 DEF IntLiteral, FloatLiteral, BoolLiteral, Variable, AtExpr, At
  <2> QED
    BY <2>1, NoEndNone
<1>4. ASSUME AssignGlobal PROVE NoEnd(todo')
  <2> DEFINE y == [t |-> "setGlobal", name |-> Task1.s.name, reg |-> currentStack]
  <2>1. todo # <<>> /\ Then(<<ExprTask(Task1.s.expr, currentStack), y>>) /\ y.t # "funcEnd"
    BY <1>4 DEF AssignGlobal, AtStmt, At
  <2> HIDE DEF y
  <2> QED
    BY <1>0, <2>1, NoEndTwo
<1>5. ASSUME If PROVE NoEnd(todo')
  <2> DEFINE y == [t |-> "ifTest", saved |-> currentStack,
                   then |-> Task1.s.then, else |-> Task1.s.else]
  <2>1. todo # <<>> /\ Then(<<ExprTask(Task1.s.cond, currentStack), y>>) /\ y.t # "funcEnd"
    BY <1>5 DEF If, AtStmt, At
  <2> HIDE DEF y
  <2> QED
    BY <1>0, <2>1, NoEndTwo
<1>6. ASSUME While PROVE NoEnd(todo')
  <2> DEFINE y == [t |-> "whileTest", saved |-> currentStack,
                   start |-> Len(instructions), body |-> Task1.s.body]
  <2>1. todo # <<>> /\ Then(<<ExprTask(Task1.s.cond, currentStack), y>>) /\ y.t # "funcEnd"
    BY <1>6 DEF While, AtStmt, At
  <2> HIDE DEF y
  <2> QED
    BY <1>0, <2>1, NoEndTwo
<1>7. ASSUME Return PROVE NoEnd(todo')
  <2> DEFINE y == [t |-> "return", reg |-> currentStack]
  <2>1. todo # <<>> /\ Then(<<ExprTask(Task1.s.expr, currentStack), y>>) /\ y.t # "funcEnd"
    BY <1>7 DEF Return, AtStmt, At
  <2> HIDE DEF y
  <2> QED
    BY <1>0, <2>1, NoEndTwo
<1>8. ASSUME Block PROVE NoEnd(todo')
  <2>1. todo # <<>> /\ Task1.s.body \in Seq(Stmt)
    BY <1>8, AtStmtType, StmtFields DEF Block
  <2> QED
    BY <1>8, <2>1, NoEndStatements, NoEndStep DEF Block
<1>9. ASSUME IfTest PROVE NoEnd(todo')
  <2> DEFINE y == [t |-> "ifThenEnd", saved |-> Task1.saved,
                   jmp |-> Len(instructions) + 1, else |-> Task1.else]
  <2>1. /\ todo # <<>> /\ Task1.then \in Seq(Stmt) /\ y.t # "funcEnd"
        /\ Then(Append(generateStatements(Task1.then), y))
    BY <1>9, AtType, TaskFields DEF IfTest, At
  <2> HIDE DEF y
  <2> QED
    BY <2>1, NoEndAppend
<1>10. ASSUME IfThenEnd PROVE NoEnd(todo')
  <2> DEFINE y == [t |-> "ifElseEnd", saved |-> Task1.saved, jmp |-> Len(instructions)]
  <2>1. todo # <<>> /\ Task1.else \in Seq(Stmt) /\ y.t # "funcEnd"
    BY <1>10, AtType, TaskFields DEF IfThenEnd, At
  <2>2. Then(Append(generateStatements(Task1.else), y)) \/ Then(<<>>)
    BY <1>10 DEF IfThenEnd
  <2> HIDE DEF y
  <2> QED
    BY <2>1, <2>2, NoEndAppend, NoEndNone
<1>11. ASSUME WhileTest PROVE NoEnd(todo')
  <2> DEFINE y == [t |-> "whileEnd", saved |-> Task1.saved,
                   start |-> Task1.start, jmp |-> Len(instructions) + 1]
  <2>1. /\ todo # <<>> /\ Task1.body \in Seq(Stmt) /\ y.t # "funcEnd"
        /\ Then(Append(generateStatements(Task1.body), y))
    BY <1>11, AtType, TaskFields DEF WhileTest, At
  <2> HIDE DEF y
  <2> QED
    BY <2>1, NoEndAppend
<1>12. ASSUME ExprStmtCall PROVE NoEnd(todo')
  <2> DEFINE y == [t |-> "callStmt", func |-> currentStack, next |-> currentStack + 1,
                   args |-> Task1.s.expr.args, n |-> Len(Task1.s.expr.args)]
  <2>1. todo # <<>> /\ Then(<<y>>) /\ y.t # "funcEnd"
    BY <1>12 DEF ExprStmtCall, AtStmt, At
  <2> HIDE DEF y
  <2> QED
    BY <2>1, NoEndOne
<1>13. ASSUME CallStmt PROVE NoEnd(todo')
  <2> DEFINE y == [Task1 EXCEPT !.next = @ + 1, !.args = Tail(@)]
  <2>1. todo # <<>> /\ y.t # "funcEnd"
    BY <1>13, AtType, TaskFields DEF CallStmt, At, Task
  <2>2. Then(<<ExprTask(Head(Task1.args), Task1.next), y>>) \/ Then(<<>>)
    BY <1>13 DEF CallStmt
  <2> HIDE DEF y
  <2> QED
    BY <1>0, <2>1, <2>2, NoEndTwo, NoEndNone
<1>14. ASSUME Binary PROVE NoEnd(todo')
  <2> DEFINE y == [t |-> "binRight", op |-> Task1.e.op, dest |-> Task1.dest,
                   right |-> Task1.e.right]
  <2>1. todo # <<>> /\ Then(<<ExprTask(Task1.e.left, Task1.dest), y>>) /\ y.t # "funcEnd"
    BY <1>14 DEF Binary, AtExpr, At
  <2> HIDE DEF y
  <2> QED
    BY <1>0, <2>1, NoEndTwo
<1>15. ASSUME BinaryRight PROVE NoEnd(todo')
  <2> DEFINE right == IF currentStack = Task1.dest THEN currentStack + 1 ELSE currentStack
             y == [t |-> "binOp", op |-> Task1.op, dest |-> Task1.dest, right |-> right]
  <2>1. todo # <<>> /\ Then(<<ExprTask(Task1.right, right), y>>) /\ y.t # "funcEnd"
    BY <1>15 DEF BinaryRight, At
  <2> HIDE DEF right, y
  <2> QED
    BY <1>0, <2>1, NoEndTwo
<1>16. ASSUME Call PROVE NoEnd(todo')
  <2> DEFINE y == [t |-> "callExpr", func |-> Task1.dest, inc |-> 0,
                   args |-> Task1.e.args, n |-> Len(Task1.e.args), saved |-> currentStack]
  <2>1. todo # <<>> /\ Then(<<y>>) /\ y.t # "funcEnd"
    BY <1>16 DEF Call, AtExpr, At
  <2> HIDE DEF y
  <2> QED
    BY <2>1, NoEndOne
<1>17. ASSUME CallExpr PROVE NoEnd(todo')
  <2> DEFINE next == currentStack + Task1.inc
             y == [Task1 EXCEPT !.inc = 1, !.args = Tail(@)]
  <2>1. todo # <<>> /\ y.t # "funcEnd"
    BY <1>17, AtType, TaskFields DEF CallExpr, At, Task
  <2>2. Then(<<ExprTask(Head(Task1.args), next), y>>) \/ Then(<<>>)
    BY <1>17 DEF CallExpr
  <2> HIDE DEF y, next
  <2> QED
    BY <1>0, <2>1, <2>2, NoEndTwo, NoEndNone
<1>18. ASSUME Compare PROVE NoEnd(todo')
  <2> DEFINE x == ExprTask(Task1.e.left, Task1.dest + 1)
             y == ExprTask(Task1.e.right, Task1.dest + 2)
             z == [t |-> "compare", op |-> Task1.e.op, dest |-> Task1.dest,
                   saved |-> currentStack]
  <2>1. /\ todo # <<>> /\ Then(<<x, y, z>>)
        /\ x.t # "funcEnd" /\ y.t # "funcEnd" /\ z.t # "funcEnd"
    BY <1>0, <1>18 DEF Compare, AtExpr, At
  <2> HIDE DEF x, y, z
  <2>2. <<x, y, z>> \in Seq({x, y, z}) /\ NoEnd(<<x, y, z>>)
    BY <2>1 DEF NoEnd
  <2> QED
    BY <2>1, <2>2, NoEndStep
<1> QED
  BY <1>1, <1>2, <1>3, <1>4, <1>5, <1>6, <1>7, <1>8, <1>9, <1>10, <1>11, <1>12, <1>13,
     <1>14, <1>15, <1>16, <1>17, <1>18 DEF Working

----------------------------------------------------------------------------
(* The steps that leave the lists of functions as they are.                *)

LEMMA WorkingLeaves ==
  ASSUME Working
  PROVE  /\ UNCHANGED <<outer, protos, outcome>>
         /\ outcome = "generating" /\ todo # <<>>
         /\ ~FuncEnd => UNCHANGED functions /\ ~Ended
<1>1. ASSUME \/ VarDecl \/ AssignLocal \/ AssignGlobal \/ If \/ While \/ Return \/ Block
             \/ ExprStmtOther \/ ExprStmtCall
      PROVE  UNCHANGED <<functions, outer, protos, outcome>> /\ At("stmt")
  BY <1>1 DEF VarDecl, AssignLocal, AssignGlobal, If, While, Return, Block, ExprStmtOther,
              ExprStmtCall, OnlyTodo, SameRest, AtStmt
<1>2. ASSUME IntLiteral \/ FloatLiteral \/ BoolLiteral \/ Variable \/ Binary \/ Call \/ Compare
      PROVE  UNCHANGED <<functions, outer, protos, outcome>> /\ At("expr")
  BY <1>2 DEF IntLiteral, FloatLiteral, BoolLiteral, Variable, Binary, Call, Compare,
              OnlyTodo, SameRest, AtExpr
<1>3. ASSUME \/ SetGlobal \/ IfTest \/ IfThenEnd \/ IfElseEnd \/ WhileTest \/ WhileEnd
             \/ EmitReturn \/ CallStmt
      PROVE  UNCHANGED <<functions, outer, protos, outcome>> /\ \E t : At(t) /\ t # "funcEnd"
  BY <1>3 DEF SetGlobal, IfTest, IfThenEnd, IfElseEnd, WhileTest, WhileEnd, EmitReturn,
              CallStmt, SameRest
<1>4. ASSUME BinaryRight \/ BinaryOp \/ CallExpr \/ CompareOp
      PROVE  UNCHANGED <<functions, outer, protos, outcome>> /\ \E t : At(t) /\ t # "funcEnd"
  BY <1>4 DEF BinaryRight, BinaryOp, CallExpr, CompareOp, SameRest
<1>5. ASSUME FuncEnd PROVE UNCHANGED <<outer, protos, outcome>> /\ At("funcEnd")
  BY <1>5 DEF FuncEnd
<1> QED
  BY <1>1, <1>2, <1>3, <1>4, <1>5 DEF Working, At, Ended

LEMMA NoEndEnded ==
  ASSUME Types', NoEnd(todo')
  PROVE  EndsFirst(todo') /\ ~Ended'
<1>1. todo' \in Seq(Task)
  BY DEF Types, TodoType
<1>2. EndsFirst(todo')
  BY <1>1 DEF NoEnd, EndsFirst
<1>3. ASSUME todo' # <<>> PROVE Head(todo') = todo'[1] /\ 1 \in 1..Len(todo')
  BY <1>1, <1>3, TailFacts
<1> QED
  BY <1>2, <1>3 DEF NoEnd, Ended, Task1

LEMMA PlainStepForest ==
  ASSUME Types, Types', Forest, Working, ~FuncEnd
  PROVE  Forest'
<1>1. /\ UNCHANGED <<functions, outer, protos, outcome>>
      /\ ~Ended
  BY WorkingLeaves
<1>2. EndsFirst(todo') /\ ~Ended'
  BY WorkingNoEnd, NoEndEnded DEF Forest, EndsInPlace
<1>3. EndsInPlace' /\ FinishedLists'
  BY <1>1, <1>2 DEF Forest, EndsInPlace, FinishedLists, Finishes
<1>4. GrowingLists => GrowingLists'
  BY <1>1, <1>2 DEF GrowingLists, Generators, Listed, Finishes, Recorded
<1>5. MainIsRoot => MainIsRoot'
  BY <1>1 DEF MainIsRoot, Finishes
<1> QED
  BY <1>1, <1>3, <1>4, <1>5 DEF Forest

LEMMA ChildrenAppend ==
  ASSUME NEW S, NEW fs \in Seq(S), NEW x
  PROVE  /\ Children(Append(fs, x)) = Children(fs) \cup {x.proto}
         /\ Once(fs) /\ x.proto \notin Children(fs) => Once(Append(fs, x))
<1> DEFINE T == S \cup {x}
           gs == Append(fs, x)
<1>1. fs \in Seq(T) /\ x \in T
  OBVIOUS
<1> HIDE DEF T
<1>2. /\ Len(gs) = Len(fs) + 1 /\ Len(fs) \in Nat
      /\ \A n \in 1..Len(fs) : gs[n] = fs[n]
      /\ gs[Len(fs) + 1] = x
  BY <1>1, AppendFacts
<1> HIDE DEF gs
<1>3. \A n : n \in 1..Len(gs) <=> n \in 1..Len(fs) \/ n = Len(fs) + 1
  BY <1>2
<1>4. Children(gs) = Children(fs) \cup {x.proto}
  <2>1. \A c \in Children(gs) : c \in Children(fs) \cup {x.proto}
    BY <1>2, <1>3 DEF Children
  <2>2. \A c \in Children(fs) : c \in Children(gs)
    <3> TAKE c \in Children(fs)
    <3>1. PICK n \in 1..Len(fs) : fs[n].proto = c
      BY DEF Children
    <3>2. n \in 1..Len(gs) /\ gs[n].proto = c
      BY <1>2, <1>3, <3>1
    <3> QED
      BY <3>2 DEF Children
  <2>3. x.proto \in Children(gs)
    <3>1. Len(fs) + 1 \in 1..Len(gs) /\ gs[Len(fs) + 1].proto = x.proto
      BY <1>2
    <3> QED
      BY <3>1 DEF Children
  <2> QED
    BY <2>1, <2>2, <2>3
<1>5. ASSUME Once(fs), x.proto \notin Children(fs) PROVE Once(gs)
  <2>1. \A n \in 1..Len(fs) : fs[n].proto # x.proto
    BY <1>5 DEF Children
  <2> QED
    BY <1>2, <1>3, <1>5, <2>1 DEF Once
<1> QED
  BY <1>4, <1>5 DEF gs

(* FuncEnd records the function that has just been finished.               *)
LEMMA FuncEndForest ==
  ASSUME Types, Types', Forest, FuncEnd
  PROVE  Forest'
<1> DEFINE P == Len(protos)
           L == Len(outer)
           x == [proto |-> P, numParams |-> Task1.params]
<1>1. /\ UNCHANGED <<outer, protos, outcome>> /\ outcome = "generating"
      /\ Ended /\ functions' = Append(functions, x)
  BY WorkingLeaves DEF FuncEnd, At, Ended, Working
<1>2. EndsFirst(todo') /\ ~Ended'
  BY WorkingNoEnd, NoEndEnded DEF Forest, EndsInPlace, Working
<1>3. GrowingLists /\ FinishedLists /\ Recorded = P - 1 /\ Recorded' = P
  BY <1>1, <1>2 DEF Forest, Recorded
<1>4. P \in Nat /\ P > 0 /\ L \in Nat
  <2>1. P \in Nat /\ L \in Nat
    BY DEF Types, ProtosType, OuterType, IsSequence
  <2> QED
    BY <1>3, <2>1 DEF GrowingLists
<1>5. EndsInPlace' /\ FinishedLists'
  BY <1>1, <1>2 DEF Forest, EndsInPlace, FinishedLists, Finishes
<1> DEFINE list(k) == IF k = L + 1 THEN functions ELSE outer[k].functions
           list1(k) == IF k = L + 1 THEN functions' ELSE outer[k].functions
           kids(k) == Children(list(k))
           kids1(k) == Children(list1(k))
           fin(p) == Children(protos[p].functions)
<1>6. /\ Once(functions) /\ Children(functions) \subseteq 1..P-1
      /\ \A k \in 1..L+1 : Once(list(k)) /\ kids(k) \subseteq 1..P-1
      /\ \A k, l \in 1..L+1 : k # l => kids(k) \cap kids(l) = {}
      /\ \A k \in 1..L+1, p \in 1..P : kids(k) \cap fin(p) = {}
      /\ \A c \in 1..P-1 : \/ \E k \in 1..L+1 : c \in kids(k)
                           \/ \E p \in 1..P : c \in fin(p)
      /\ \A p \in 1..P : fin(p) \subseteq 1..p-1
  <2>1. L + 1 \in 1..L+1 /\ list(L + 1) = functions
    BY <1>4
  <2> QED
    BY <1>3, <2>1 DEF GrowingLists, FinishedLists, Listed, Generators, Finishes
<1>7. /\ Children(functions') = Children(functions) \cup {P}
      /\ Once(functions')
  <2>1. P \notin Children(functions)
    BY <1>4, <1>6
  <2> QED
    BY <1>1, <1>6, <2>1, ChildrenAppend DEF Types, FunctionsType
<1>8. ASSUME NEW k \in 1..L+1
      PROVE  /\ Once(list1(k))
             /\ kids1(k) = IF k = L + 1 THEN kids(k) \cup {P} ELSE kids(k)
  <2>1. CASE k = L + 1
    BY <1>7, <2>1
  <2>2. CASE k # L + 1
    <3>1. list1(k) = list(k)
      BY <2>2
    <3> HIDE DEF list, list1
    <3> QED
      BY <1>6, <2>2, <3>1
  <2> QED
    BY <2>1, <2>2
<1> HIDE DEF list, list1, kids, kids1, fin
<1>9. /\ \A k \in 1..L+1 : P \notin kids(k) /\ kids1(k) \subseteq 1..P
      /\ \A p \in 1..P : P \notin fin(p)
  <2>1. ASSUME NEW k \in 1..L+1 PROVE P \notin kids(k) /\ kids1(k) \subseteq 1..P
    <3>1. kids(k) \subseteq 1..P-1
      BY <1>6
    <3>2. kids1(k) \subseteq kids(k) \cup {P}
      BY <1>8
    <3> QED
      BY <1>4, <3>1, <3>2
  <2>2. ASSUME NEW p \in 1..P PROVE P \notin fin(p)
    <3>1. fin(p) \subseteq 1..p-1
      BY <1>6
    <3> QED
      BY <1>4, <3>1
  <2> QED
    BY <2>1, <2>2
<1>10. \A k, l \in 1..L+1 : k # l => kids1(k) \cap kids1(l) = {}
  <2> SUFFICES ASSUME NEW k \in 1..L+1, NEW l \in 1..L+1, k # l
               PROVE  kids1(k) \cap kids1(l) = {}
    OBVIOUS
  <2>1. kids(k) \cap kids(l) = {} /\ P \notin kids(k) /\ P \notin kids(l)
    BY <1>6, <1>9
  <2>2. kids1(k) = kids(k) \/ kids1(l) = kids(l)
    BY <1>8
  <2>3. kids1(k) \subseteq kids(k) \cup {P} /\ kids1(l) \subseteq kids(l) \cup {P}
    BY <1>8
  <2> QED
    BY <2>1, <2>2, <2>3
<1>11. \A k \in 1..L+1, p \in 1..P : kids1(k) \cap fin(p) = {}
  <2> TAKE k \in 1..L+1, p \in 1..P
  <2>1. kids(k) \cap fin(p) = {} /\ kids1(k) \subseteq kids(k) \cup {P} /\ P \notin fin(p)
    BY <1>6, <1>8, <1>9
  <2> QED
    BY <2>1
<1>12. \A c \in 1..P : \/ \E k \in 1..L+1 : c \in kids1(k)
                       \/ \E p \in 1..P : c \in fin(p)
  <2> TAKE c \in 1..P
  <2>1. CASE c = P
    <3>1. L + 1 \in 1..L+1 /\ c \in kids1(L + 1)
      BY <1>4, <1>8, <2>1
    <3> QED
      BY <3>1
  <2>2. CASE c \in 1..P-1
    BY <1>6, <1>8, <2>2
  <2> QED
    BY <1>4, <2>1, <2>2
<1>13. GrowingLists'
  BY <1>1, <1>3, <1>4, <1>8, <1>9, <1>10, <1>11, <1>12, ZenonT(60)
     DEF GrowingLists, Listed, Generators, Finishes, list1, kids1, fin
<1> QED
  BY <1>1, <1>5, <1>13 DEF Forest

(* FuncDecl suspends the generator and starts one that has no functions.   *)
LEMMA FuncDeclForest ==
  ASSUME Types, Types', Forest, FuncDecl
  PROVE  Forest'
<1> DEFINE P == Len(protos)
           L == Len(outer)
           end == [t |-> "funcEnd", name |-> Task1.s.name, params |-> Len(Task1.s.params)]
           rest == <<end>> \o Tail(todo)
           up == [instructions |-> instructions, constants |-> constants,
                  constantIndex |-> constantIndex, locals |-> locals,
                  localIndex |-> localIndex, currentStack |-> currentStack,
                  maxStack |-> maxStack, functions |-> functions, todo |-> rest]
           S == {outer[n] : n \in 1..Len(outer)} \cup {up}
<1>1. /\ UNCHANGED <<protos, outcome>> /\ outcome = "generating"
      /\ todo # <<>> /\ ~Ended /\ functions' = <<>>
      /\ todo' = generateStatements(Task1.s.body) /\ Task1.s.body \in Seq(Stmt)
      /\ outer' = Append(outer, up)
  BY AtStmtType, StmtFields DEF FuncDecl, AtStmt, At, Ended
<1>2. EndsFirst(todo') /\ ~Ended'
  BY <1>1, NoEndStatements, NoEndEnded
<1>3. up.functions = functions /\ up.todo = rest
  OBVIOUS
<1>4. /\ rest # <<>> /\ Head(rest).t = "funcEnd" /\ EndsFirst(rest)
  <2> DEFINE T == Task \cup {end}
  <2>1. todo \in Seq(Task) /\ Tail(todo) \in Seq(T) /\ <<end>> \in Seq(T)
    BY <1>1, HeadType DEF Types, TodoType
  <2>2. /\ Len(Tail(todo)) = Len(todo) - 1 /\ Len(todo) \in Nat
        /\ \A n \in 1..Len(Tail(todo)) : Tail(todo)[n] = todo[n + 1]
    BY <1>1, <2>1, TailFacts
  <2>3. end.t = "funcEnd" /\ Len(<<end>>) = 1 /\ <<end>>[1] = end
    OBVIOUS
  <2> HIDE DEF T, end
  <2>4. /\ rest \in Seq(T) /\ Len(rest) = Len(todo)
        /\ rest[1] = end
        /\ \A n \in 1..Len(Tail(todo)) : rest[1 + n] = Tail(todo)[n]
    BY <2>1, <2>2, <2>3, ConcatFacts
  <2> HIDE DEF rest
  <2>5. ASSUME NEW n \in 2..Len(rest) PROVE rest[n].t # "funcEnd"
    <3>1. n - 1 \in 1..Len(Tail(todo)) /\ 1 + (n - 1) = n /\ n \in 2..Len(todo)
      BY <2>2, <2>4
    <3>2. rest[n] = todo[n]
      <4>1. rest[n] = Tail(todo)[n - 1]
        BY <2>4, <3>1
      <4>2. Tail(todo)[n - 1] = todo[n]
        BY <2>2, <3>1
      <4> QED
        BY <4>1, <4>2
    <3> QED
      BY <3>1, <3>2 DEF Forest, EndsInPlace, EndsFirst
  <2>6. rest # <<>> /\ Head(rest) = end
    <3>1. Len(todo) > 0
      BY <1>1, <2>1
    <3>2. rest # <<>>
      BY <2>4, <3>1
    <3> QED
      BY <2>4, <3>2, TailFacts
  <2> QED
    BY <2>3, <2>5, <2>6 DEF EndsFirst
<1> HIDE DEF rest, up
<1>5. /\ Len(outer') = L + 1 /\ L \in Nat
      /\ \A k \in 1..L : outer'[k] = outer[k]
      /\ outer'[L + 1] = up
  <2>1. outer \in Seq({outer[n] : n \in 1..Len(outer)})
    BY DEF Types, OuterType, IsSequence
  <2>2. outer \in Seq(S) /\ up \in S
    BY <2>1
  <2> HIDE DEF S
  <2> QED
    BY <1>1, <2>2, AppendFacts
<1>6. EndsInPlace'
  <2>1. ASSUME NEW k \in 1..L+1
        PROVE  /\ outer'[k].todo # <<>> /\ Head(outer'[k].todo).t = "funcEnd"
               /\ EndsFirst(outer'[k].todo)
    <3>1. CASE k \in 1..L
      BY <1>5, <3>1 DEF Forest, EndsInPlace
    <3>2. CASE k = L + 1
      BY <1>3, <1>4, <1>5, <3>2
    <3> QED
      BY <1>5, <3>1, <3>2
  <2> QED
    BY <1>2, <1>5, <2>1 DEF EndsInPlace
<1>7. FinishedLists'
  BY <1>1 DEF Forest, FinishedLists, Finishes
<1> DEFINE list(k) == IF k = L + 1 THEN functions ELSE outer[k].functions
           list1(k) == IF k = L + 2 THEN functions' ELSE outer'[k].functions
           kids(k) == Children(list(k))
           kids1(k) == Children(list1(k))
           fin(p) == Children(protos[p].functions)
<1>8. /\ P \in Nat /\ Recorded = P /\ Recorded' = P
      /\ \A k \in 1..L+1 : Once(list(k)) /\ kids(k) \subseteq 1..P
      /\ \A k, l \in 1..L+1 : k # l => kids(k) \cap kids(l) = {}
      /\ \A k \in 1..L+1, p \in 1..P : kids(k) \cap fin(p) = {}
      /\ \A c \in 1..P : \/ \E k \in 1..L+1 : c \in kids(k)
                         \/ \E p \in 1..P : c \in fin(p)
  <2>1. Recorded = P /\ Recorded' = P /\ GrowingLists
    BY <1>1, <1>2 DEF Forest, Recorded
  <2> QED
    BY <2>1 DEF GrowingLists, Listed, Generators, Finishes
<1>9. ASSUME NEW k \in 1..L+1 PROVE list1(k) = list(k)
  <2>1. CASE k = L + 1
    BY <1>3, <1>5, <2>1
  <2>2. CASE k \in 1..L
    BY <1>5, <2>2
  <2> QED
    BY <1>5, <2>1, <2>2
<1>10. Once(list1(L + 2)) /\ kids1(L + 2) = {}
  BY <1>1 DEF Once, Children
<1>11. GrowingLists' <=>
         /\ Recorded' \in Nat
         /\ \A k \in 1..L+2 : Once(list1(k)) /\ kids1(k) \subseteq 1..Recorded'
         /\ \A k, l \in 1..L+2 : k # l => kids1(k) \cap kids1(l) = {}
         /\ \A k \in 1..L+2, p \in 1..P : kids1(k) \cap fin(p) = {}
         /\ \A c \in 1..Recorded' : \/ \E k \in 1..L+2 : c \in kids1(k)
                                    \/ \E p \in 1..P : c \in fin(p)
  <2>1. Len(outer') + 1 = L + 2 /\ protos' = protos
    BY <1>1, <1>5
  <2> QED
    BY <2>1 DEF GrowingLists, Listed, Generators, Finishes
<1>12. \A k \in 1..L+1 : kids1(k) = kids(k)
  BY <1>9
<1> HIDE DEF list, list1, kids, kids1, fin
<1>13. \A k : k \in 1..L+2 <=> k \in 1..L+1 \/ k = L + 2
  BY <1>5
<1>14. \A k \in 1..L+2 : Once(list1(k)) /\ kids1(k) \subseteq 1..P
  BY <1>8, <1>9, <1>10, <1>12, <1>13
<1>15. \A k, l \in 1..L+2 : k # l => kids1(k) \cap kids1(l) = {}
  BY <1>8, <1>10, <1>12, <1>13
<1>16. \A k \in 1..L+2, p \in 1..P : kids1(k) \cap fin(p) = {}
  BY <1>8, <1>10, <1>12, <1>13
<1>17. \A c \in 1..P : \/ \E k \in 1..L+2 : c \in kids1(k)
                       \/ \E p \in 1..P : c \in fin(p)
  BY <1>8, <1>12, <1>13
<1>18. GrowingLists'
  BY <1>8, <1>11, <1>14, <1>15, <1>16, <1>17
<1> QED
  BY <1>1, <1>6, <1>7, <1>18 DEF Forest

(* A generator that ends joins the finished ones with the functions it has.*)
LEMMA FinishLists ==
  ASSUME Types, FinishedLists, GrowingLists, Recorded = Len(protos),
         protos' = Append(protos, Finished)
  PROVE  /\ FinishedLists'
         /\ Len(protos') = Len(protos) + 1 /\ Len(protos) \in Nat
         /\ \A p \in 1..Len(protos) : protos'[p] = protos[p]
         /\ protos'[Len(protos) + 1].functions = functions
<1> DEFINE P == Len(protos)
<1>1. Finished \in Proto /\ Finished.functions = functions
  BY FinishedType DEF Finished, Types
<1>2. /\ Len(protos') = P + 1 /\ P \in Nat
      /\ \A p \in 1..P : protos'[p] = protos[p]
      /\ protos'[P + 1].functions = functions
  BY <1>1, AppendFacts DEF Types, ProtosType
<1> DEFINE fin1(p) == Children(protos'[p].functions)
<1>3. Once(functions) /\ Children(functions) \subseteq 1..P
      /\ \A p \in 1..P : Children(functions) \cap Finishes(p) = {}
  <2>1. Len(outer) \in Nat
    BY DEF Types, OuterType, IsSequence
  <2>2. Len(outer) + 1 \in Generators /\ Listed(Len(outer) + 1) = functions
    BY <2>1 DEF Generators, Listed
  <2> QED
    BY <2>2 DEF GrowingLists
<1>4. \A p \in 1..P : fin1(p) = Finishes(p) /\ protos'[p].functions = protos[p].functions
  BY <1>2 DEF Finishes
<1>5. fin1(P + 1) = Children(functions)
  BY <1>2
<1>6. \A p : p \in 1..P+1 <=> p \in 1..P \/ p = P + 1
  BY <1>2
<1>7. \A p \in 1..P+1 : Once(protos'[p].functions) /\ fin1(p) \subseteq 1..p-1
  <2> TAKE p \in 1..P+1
  <2>1. CASE p \in 1..P
    BY <1>4, <2>1 DEF FinishedLists
  <2>2. CASE p = P + 1
    BY <1>2, <1>3, <1>5, <2>2
  <2> QED
    BY <1>6, <2>1, <2>2
<1> HIDE DEF fin1
<1>8. \A p, q \in 1..P+1 : p # q => fin1(p) \cap fin1(q) = {}
  BY <1>3, <1>4, <1>5, <1>6 DEF FinishedLists
<1> QED
  BY <1>2, <1>7, <1>8 DEF FinishedLists, Finishes, fin1

LEMMA EndFunctionForest ==
  ASSUME Types, Types', Forest, EndFunction
  PROVE  Forest'
<1> DEFINE P == Len(protos)
           L == Len(outer)
           up == outer[Len(outer)]
<1>1. /\ UNCHANGED outcome /\ outcome = "generating" /\ todo = <<>> /\ ~Ended
      /\ outer # <<>> /\ protos' = Append(protos, Finished)
      /\ outer' = SubSeq(outer, 1, L - 1)
      /\ functions' = up.functions /\ todo' = up.todo
  BY DEF EndFunction, isMain, Ended
<1>2. /\ Len(outer') = L - 1 /\ L \in Nat /\ L \in 1..L
      /\ \A k \in 1..L-1 : outer'[k] = outer[k]
  <2>1. outer \in Seq({outer[n] : n \in 1..Len(outer)})
    BY DEF Types, OuterType, IsSequence
  <2> QED
    BY <1>1, <2>1, FrontFacts
<1>3. GrowingLists /\ FinishedLists /\ Recorded = P
  BY <1>1 DEF Forest, Recorded
<1>4. /\ FinishedLists'
      /\ Len(protos') = P + 1 /\ P \in Nat
      /\ \A p \in 1..P : protos'[p] = protos[p]
      /\ protos'[P + 1].functions = functions
  BY <1>1, <1>3, FinishLists
<1>5. Ended' /\ EndsFirst(todo')
  BY <1>1, <1>2 DEF Forest, EndsInPlace, Ended, Task1
<1>6. EndsInPlace'
  BY <1>2, <1>5 DEF Forest, EndsInPlace
<1> DEFINE list(k) == IF k = L + 1 THEN functions ELSE outer[k].functions
           list1(k) == IF k = L THEN functions' ELSE outer'[k].functions
           kids(k) == Children(list(k))
           kids1(k) == Children(list1(k))
           fin(p) == Children(protos[p].functions)
           fin1(p) == Children(protos'[p].functions)
<1>7. /\ \A k \in 1..L+1 : Once(list(k)) /\ kids(k) \subseteq 1..P
      /\ \A k, l \in 1..L+1 : k # l => kids(k) \cap kids(l) = {}
      /\ \A k \in 1..L+1, p \in 1..P : kids(k) \cap fin(p) = {}
      /\ \A c \in 1..P : \/ \E k \in 1..L+1 : c \in kids(k)
                         \/ \E p \in 1..P : c \in fin(p)
  BY <1>3 DEF GrowingLists, Listed, Generators, Finishes
<1>8. Recorded' = P
  BY <1>4, <1>5 DEF Recorded
<1>9. ASSUME \A k \in 1..L : Once(list1(k)) /\ kids1(k) \subseteq 1..P,
             \A k, l \in 1..L : k # l => kids1(k) \cap kids1(l) = {},
             \A k \in 1..L, p \in 1..P+1 : kids1(k) \cap fin1(p) = {},
             \A c \in 1..P : \/ \E k \in 1..L : c \in kids1(k)
                             \/ \E p \in 1..P+1 : c \in fin1(p)
      PROVE  GrowingLists'
  <2>1. Len(outer') + 1 = L /\ Len(protos') = P + 1 /\ Recorded' \in Nat
    BY <1>2, <1>4, <1>8
  <2>2. /\ Generators' = 1..L
        /\ \A k \in 1..L : Listed(k)' = list1(k)
        /\ \A p \in 1..P+1 : Finishes(p)' = fin1(p)
    BY <2>1 DEF Listed, Generators, Finishes
  <2> HIDE DEF list1, fin1
  <2>3. (\A k \in Generators : Once(Listed(k)) /\ Children(Listed(k)) \subseteq 1..Recorded)'
    BY <1>8, <1>9, <2>2
  <2>4. (\A k, l \in Generators : k # l => Children(Listed(k)) \cap Children(Listed(l)) = {})'
    BY <1>9, <2>2
  <2>5. (\A k \in Generators, p \in 1..Len(protos) :
           Children(Listed(k)) \cap Finishes(p) = {})'
    BY <1>9, <2>1, <2>2
  <2>6. (\A c \in 1..Recorded : \/ \E k \in Generators : c \in Children(Listed(k))
                                \/ \E p \in 1..Len(protos) : c \in Finishes(p))'
    BY <1>8, <1>9, <2>1, <2>2
  <2> QED
    BY <2>1, <2>3, <2>4, <2>5, <2>6 DEF GrowingLists
<1>10. ASSUME NEW k \in 1..L PROVE list1(k) = list(k)
  <2>1. CASE k = L
    BY <1>1, <1>2, <2>1
  <2>2. CASE k \in 1..L-1
    BY <1>2, <2>2
  <2> QED
    BY <1>2, <2>1, <2>2
<1>11. kids(L + 1) = Children(functions) /\ fin1(P + 1) = Children(functions)
  BY <1>4
<1>12. \A p \in 1..P : fin1(p) = fin(p)
  BY <1>4
<1>13. \A k \in 1..L : kids1(k) = kids(k)
  BY <1>10
<1> HIDE DEF list, list1, kids, kids1, fin, fin1
<1>14. /\ \A k : k \in 1..L+1 <=> k \in 1..L \/ k = L + 1
       /\ \A p : p \in 1..P+1 <=> p \in 1..P \/ p = P + 1
       /\ L + 1 \notin 1..L
  BY <1>2, <1>4
<1>15. \A k \in 1..L : Once(list1(k)) /\ kids1(k) \subseteq 1..P
  BY <1>7, <1>10, <1>13, <1>14
<1>16. \A k, l \in 1..L : k # l => kids1(k) \cap kids1(l) = {}
  BY <1>7, <1>13, <1>14
<1>17. \A k \in 1..L, p \in 1..P+1 : kids1(k) \cap fin1(p) = {}
  <2> TAKE k \in 1..L, p \in 1..P+1
  <2>1. CASE p \in 1..P
    BY <1>7, <1>12, <1>13, <1>14, <2>1
  <2>2. CASE p = P + 1
    <3>1. kids(k) \cap kids(L + 1) = {}
      BY <1>7, <1>14
    <3> QED
      BY <1>11, <1>13, <2>2, <3>1
  <2> QED
    BY <1>14, <2>1, <2>2
<1>18. \A c \in 1..P : \/ \E k \in 1..L : c \in kids1(k)
                       \/ \E p \in 1..P+1 : c \in fin1(p)
  <2> TAKE c \in 1..P
  <2>1. ASSUME NEW p \in 1..P, c \in fin(p)
        PROVE  \E q \in 1..P+1 : c \in fin1(q)
    BY <1>12, <1>14, <2>1
  <2>2. ASSUME NEW k \in 1..L+1, c \in kids(k)
        PROVE  \/ \E l \in 1..L : c \in kids1(l)
               \/ \E p \in 1..P+1 : c \in fin1(p)
    <3>1. CASE k \in 1..L
      BY <1>13, <2>2, <3>1
    <3>2. CASE k = L + 1
      BY <1>11, <1>14, <2>2, <3>2
    <3> QED
      BY <1>14, <2>2, <3>1, <3>2
  <2> QED
    BY <1>7, <2>1, <2>2
<1>19. GrowingLists'
  BY <1>9, <1>15, <1>16, <1>17, <1>18
<1> QED
  BY <1>1, <1>4, <1>6, <1>19 DEF Forest

LEMMA EndMainForest ==
  ASSUME Types, Types', Forest, EndMain
  PROVE  Forest'
<1> DEFINE P == Len(protos)
<1>1. /\ UNCHANGED <<outer, functions, todo>> /\ outcome = "generating" /\ ~Ended
      /\ outer = <<>> /\ protos' = Append(protos, Finished) /\ outcome' # "generating"
  BY DEF EndMain, genVars, isMain, Ended
<1>2. GrowingLists /\ FinishedLists /\ Recorded = P
  BY <1>1 DEF Forest, Recorded
<1>3. /\ FinishedLists'
      /\ Len(protos') = P + 1 /\ P \in Nat
      /\ \A p \in 1..P : protos'[p] = protos[p]
      /\ protos'[P + 1].functions = functions
  BY <1>1, <1>2, FinishLists
<1>4. EndsInPlace'
  BY <1>1 DEF Forest, EndsInPlace
<1>5. ASSUME NEW c \in 1..P
      PROVE  \E p \in 1..P+1 : c \in Children(protos'[p].functions)
  <2>1. Generators = 1..1 /\ Listed(1) = functions
    BY <1>1 DEF Generators, Listed
  <2>2. \/ c \in Children(functions)
        \/ \E p \in 1..P : c \in Children(protos[p].functions)
    BY <1>2, <2>1 DEF GrowingLists, Finishes
  <2>3. P + 1 \in 1..P+1 /\ \A p \in 1..P : p \in 1..P+1
    BY <1>3
  <2> QED
    BY <1>3, <2>2, <2>3
<1>6. MainIsRoot'
  <2>1. Len(protos') - 1 = P /\ Len(protos') > 0
    BY <1>3
  <2> QED
    BY <1>3, <1>5, <2>1 DEF MainIsRoot, Finishes
<1> QED
  BY <1>1, <1>3, <1>4, <1>6 DEF Forest

LEMMA InitForest == Init => Forest
<1> SUFFICES ASSUME Init PROVE Forest
  OBVIOUS
<1>1. /\ todo = generateStatements(program) /\ program \in Seq(Stmt)
      /\ outer = <<>> /\ protos = <<>> /\ functions = <<>> /\ outcome = "generating"
  BY ProgramsAssumption DEF Init
<1>2. NoEnd(todo) /\ todo \in Seq(Task)
  BY <1>1, NoEndStatements
<1>3. ~Ended /\ EndsFirst(todo)
  BY <1>2, TailFacts DEF NoEnd, EndsFirst, Ended, Task1
<1>4. EndsInPlace /\ FinishedLists
  BY <1>1, <1>3 DEF EndsInPlace, FinishedLists
<1>5. Recorded = 0 /\ Generators = 1..1 /\ Listed(1) = <<>>
  BY <1>1, <1>3 DEF Recorded, Generators, Listed
<1>6. Once(<<>>) /\ Children(<<>>) = {}
  BY DEF Once, Children
<1>7. GrowingLists
  BY <1>1, <1>5, <1>6 DEF GrowingLists
<1> QED
  BY <1>1, <1>4, <1>7 DEF Forest

LEMMA NextForest == Types /\ Types' /\ Forest /\ [Next]_vars => Forest'
<1> SUFFICES ASSUME Types, Types', Forest, [Next]_vars PROVE Forest'
  OBVIOUS
<1>1. CASE Working
  BY <1>1, PlainStepForest, FuncEndForest
<1>2. CASE FuncDecl
  BY <1>2, FuncDeclForest
<1>3. CASE EndFunction
  BY <1>3, EndFunctionForest
<1>4. CASE EndMain
  BY <1>4, EndMainForest
<1>5. CASE UNCHANGED vars
  BY <1>5 DEF vars, genVars, Forest, EndsInPlace, FinishedLists, GrowingLists, MainIsRoot,
              Recorded, Ended, Task1, Generators, Listed, Finishes
<1> QED
  BY <1>1, <1>2, <1>3, <1>4, <1>5 DEF Next, Working

LEMMA ForestIsTree ==
  ASSUME Types, Forest
  PROVE  Tree
<1> SUFFICES ASSUME outcome # "generating", NEW child \in 1..Len(protos)-1
             PROVE  \E r \in References :
                      /\ protos[r[1]].functions[r[2]].proto = child /\ child < r[1]
                      /\ \A q \in References :
                           protos[q[1]].functions[q[2]].proto = child => q = r
  BY DEF Tree
<1>1. FinishedLists /\ MainIsRoot /\ Len(protos) \in Nat
  BY DEF Forest, Types, ProtosType
<1>2. PICK p \in 1..Len(protos) : child \in Children(protos[p].functions)
  BY <1>1 DEF MainIsRoot, Finishes
<1>3. PICK n \in 1..Len(protos[p].functions) : protos[p].functions[n].proto = child
  BY <1>2 DEF Children
<1>4. \A r : r \in References <=> \E o \in 1..Len(protos) :
                                \E m \in 1..Len(protos[o].functions) : r = <<o, m>>
  <2>1. \A o, S, r : r \in {o} \X S <=> \E m \in S : r = <<o, m>>
    OBVIOUS
  <2>2. \A r : r \in References <=> \E o \in 1..Len(protos) :
                                    r \in {o} \X (1..Len(protos[o].functions))
    BY Zenon DEF References
  <2>3. ASSUME NEW o \in 1..Len(protos), NEW r
        PROVE  r \in {o} \X (1..Len(protos[o].functions))
                 <=> \E m \in 1..Len(protos[o].functions) : r = <<o, m>>
    BY <2>1
  <2> QED
    BY <2>2, <2>3
<1>5. <<p, n>> \in References
  BY <1>4
<1>6. child < p
  <2>1. child \in 1..p-1
    BY <1>1, <1>2 DEF FinishedLists, Finishes
  <2> QED
    BY <2>1
<1>7. ASSUME NEW q \in References, protos[q[1]].functions[q[2]].proto = child
      PROVE  q = <<p, n>>
  <2>1. PICK o \in 1..Len(protos) : \E m \in 1..Len(protos[o].functions) : q = <<o, m>>
    BY <1>4
  <2>2. PICK m \in 1..Len(protos[o].functions) : q = <<o, m>>
    BY <2>1
  <2>3. protos[o].functions[m].proto = child
    BY <1>7, <2>2
  <2>4. child \in Children(protos[o].functions)
    BY <2>3 DEF Children
  <2>5. o = p
    BY <1>1, <1>2, <2>4 DEF FinishedLists, Finishes
  <2>6. m = n
    BY <1>1, <1>3, <2>3, <2>5 DEF FinishedLists, Once
  <2> QED
    BY <2>2, <2>5, <2>6
<1> QED
  BY <1>3, <1>5, <1>6, <1>7

(* Each function of a chunk but the main one belongs to exactly one        *)
(* function, finished after it (FuncDecl's functions.add), so that         *)
(* writeFunction's recursion ends and writes each of them once.            *)
THEOREM FunctionsAreTree == Spec => []Tree
<1>1. Spec => []Types
  BY InitTypes, NextTypes, PTL DEF Spec
<1>2. Spec => []Forest
  BY <1>1, InitForest, NextForest, PTL DEF Spec
<1>3. Types /\ Forest => Tree
  BY ForestIsTree
<1> QED
  BY <1>1, <1>2, <1>3, PTL

----------------------------------------------------------------------------
(***************************************************************************)
(* The frame a function asks for holds every register its code names.      *)
(*                                                                         *)
(* A generator hands out a register before maxStack counts it: those of a  *)
(* call's arguments are counted when the call is emitted.  So a register   *)
(* is in the frame, or the rest of a call that is still in todo will put   *)
(* it there: that rest counts up to where currentStack will be when it is  *)
(* taken up, which depends on the tasks before it.                         *)
(***************************************************************************)

(* The tasks that set currentStack to a value they remember.               *)
Restores(x) == x.t \in {"ifTest", "ifThenEnd", "ifElseEnd", "whileTest", "whileEnd",
                        "callStmt", "callExpr", "compare"}
Restored(x) == IF x.t = "callStmt" THEN x.func ELSE x.saved

(* currentStack is at least v when task k of a list is taken up, if it is  *)
(* cur now: no task but those that restore it makes it smaller.            *)
Level(tasks, cur, k, v) ==
  \/ v = cur /\ \A j \in 1..k-1 : ~Restores(tasks[j])
  \/ \E j \in 1..k-1 : /\ Restores(tasks[j]) /\ v = Restored(tasks[j])
                       /\ \A i \in j+1..k-1 : ~Restores(tasks[i])

IsCall(x) == x.t \in {"callStmt", "callExpr"}
(* What the rest of a call counts, taken up at level v.                    *)
Counts(x, v) == IF x.t = "callExpr" THEN v + x.inc ELSE x.next

(* Register r is counted, or a task after the first k will count it.       *)
Covered(tasks, cur, max, k, r) ==
  \/ r < max + STACK_EXTRA
  \/ \E j \in k+1..Len(tasks) :
       IsCall(tasks[j]) /\ \E v \in Nat : Level(tasks, cur, j, v) /\ r < Counts(tasks[j], v)

Statements == {"stmt", "ifThenEnd", "ifElseEnd", "whileEnd"}
Within == {"expr", "binRight", "binOp", "callExpr", "compare"}
Nests(x) == x.t \in {"ifThenEnd", "ifElseEnd", "whileEnd"}
DeclaringTask(x) == x.t = "funcEnd" \/ (x.t = "stmt" /\ Declares(x.s))

(* Expressions before the rest of their statement before statements, and   *)
(* no declaration inside an if, while or block.                            *)
FlatTask(x) ==
  /\ x.t = "stmt" => Flat[x.s]
  /\ x.t = "ifTest" => AllOf(Bare, x.then) /\ AllOf(Bare, x.else)
  /\ x.t = "ifThenEnd" => AllOf(Bare, x.else)
  /\ x.t = "whileTest" => AllOf(Bare, x.body)
Ordered(tasks) ==
  /\ \A k \in 1..Len(tasks) : FlatTask(tasks[k])
  /\ \A i \in 1..Len(tasks), j \in 1..Len(tasks) : i < j =>
       /\ tasks[i].t \notin Within => tasks[j].t \in Statements
       /\ tasks[i].t = "funcEnd" => tasks[j].t = "stmt"
       /\ tasks[i].t = "stmt" /\ Nests(tasks[j]) => Bare[tasks[i].s]

(* The registers a task remembers.                                         *)
Remembers(x, max) ==
  /\ x.t \in {"ifTest", "ifThenEnd", "ifElseEnd", "whileTest", "whileEnd"} => x.saved <= max
  /\ x.t \in {"setGlobal", "return"} => x.reg <= max
  /\ x.t = "callStmt" => x.next + Len(x.args) >= x.func + 1 + x.n
  /\ x.t = "compare" => x.dest + 3 <= max
  /\ x.t = "binOp" => x.right + 1 <= max
AtLevel(x, v, max, declared) ==
  /\ x.t \in Statements \cup {"funcEnd"} => v <= max
  /\ DeclaringTask(x) => declared <= v
  /\ x.t = "callExpr" => v + x.inc + Len(x.args) >= x.func + 1 + x.n

(* The registers code names.                                               *)
Named(code) == UNION {Registers(code[n]) : n \in 1..Len(code)}

FrameOK(code, tasks, cur, max, declared) ==
  /\ Ordered(tasks)
  /\ declared <= max
  /\ \A k \in 1..Len(tasks) : Remembers(tasks[k], max)
  /\ \A k \in 1..Len(tasks) : \A v \in Nat :
       Level(tasks, cur, k, v) => AtLevel(tasks[k], v, max, declared)
  /\ \A k \in 1..Len(tasks) :
       tasks[k].t \in {"expr", "binRight", "binOp"} => Covered(tasks, cur, max, k, tasks[k].dest)
  /\ \A r \in Named(code) : Covered(tasks, cur, max, 0, r)

HereFrame == FrameOK(instructions, todo, currentStack, maxStack, Len(locals))
GeneratorFrame(g) == FrameOK(g.instructions, g.todo, g.currentStack, g.maxStack, Len(g.locals))
Frames ==
  AllOf(Flat, program) =>
    /\ HereFrame
    /\ \A k \in 1..Len(outer) : GeneratorFrame(outer[k])
    /\ \A p \in 1..Len(protos) : FrameFits(protos[p])

----------------------------------------------------------------------------
(* Levels and cover, when tasks take the place of the first one.           *)

Replaces(old, tasks, new) ==
  /\ old \in Seq(Task) /\ tasks \in Seq(Task) /\ new \in Seq(Task)
  /\ Len(old) \in Nat \ {0} /\ Len(tasks) \in Nat /\ Len(new) = Len(tasks) + Len(old) - 1
  /\ \A n \in 1..Len(tasks) : new[n] = tasks[n]
  /\ \A n \in Len(tasks)+1..Len(new) : new[n] = old[n - Len(tasks) + 1]

LEMMA ReplacedTail ==
  ASSUME NEW T, NEW N, NEW U, Replaces(T, N, U), NEW k \in 2..Len(T)
  PROVE  Len(N) + k - 1 \in Len(N)+1..Len(U) /\ U[Len(N) + k - 1] = T[k]
<1>1. Len(N) + k - 1 \in Len(N)+1..Len(U) /\ Len(N) + k - 1 - Len(N) + 1 = k
  BY DEF Replaces
<1> QED
  BY <1>1 DEF Replaces

(* Where currentStack is after a task that now has cur to start from.      *)
After(x, cur) == IF Restores(x) THEN Restored(x) ELSE cur
EndsAt(tasks, cur, e) == \A v : Level(tasks, cur, Len(tasks) + 1, v) <=> v = e

LEMMA LevelBack ==
  ASSUME NEW T, NEW N, NEW U, Replaces(T, N, U), NEW c, NEW d, NEW e, EndsAt(N, d, e),
         NEW k \in 2..Len(T), NEW v, Level(U, d, Len(N) + k - 1, v)
  PROVE  \/ Level(T, c, k, v) /\ \E j \in 2..k-1 : Restores(T[j])
         \/ v = e /\ Level(T, c, k, After(T[1], c))
<1> DEFINE m == Len(N)
           p == Len(N) + k - 1
<1>1. /\ m \in Nat /\ Len(T) \in Nat /\ p = m + k - 1
      /\ \A n \in 1..m : U[n] = N[n]
      /\ \A i \in 2..k-1 : U[m + i - 1] = T[i]
  <2>1. \A i \in 2..k-1 : i \in 2..Len(T)
    BY DEF Replaces
  <2>2. \A i \in 2..k-1 : U[Len(N) + i - 1] = T[i]
    BY <2>1, ReplacedTail
  <2>3. Len(N) \in Nat /\ Len(T) \in Nat /\ \A n \in 1..Len(N) : U[n] = N[n]
    BY DEF Replaces
  <2> QED
    BY <2>2, <2>3
<1> HIDE DEF m, p
<1>2. Level(N, d, m + 1, v) => v = e
  BY DEF EndsAt, m
<1>3. CASE \E j \in 2..k-1 : Restores(T[j])
  <2>1. PICK j0 \in 2..k-1 : Restores(T[j0])
    BY <1>3
  <2>2. m + j0 - 1 \in 1..p-1 /\ Restores(U[m + j0 - 1])
    BY <1>1, <2>1
  <2>3. PICK j \in 1..p-1 : /\ Restores(U[j]) /\ v = Restored(U[j])
                            /\ \A i \in j+1..p-1 : ~Restores(U[i])
    BY <2>2 DEF Level, p
  <2>4. j >= m + j0 - 1
    BY <1>1, <2>2, <2>3
  <2> DEFINE i == j - m + 1
  <2>5. i \in 2..k-1 /\ j = m + i - 1
    BY <1>1, <2>1, <2>3, <2>4
  <2> HIDE DEF i
  <2>6. Restores(T[i]) /\ v = Restored(T[i])
    BY <1>1, <2>3, <2>5
  <2>7. ASSUME NEW h \in i+1..k-1 PROVE ~Restores(T[h])
    <3>1. h \in 2..k-1 /\ m + h - 1 \in j+1..p-1
      BY <1>1, <2>3, <2>5
    <3> QED
      BY <1>1, <2>3, <3>1
  <2>8. i \in 1..k-1
    BY <1>1, <2>5
  <2> QED
    BY <1>3, <2>6, <2>7, <2>8 DEF Level
<1>4. CASE ~ \E j \in 2..k-1 : Restores(T[j])
  <2>1. \A j \in m+1..p-1 : ~Restores(U[j])
    <3> TAKE j \in m+1..p-1
    <3> DEFINE i == j - m + 1
    <3>1. i \in 2..k-1 /\ j = m + i - 1
      BY <1>1
    <3> HIDE DEF i
    <3> QED
      BY <1>1, <1>4, <3>1
  <2>2. Level(N, d, m + 1, v)
    <3>1. CASE v = d /\ \A j \in 1..p-1 : ~Restores(U[j])
      <4>1. \A j \in 1..(m+1)-1 : ~Restores(N[j])
        <5> TAKE j \in 1..(m+1)-1
        <5>1. j \in 1..m /\ j \in 1..p-1
          BY <1>1
        <5> QED
          BY <1>1, <3>1, <5>1
      <4> QED
        BY <3>1, <4>1, Zenon DEF Level
    <3>2. ASSUME NEW j \in 1..p-1, Restores(U[j]), v = Restored(U[j]),
                 \A i \in j+1..p-1 : ~Restores(U[i])
          PROVE  Level(N, d, m + 1, v)
      <4>1. j \in 1..m
        BY <1>1, <2>1, <3>2
      <4>2. Restores(N[j]) /\ v = Restored(N[j]) /\ j \in 1..(m+1)-1
        BY <1>1, <3>2, <4>1
      <4>3. \A i \in j+1..(m+1)-1 : ~Restores(N[i])
        <5> TAKE i \in j+1..(m+1)-1
        <5>1. i \in 1..m /\ i \in j+1..p-1
          BY <1>1, <4>1
        <5> QED
          BY <1>1, <3>2, <5>1
      <4> QED
        BY <4>2, <4>3, Zenon DEF Level
    <3> QED
      BY <3>1, <3>2 DEF Level, p
  <2>3. Level(T, c, k, After(T[1], c))
    <3>1. CASE Restores(T[1])
      <4>1. 1 \in 1..k-1 /\ \A i \in 1+1..k-1 : i \in 2..k-1
        BY <1>1
      <4> QED
        BY <1>4, <3>1, <4>1 DEF Level, After
    <3>2. CASE ~Restores(T[1])
      <4>1. \A i \in 1..k-1 : i = 1 \/ i \in 2..k-1
        BY <1>1
      <4> QED
        BY <1>4, <3>2, <4>1 DEF Level, After
    <3> QED
      BY <3>1, <3>2
  <2> QED
    BY <1>2, <2>2, <2>3
<1> QED
  BY <1>3, <1>4

LEMMA LevelFore ==
  ASSUME NEW T, NEW N, NEW U, Replaces(T, N, U), NEW c, NEW d, NEW e, EndsAt(N, d, e),
         NEW k \in 2..Len(T), NEW v, Level(T, c, k, v)
  PROVE  \/ Level(U, d, Len(N) + k - 1, v)
         \/ v = After(T[1], c) /\ Level(U, d, Len(N) + k - 1, e)
<1> DEFINE m == Len(N)
           p == Len(N) + k - 1
<1>1. /\ m \in Nat /\ Len(T) \in Nat /\ p = m + k - 1
      /\ \A n \in 1..m : U[n] = N[n]
      /\ \A i \in 2..k-1 : U[m + i - 1] = T[i]
  <2>1. \A i \in 2..k-1 : i \in 2..Len(T)
    BY DEF Replaces
  <2>2. \A i \in 2..k-1 : U[Len(N) + i - 1] = T[i]
    BY <2>1, ReplacedTail
  <2>3. Len(N) \in Nat /\ Len(T) \in Nat /\ \A n \in 1..Len(N) : U[n] = N[n]
    BY DEF Replaces
  <2> QED
    BY <2>2, <2>3
<1> HIDE DEF m, p
<1>2. Level(N, d, m + 1, e)
  BY DEF EndsAt, m
<1>3. ASSUME NEW j \in 2..k-1, Restores(T[j]), v = Restored(T[j]),
             \A i \in j+1..k-1 : ~Restores(T[i])
      PROVE  Level(U, d, p, v)
  <2>1. m + j - 1 \in 1..p-1 /\ Restores(U[m + j - 1]) /\ v = Restored(U[m + j - 1])
    BY <1>1, <1>3
  <2>2. ASSUME NEW h \in (m+j-1)+1..p-1 PROVE ~Restores(U[h])
    <3> DEFINE i == h - m + 1
    <3>1. i \in j+1..k-1 /\ i \in 2..k-1 /\ h = m + i - 1
      BY <1>1
    <3> HIDE DEF i
    <3> QED
      BY <1>1, <1>3, <3>1
  <2> QED
    BY <2>1, <2>2 DEF Level
<1>4. ASSUME \A j \in 2..k-1 : ~Restores(T[j])
      PROVE  v = After(T[1], c) /\ Level(U, d, p, e)
  <2>1. v = After(T[1], c)
    <3>1. 1 \in 1..k-1 /\ \A i \in 1..k-1 : i = 1 \/ i \in 2..k-1
      BY <1>1
    <3> QED
      BY <1>4, <3>1 DEF Level, After
  <2>2. \A j \in m+1..p-1 : ~Restores(U[j])
    <3> TAKE j \in m+1..p-1
    <3> DEFINE i == j - m + 1
    <3>1. i \in 2..k-1 /\ j = m + i - 1
      BY <1>1
    <3> HIDE DEF i
    <3> QED
      BY <1>1, <1>4, <3>1
  <2>3. \A j \in 1..p-1 : j \in 1..m \/ j \in m+1..p-1
    BY <1>1
  <2>4. \A j \in 1..m : j \in 1..p-1
    BY <1>1
  <2>5. CASE e = d /\ \A j \in 1..(m+1)-1 : ~Restores(N[j])
    <3>1. \A j \in 1..m : ~Restores(U[j])
      BY <1>1, <2>5
    <3> QED
      BY <2>1, <2>2, <2>3, <2>5, <3>1 DEF Level
  <2>6. ASSUME NEW j \in 1..(m+1)-1, Restores(N[j]), e = Restored(N[j]),
               \A i \in j+1..(m+1)-1 : ~Restores(N[i])
        PROVE  Level(U, d, p, e)
    <3>1. j \in 1..m /\ j \in 1..p-1 /\ Restores(U[j]) /\ e = Restored(U[j])
      BY <1>1, <2>4, <2>6
    <3>2. ASSUME NEW i \in j+1..p-1 PROVE ~Restores(U[i])
      <4>1. CASE i \in 1..m
        <5>1. i \in j+1..(m+1)-1
          BY <1>1, <4>1
        <5> QED
          BY <1>1, <2>6, <4>1, <5>1
      <4>2. CASE i \in m+1..p-1
        BY <2>2, <4>2
      <4> QED
        BY <1>1, <2>3, <3>1, <4>1, <4>2
    <3> QED
      BY <3>1, <3>2 DEF Level
  <2>7. Level(U, d, p, e)
    BY <1>2, <2>5, <2>6, Zenon DEF Level
  <2> QED
    BY <2>1, <2>7
<1>5. CASE \E j \in 2..k-1 : Restores(T[j])
  <2>1. PICK j0 \in 2..k-1 : Restores(T[j0])
    BY <1>5
  <2>2. j0 \in 1..k-1
    BY <1>1
  <2>3. PICK j \in 1..k-1 : /\ Restores(T[j]) /\ v = Restored(T[j])
                            /\ \A i \in j+1..k-1 : ~Restores(T[i])
    BY <2>1, <2>2 DEF Level
  <2>4. j \in 2..k-1
    BY <1>1, <2>1, <2>3
  <2> QED
    BY <1>3, <2>3, <2>4 DEF p
<1> QED
  BY <1>4, <1>5 DEF p

(* A cover stays one.                                                      *)
LEMMA CoveredLater ==
  ASSUME NEW T, NEW N, NEW U, Replaces(T, N, U), NEW c \in Nat, NEW d \in Nat, NEW e \in Nat,
         EndsAt(N, d, e), After(T[1], c) <= e,
         NEW max \in Nat, NEW max1 \in Nat, max <= max1,
         NEW k \in 1..Len(T), NEW r \in Int, Covered(T, c, max, k, r),
         NEW m \in 0..Len(N)+k-1
  PROVE  Covered(U, d, max1, m, r)
<1>1. CASE r < max + STACK_EXTRA
  BY <1>1 DEF Covered, STACK_EXTRA
<1>2. ASSUME NEW j \in k+1..Len(T), IsCall(T[j]), NEW v \in Nat,
             Level(T, c, j, v), r < Counts(T[j], v)
      PROVE  Covered(U, d, max1, m, r)
  <2> DEFINE q == Len(N) + j - 1
  <2>1. j \in 2..Len(T) /\ Len(T) \in Nat /\ Len(N) \in Nat
    BY <1>2, SMTT(30) DEF Replaces
  <2>2. q \in m+1..Len(U) /\ U[q] = T[j]
    <3>1. q \in Len(N)+1..Len(U) /\ U[q] = T[j]
      BY <2>1, ReplacedTail
    <3>2. q >= m + 1
      BY <1>2, <2>1
    <3>3. Len(U) \in Int
      BY <2>1 DEF Replaces
    <3> QED
      BY <2>1, <3>1, <3>2, <3>3
  <2>3. \E w \in Nat : Level(U, d, q, w) /\ v <= w
    <3>1. \/ Level(U, d, q, v)
          \/ v = After(T[1], c) /\ Level(U, d, q, e)
      BY <1>2, <2>1, LevelFore
    <3> HIDE DEF q
    <3>2. v <= v
      OBVIOUS
    <3> QED
      BY <3>1, <3>2
  <2>4. PICK w \in Nat : Level(U, d, q, w) /\ v <= w
    BY <2>3
  <2> HIDE DEF q
  <2>5. T[j] \in Task
    BY <2>1 DEF Replaces
  <2>6. r < Counts(T[j], w)
    <3>1. CASE T[j].t = "callExpr"
      <4>1. T[j].inc \in {0, 1}
        BY <2>5, <3>1, TaskFields
      <4>2. T[j].inc \in Int /\ r < v + T[j].inc
        BY <1>2, <3>1, <4>1 DEF Counts
      <4> DEFINE i == T[j].inc
      <4> HIDE DEF i
      <4>3. i \in Int /\ r < v + i
        BY <4>2 DEF i
      <4>4. r < w + i
        BY <2>4, <4>3
      <4>5. r < w + T[j].inc
        BY <4>4 DEF i
      <4> QED
        BY <3>1, <4>5 DEF Counts
    <3>2. CASE T[j].t # "callExpr"
      BY <1>2, <3>2 DEF Counts
    <3> QED
      BY <3>1, <3>2
  <2> QED
    BY <1>2, <2>2, <2>4, <2>6 DEF Covered
<1> QED
  BY <1>1, <1>2 DEF Covered

LEMMA CoveredCode ==
  ASSUME NEW T, NEW N, NEW U, Replaces(T, N, U), NEW c \in Nat, NEW d \in Nat, NEW e \in Nat,
         EndsAt(N, d, e), After(T[1], c) <= e,
         NEW max \in Nat, NEW max1 \in Nat, max <= max1,
         NEW r \in Int, Covered(T, c, max, 0, r),
         IsCall(T[1]) /\ r < Counts(T[1], c) => Covered(U, d, max1, 0, r)
  PROVE  Covered(U, d, max1, 0, r)
<1>0. Len(T) \in Nat \ {0} /\ Len(N) \in Nat
  BY DEF Replaces
<1>1. CASE Covered(T, c, max, 1, r)
  <2>1. 1 \in 1..Len(T) /\ 0 \in 0..Len(N)+1-1
    BY <1>0
  <2> QED
    BY <1>1, <2>1, CoveredLater
<1>2. ASSUME NEW j \in 0+1..Len(T), IsCall(T[j]), NEW v \in Nat,
             Level(T, c, j, v), r < Counts(T[j], v), ~(j \in 1+1..Len(T))
      PROVE  Covered(U, d, max1, 0, r)
  <2>1. j = 1
    BY <1>0, <1>2
  <2>2. v = c
    BY <1>2, <2>1 DEF Level
  <2> QED
    BY <1>2, <2>1, <2>2
<1> QED
  BY <1>1, <1>2 DEF Covered

----------------------------------------------------------------------------
(* A step keeps the frame if what it adds fits.                            *)

LEMMA RegistersAreNumbers ==
  ASSUME NEW x \in Instruction, NEW r \in Registers(x)
  PROVE  r \in Int
<1>1. x.a \in Int /\ x.b \in Int /\ x.c \in Int
  BY SizeAssumption DEF Instruction
<1>2. \A m \in x.a .. x.a + x.b - 1 : m \in Int
  BY <1>1
<1> QED
  BY <1>1, <1>2 DEF Registers

LEMMA NamedFacts ==
  ASSUME NEW code \in Seq(Instruction)
  PROVE  /\ \A r : r \in Named(code) <=> \E n \in 1..Len(code) : r \in Registers(code[n])
         /\ \A r \in Named(code) : r \in Int
<1>1. \A r : r \in Named(code) <=> \E n \in 1..Len(code) : r \in Registers(code[n])
  BY Zenon DEF Named
<1>2. \A n \in 1..Len(code) : code[n] \in Instruction
  OBVIOUS
<1> QED
  BY <1>1, <1>2, RegistersAreNumbers

(* The first task's successors do not disturb the order.                   *)
NewTasks(first, tasks) ==
  /\ Ordered(tasks)
  /\ \A n \in 1..Len(tasks) :
       /\ tasks[n].t # "funcEnd"
       /\ first.t \in Within => tasks[n].t \in Within
       /\ tasks[n].t = "stmt" => Bare[tasks[n].s]

LEMMA OrderKept ==
  ASSUME NEW T, NEW N, NEW U, Replaces(T, N, U), Ordered(T), NewTasks(T[1], N)
  PROVE  Ordered(U)
<1>1. Len(N) \in Nat /\ Len(T) \in Nat \ {0} /\ Len(U) = Len(N) + Len(T) - 1 /\ 1 \in 1..Len(T)
  BY DEF Replaces
<1>2. ASSUME NEW n \in 1..Len(U)
      PROVE  \/ n \in 1..Len(N) /\ U[n] = N[n]
             \/ /\ n \in Len(N)+1..Len(U) /\ n - Len(N) + 1 \in 2..Len(T)
                /\ U[n] = T[n - Len(N) + 1]
  <2>1. n \in 1..Len(N) \/ n \in Len(N)+1..Len(U)
    BY <1>1
  <2>2. n \in Len(N)+1..Len(U) => n - Len(N) + 1 \in 2..Len(T)
    BY <1>1
  <2> QED
    BY <2>1, <2>2 DEF Replaces
<1>3. ASSUME NEW n \in 1..Len(U) PROVE FlatTask(U[n])
  <2>1. CASE n \in 1..Len(N) /\ U[n] = N[n]
    BY <2>1 DEF NewTasks, Ordered
  <2>2. ASSUME NEW k \in 2..Len(T), U[n] = T[k] PROVE FlatTask(U[n])
    <3>1. k \in 1..Len(T)
      BY <1>1
    <3> QED
      BY <2>2, <3>1 DEF Ordered
  <2> QED
    BY <1>2, <2>1, <2>2
<1>4. ASSUME NEW i \in 1..Len(U), NEW j \in 1..Len(U), i < j
      PROVE  /\ U[i].t \notin Within => U[j].t \in Statements
             /\ U[i].t = "funcEnd" => U[j].t = "stmt"
             /\ U[i].t = "stmt" /\ Nests(U[j]) => Bare[U[i].s]
  <2>1. CASE j \in 1..Len(N) /\ U[j] = N[j]
    <3>1. i \in 1..Len(N) /\ U[i] = N[i]
      BY <1>1, <1>2, <1>4, <2>1
    <3> QED
      BY <1>4, <2>1, <3>1 DEF NewTasks, Ordered
  <2>2. ASSUME NEW k \in 2..Len(T), U[j] = T[k], k = j - Len(N) + 1
        PROVE  /\ U[i].t \notin Within => U[j].t \in Statements
               /\ U[i].t = "funcEnd" => U[j].t = "stmt"
               /\ U[i].t = "stmt" /\ Nests(U[j]) => Bare[U[i].s]
    <3>0. k \in 1..Len(T) /\ 1 < k
      BY <1>1
    <3>1. CASE i \in 1..Len(N) /\ U[i] = N[i]
      <4>1. T[1].t \notin Within => T[k].t \in Statements
        BY <1>1, <3>0 DEF Ordered
      <4>2. U[i].t # "funcEnd"
        BY <3>1 DEF NewTasks
      <4>3. T[1].t \in Within => U[i].t \in Within
        BY <3>1 DEF NewTasks
      <4>4. U[i].t = "stmt" => Bare[U[i].s]
        BY <3>1 DEF NewTasks
      <4> QED
        BY <2>2, <4>1, <4>2, <4>3, <4>4
    <3>2. ASSUME NEW h \in 2..Len(T), U[i] = T[h], h = i - Len(N) + 1
          PROVE  /\ U[i].t \notin Within => U[j].t \in Statements
                 /\ U[i].t = "funcEnd" => U[j].t = "stmt"
                 /\ U[i].t = "stmt" /\ Nests(U[j]) => Bare[U[i].s]
      <4>1. h \in 1..Len(T) /\ h < k
        BY <1>1, <1>4, <2>2, <3>2
      <4> QED
        BY <2>2, <3>0, <3>2, <4>1 DEF Ordered
    <3> QED
      BY <1>2, <3>1, <3>2
  <2> QED
    BY <1>2, <2>1, <2>2
<1> QED
  BY <1>3, <1>4 DEF Ordered

Steps(T, N, U, c, d, e, max, max1, decl, decl1, code, code1) ==
  /\ Replaces(T, N, U)
  /\ c \in Nat /\ d \in Nat /\ e \in Nat /\ EndsAt(N, d, e)
  /\ max \in Nat /\ max1 \in Nat /\ decl \in Nat /\ decl1 \in Nat
  /\ code \in Seq(Instruction) /\ code1 \in Seq(Instruction)
  /\ After(T[1], c) <= e
  /\ e <= max1 \/ e = After(T[1], c)
  /\ max <= max1
  /\ decl1 <= max1
  /\ \/ decl1 = decl
     \/ decl1 = decl + 1 /\ e >= c + 1 /\ \A k \in 1..Len(T) : ~Restores(T[k])
  /\ NewTasks(T[1], N)
  /\ \A n \in 1..Len(N) : Remembers(N[n], max1)
  /\ \A n \in 1..Len(N) : \A v \in Nat : Level(N, d, n, v) => AtLevel(N[n], v, max1, decl1)
  /\ \A n \in 1..Len(N) :
       N[n].t \in {"expr", "binRight", "binOp"} => Covered(U, d, max1, n, N[n].dest)
  /\ IsCall(T[1]) => \A r \in Int : r < Counts(T[1], c) => Covered(U, d, max1, 0, r)
  /\ \A r \in Named(code1) : r \in Named(code) \/ Covered(U, d, max1, 0, r)

LEMMA FrameStep ==
  ASSUME NEW T, NEW N, NEW U, NEW c, NEW d, NEW e, NEW max, NEW max1, NEW decl, NEW decl1,
         NEW code, NEW code1, FrameOK(code, T, c, max, decl),
         Steps(T, N, U, c, d, e, max, max1, decl, decl1, code, code1)
  PROVE  FrameOK(code1, U, d, max1, decl1)
<1> USE DEF Steps
<1>1. Len(N) \in Nat /\ Len(T) \in Nat \ {0} /\ Len(U) = Len(N) + Len(T) - 1 /\ 1 \in 1..Len(T)
      /\ U \in Seq(Task) /\ T \in Seq(Task) /\ N \in Seq(Task)
  BY DEF Replaces
<1>2. ASSUME NEW n \in 1..Len(U)
      PROVE  \/ n \in 1..Len(N) /\ U[n] = N[n]
             \/ \E k \in 2..Len(T) : n = Len(N) + k - 1 /\ U[n] = T[k]
  <2>1. n \in 1..Len(N) \/ n \in Len(N)+1..Len(U)
    BY <1>1
  <2>2. CASE n \in 1..Len(N)
    BY <2>2 DEF Replaces
  <2>3. CASE n \in Len(N)+1..Len(U)
    <3>1. n - Len(N) + 1 \in 2..Len(T) /\ n = Len(N) + (n - Len(N) + 1) - 1
      BY <1>1, <2>3
    <3>2. U[n] = T[n - Len(N) + 1]
      BY <2>3 DEF Replaces
    <3> QED
      BY <3>1, <3>2
  <2> QED
    BY <2>1, <2>2, <2>3
<1>3. \A k \in 2..Len(T) : k \in 1..Len(T)
  BY <1>1
<1>4. Ordered(U)
  BY OrderKept DEF FrameOK
<1>5. ASSUME NEW n \in 1..Len(U) PROVE Remembers(U[n], max1)
  <2>1. ASSUME NEW k \in 2..Len(T), U[n] = T[k] PROVE Remembers(U[n], max1)
    <3>1. Remembers(T[k], max) /\ T[k] \in Task
      BY <1>1, <1>3 DEF FrameOK
    <3>0. \A x \in Nat : x <= max => x <= max1
      OBVIOUS
    <3>6. \A x \in Nat : (x + 1 <= max => x + 1 <= max1) /\ (x + 3 <= max => x + 3 <= max1)
      OBVIOUS
    <3>2. T[k].t \in {"ifTest", "ifThenEnd", "ifElseEnd", "whileTest", "whileEnd"} =>
            T[k].saved <= max1
      <4>1. T[k].t \in {"ifTest", "ifThenEnd", "ifElseEnd", "whileTest", "whileEnd"} =>
              T[k].saved \in Nat /\ T[k].saved <= max
        BY <3>1, TaskFields DEF Remembers
      <4> QED
        BY <4>1, <3>0, Zenon
    <3>3. T[k].t \in {"setGlobal", "return"} => T[k].reg <= max1
      <4>1. T[k].t \in {"setGlobal", "return"} => T[k].reg \in Nat /\ T[k].reg <= max
        BY <3>1, TaskFields DEF Remembers
      <4> QED
        BY <4>1, <3>0, Zenon
    <3>4. T[k].t = "compare" => T[k].dest + 3 <= max1
      <4>1. T[k].t = "compare" => T[k].dest \in Nat /\ T[k].dest + 3 <= max
        BY <3>1, TaskFields DEF Remembers
      <4> QED
        BY <4>1, <3>6, Zenon
    <3>5. T[k].t = "binOp" => T[k].right + 1 <= max1
      <4>1. T[k].t = "binOp" => T[k].right \in Nat /\ T[k].right + 1 <= max
        BY <3>1, TaskFields DEF Remembers
      <4> QED
        BY <4>1, <3>6, Zenon
    <3> QED
      BY <2>1, <3>1, <3>2, <3>3, <3>4, <3>5 DEF Remembers
  <2> QED
    BY <1>2, <2>1
<1>6. ASSUME NEW n \in 1..Len(U), NEW w \in Nat, Level(U, d, n, w)
      PROVE  AtLevel(U[n], w, max1, decl1)
  <2>1. CASE n \in 1..Len(N) /\ U[n] = N[n]
    <3>1. \A j \in 1..n-1 : U[j] = N[j]
      BY <1>1, <2>1 DEF Replaces
    <3>2. Level(N, d, n, w)
      <4>1. CASE w = d /\ \A j \in 1..n-1 : ~Restores(U[j])
        BY <3>1, <4>1 DEF Level
      <4>2. ASSUME NEW j \in 1..n-1, Restores(U[j]), w = Restored(U[j]),
                   \A i \in j+1..n-1 : ~Restores(U[i])
            PROVE  Level(N, d, n, w)
        <5>1. \A i \in j+1..n-1 : i \in 1..n-1
          BY <2>1
        <5> QED
          BY <3>1, <4>2, <5>1 DEF Level
      <4> QED
        BY <1>6, <4>1, <4>2 DEF Level
    <3> QED
      BY <2>1, <3>2
  <2>2. ASSUME NEW k \in 2..Len(T), n = Len(N) + k - 1, U[n] = T[k]
        PROVE  AtLevel(U[n], w, max1, decl1)
    <3>0. /\ \A v \in Nat : Level(T, c, k, v) => AtLevel(T[k], v, max, decl)
          /\ T[k] \in Task
      BY <1>1, <1>3 DEF FrameOK
    <3>1. \/ Level(T, c, k, w) /\ \E j \in 2..k-1 : Restores(T[j])
          \/ w = e /\ Level(T, c, k, After(T[1], c))
      BY <1>6, <2>2, LevelBack
    <3>2. CASE Level(T, c, k, w) /\ \E j \in 2..k-1 : Restores(T[j])
      <4>1. AtLevel(T[k], w, max, decl)
        BY <3>0, <3>2
      <4>2. decl1 = decl
        <5>1. \A j \in 2..k-1 : j \in 1..Len(T)
          BY <1>1
        <5> QED
          BY <3>2, <5>1
      <4> QED
        BY <2>2, <4>1, <4>2 DEF AtLevel
    <3>3. CASE w = e /\ Level(T, c, k, After(T[1], c))
      <4> DEFINE a == After(T[1], c)
      <4>1. a \in Nat
        <5>1. T[1] \in Task
          BY <1>1, SMTT(30)
        <5> QED
          BY <5>1, TaskFields DEF After, Restores, Restored
      <4>2. AtLevel(T[k], a, max, decl)
        BY <3>0, <3>3, <4>1
      <4>3. decl1 = decl \/ (decl1 = decl + 1 /\ w >= c + 1 /\ a = c)
        BY <1>1, <3>3 DEF After
      <4>4. a <= w /\ (w <= max1 \/ w = a)
        BY <3>3
      <4> HIDE DEF a
      <4>5. T[k].t \in Statements \cup {"funcEnd"} => w <= max1
        BY <4>1, <4>2, <4>4 DEF AtLevel
      <4>6. DeclaringTask(T[k]) => decl1 <= w
        BY <4>1, <4>2, <4>3, <4>4 DEF AtLevel
      <4>7. T[k].t = "callExpr" =>
              w + T[k].inc + Len(T[k].args) >= T[k].func + 1 + T[k].n
        <5> SUFFICES ASSUME T[k].t = "callExpr"
                     PROVE  w + T[k].inc + Len(T[k].args) >= T[k].func + 1 + T[k].n
          OBVIOUS
        <5>1. /\ T[k].inc \in Int /\ Len(T[k].args) \in Int /\ T[k].func \in Int
              /\ T[k].n \in Int
          BY <3>0, TaskFields
        <5>2. a + T[k].inc + Len(T[k].args) >= T[k].func + 1 + T[k].n
          BY <4>2 DEF AtLevel
        <5> DEFINE i == T[k].inc
                   l == Len(T[k].args)
                   f == T[k].func
                   n1 == T[k].n
        <5>3. i \in Int /\ l \in Int /\ f \in Int /\ n1 \in Int /\ a + i + l >= f + 1 + n1
          BY <5>1, <5>2
        <5> HIDE DEF i, l, f, n1
        <5>4. w + i + l >= f + 1 + n1
          BY <4>1, <4>4, <5>3
        <5> QED
          BY <5>4 DEF i, l, f, n1
      <4> QED
        BY <2>2, <4>5, <4>6, <4>7 DEF AtLevel
    <3> QED
      BY <3>1, <3>2, <3>3
  <2> QED
    BY <1>2, <2>1, <2>2
<1>7. ASSUME NEW n \in 1..Len(U), U[n].t \in {"expr", "binRight", "binOp"}
      PROVE  Covered(U, d, max1, n, U[n].dest)
  <2>1. CASE n \in 1..Len(N) /\ U[n] = N[n]
    BY <1>7, <2>1
  <2>2. ASSUME NEW k \in 2..Len(T), n = Len(N) + k - 1, U[n] = T[k]
        PROVE  Covered(U, d, max1, n, U[n].dest)
    <3>1. Covered(T, c, max, k, T[k].dest) /\ T[k] \in Task /\ k \in 1..Len(T)
      BY <1>1, <1>3, <1>7, <2>2 DEF FrameOK
    <3>2. T[k].dest \in Int
      BY <1>7, <2>2, <3>1, TaskFields
    <3>3. n \in 0..Len(N)+k-1
      BY <1>1, <2>2
    <3> QED
      BY <2>2, <3>1, <3>2, <3>3, CoveredLater, SMTT(30)
  <2> QED
    BY <1>2, <2>1, <2>2
<1>8. ASSUME NEW r \in Named(code1) PROVE Covered(U, d, max1, 0, r)
  <2>1. r \in Int
    BY NamedFacts
  <2>2. CASE r \in Named(code)
    <3>1. Covered(T, c, max, 0, r)
      BY <2>2 DEF FrameOK
    <3> QED
      BY <2>1, <3>1, CoveredCode
  <2> QED
    BY <2>2
<1> QED
  BY <1>4, <1>5, <1>6, <1>7, <1>8 DEF FrameOK

----------------------------------------------------------------------------
(* A step of the generator at work keeps its frame.                        *)

(* All tasks but the last leave currentStack to the ones after them.       *)
Straight(tasks) == \A n \in 1..Len(tasks)-1 : ~Restores(tasks[n])
End(tasks, cur) == IF tasks = <<>> THEN cur ELSE After(tasks[Len(tasks)], cur)

LEMMA StraightLevels ==
  ASSUME NEW S, NEW tasks \in Seq(S), Straight(tasks), NEW cur
  PROVE  /\ EndsAt(tasks, cur, End(tasks, cur))
         /\ \A n \in 1..Len(tasks) : \A v : Level(tasks, cur, n, v) => v = cur
<1> DEFINE l == Len(tasks)
<1>1. l \in Nat
  OBVIOUS
<1>2. ASSUME NEW n \in 1..l, NEW v, Level(tasks, cur, n, v) PROVE v = cur
  <2>1. \A j \in 1..n-1 : j \in 1..l-1
    BY <1>1
  <2> QED
    BY <1>2, <2>1 DEF Level, Straight
<1>3. ASSUME NEW v PROVE Level(tasks, cur, l + 1, v) <=> v = End(tasks, cur)
  <2>1. CASE tasks = <<>>
    <3>1. l = 0 /\ \A j : j \notin 1..(l+1)-1
      BY <2>1
    <3> QED
      BY <2>1, <3>1 DEF Level, End
  <2>2. CASE tasks # <<>>
    <3>1. l \in Nat \ {0}
      BY <1>1, <2>2
    <3> HIDE DEF l
    <3>2. \A j \in 1..(l+1)-1 : j = l \/ j \in 1..l-1
      BY <3>1
    <3>3. l \in 1..(l+1)-1 /\ (\A i : i \notin l+1..(l+1)-1)
      BY <3>1
    <3>4. \A j \in 1..l-1 : ~Restores(tasks[j])
      BY DEF Straight, l
    <3>5. CASE Restores(tasks[l])
      <4>1. \A j \in 1..(l+1)-1 : Restores(tasks[j]) => j = l
        BY <3>2, <3>4
      <4> QED
        BY <2>2, <3>3, <3>5, <4>1 DEF Level, End, After, l
    <3>6. CASE ~Restores(tasks[l])
      <4>1. \A j \in 1..(l+1)-1 : ~Restores(tasks[j])
        BY <3>2, <3>4, <3>6
      <4> QED
        BY <2>2, <3>6, <4>1 DEF Level, End, After, l
    <3> QED
      BY <3>5, <3>6
  <2> QED
    BY <2>1, <2>2
<1> QED
  BY <1>2, <1>3 DEF EndsAt

LEMMA CoveredBelow ==
  ASSUME NEW tasks \in Seq(Task), NEW cur \in Nat, NEW max \in Nat, NEW k \in Nat, NEW r \in Int,
         Covered(tasks, cur, max, k, r), NEW s \in Int, s <= r
  PROVE  Covered(tasks, cur, max, k, s)
<1>1. CASE r < max + STACK_EXTRA
  BY <1>1 DEF Covered, STACK_EXTRA
<1>2. ASSUME NEW j \in k+1..Len(tasks), IsCall(tasks[j]), NEW v \in Nat,
             Level(tasks, cur, j, v), r < Counts(tasks[j], v), tasks[j] \in Task
      PROVE  Covered(tasks, cur, max, k, s)
  <2> DEFINE n == Counts(tasks[j], v)
  <2>1. n \in Int
    <3>1. CASE tasks[j].t = "callExpr"
      <4>1. tasks[j].inc \in Int
        BY <1>2, <3>1, TaskFields
      <4> QED
        BY <3>1, <4>1 DEF Counts
    <3>2. CASE tasks[j].t # "callExpr"
      BY <1>2, <3>2, TaskFields DEF Counts, IsCall
    <3> QED
      BY <3>1, <3>2
  <2> HIDE DEF n
  <2>2. s < n
    BY <1>2, <2>1 DEF n
  <2> QED
    BY <1>2, <2>2 DEF Covered, n
<1>3. \A j \in k+1..Len(tasks) : IsCall(tasks[j]) => tasks[j] \in Task
  OBVIOUS
<1> QED
  BY <1>1, <1>2, <1>3 DEF Covered

(* The register is in the frame after the step, or the task's own.         *)
InFrame(r) == \/ r < maxStack' + STACK_EXTRA
              \/ Task1.t \in {"expr", "binRight", "binOp"} /\ r <= Task1.dest

(* What the tasks a step makes must satisfy.                               *)
TaskPlaced(tasks, n) ==
  /\ Remembers(tasks[n], maxStack')
  /\ AtLevel(tasks[n], currentStack', maxStack', Len(locals'))
  /\ tasks[n].t \in {"expr", "binRight", "binOp"} =>
       \/ InFrame(tasks[n].dest)
       \/ \E j \in n+1..Len(tasks) :
            IsCall(tasks[j]) /\ tasks[n].dest < Counts(tasks[j], currentStack')
CallGoesOn(tasks) ==
  IsCall(Task1) =>
    \/ Counts(Task1, currentStack) <= maxStack' + STACK_EXTRA
    \/ \E j \in 1..Len(tasks) :
         IsCall(tasks[j]) /\ Counts(Task1, currentStack) <= Counts(tasks[j], currentStack')
LocalsKept(end) ==
  /\ Len(locals') <= maxStack'
  /\ \/ Len(locals') = Len(locals)
     \/ /\ Len(locals') = Len(locals) + 1
        /\ end >= currentStack + 1
        /\ \A k \in 1..Len(todo) : ~Restores(todo[k])

LEMMA CountsNumber ==
  ASSUME NEW x \in Task, IsCall(x), NEW v \in Nat
  PROVE  Counts(x, v) \in Nat
<1>1. CASE x.t = "callExpr"
  <2>1. x.inc \in Nat
    BY <1>1, TaskFields
  <2> QED
    BY <1>1, <2>1 DEF Counts
<1>2. CASE x.t = "callStmt"
  BY <1>2, TaskFields DEF Counts
<1> QED
  BY <1>1, <1>2 DEF IsCall

LEMMA AfterNumber ==
  ASSUME NEW x \in Task, NEW v \in Nat
  PROVE  After(x, v) \in Nat
<1>1. CASE x.t = "callStmt"
  BY <1>1, TaskFields DEF After, Restored
<1>2. CASE x.t # "callStmt" /\ Restores(x)
  <2>1. x.t \in {"ifTest", "ifThenEnd", "ifElseEnd", "whileTest", "whileEnd", "callExpr", "compare"}
    BY <1>2 DEF Restores
  <2>2. x.saved \in Nat
    BY <2>1, TaskFields
  <2> QED
    BY <1>2, <2>2 DEF After, Restored
<1>3. CASE ~Restores(x)
  BY <1>3 DEF After
<1> QED
  BY <1>1, <1>2, <1>3

LEMMA FrameKept ==
  ASSUME Types, Types', HereFrame, todo # <<>>, NEW S, NEW tasks \in Seq(S), Then(tasks),
         Straight(tasks), NEW e, e = End(tasks, currentStack'),
         After(Task1, currentStack) <= e, e <= maxStack' \/ e = After(Task1, currentStack),
         maxStack <= maxStack', LocalsKept(e), NewTasks(Task1, tasks),
         \A n \in 1..Len(tasks) : TaskPlaced(tasks, n),
         CallGoesOn(tasks),
         \A r \in Named(instructions') : r \in Named(instructions) \/ InFrame(r)
  PROVE  HereFrame'
<1>1. Replaces(todo, tasks, todo')
  <2>1. /\ todo \in Seq(Task) /\ todo' \in Seq(Task) /\ tasks \in Seq(Task)
        /\ Len(todo') = Len(tasks) + Len(todo) - 1
        /\ Len(tasks) \in Nat /\ Len(todo) \in Nat \ {0}
        /\ \A n \in 1..Len(tasks) : todo'[n] = tasks[n]
        /\ \A n \in Len(tasks)+1..Len(todo') : todo'[n] = todo[n - Len(tasks) + 1]
    BY TodoStep
  <2> QED
    BY <2>1 DEF Replaces
<1>2. /\ tasks \in Seq(Task) /\ todo \in Seq(Task) /\ todo' \in Seq(Task) /\ Task1 = todo[1]
      /\ Len(tasks) \in Nat /\ Len(todo) \in Nat \ {0} /\ 1 \in 1..Len(todo)
      /\ \A n \in 1..Len(tasks) : todo'[n] = tasks[n]
      /\ Len(todo') = Len(tasks) + Len(todo) - 1
  BY TodoStep
<1>3. /\ currentStack \in Nat /\ currentStack' \in Nat /\ maxStack \in Nat /\ maxStack' \in Nat
      /\ Len(locals) \in Nat /\ Len(locals') \in Nat
      /\ instructions \in Seq(Instruction) /\ instructions' \in Seq(Instruction)
  BY DEF Types, StackType, LocalsType, CodeType
<1>4. EndsAt(tasks, currentStack', e)
      /\ \A n \in 1..Len(tasks) : \A v : Level(tasks, currentStack', n, v) => v = currentStack'
  BY <1>2, StraightLevels
<1>5. e \in Nat /\ Task1 \in Task
  <2>1. CASE tasks = <<>>
    BY <1>2, <1>3, <2>1 DEF End
  <2>2. CASE tasks # <<>>
    <3>1. tasks[Len(tasks)] \in Task
      BY <1>2, <2>2
    <3>2. e = After(tasks[Len(tasks)], currentStack')
      BY <2>2 DEF End
    <3>3. After(tasks[Len(tasks)], currentStack') \in Nat
      BY <1>3, <3>1, AfterNumber, Zenon
    <3> QED
      BY <1>2, <3>2, <3>3
  <2> QED
    BY <2>1, <2>2
<1>6. FrameOK(instructions, todo, currentStack, maxStack, Len(locals))
  BY DEF HereFrame
<1>7. ASSUME NEW r \in Int, InFrame(r), NEW m \in 0..Len(tasks)
      PROVE  Covered(todo', currentStack', maxStack', m, r)
  <2>1. CASE r < maxStack' + STACK_EXTRA
    BY <2>1 DEF Covered
  <2>2. CASE Task1.t \in {"expr", "binRight", "binOp"} /\ r <= Task1.dest
    <3>1. Task1.dest \in Int
      BY <1>5, <2>2, TaskFields
    <3>2. Covered(todo, currentStack, maxStack, 1, Task1.dest)
      BY <1>2, <1>6, <2>2 DEF FrameOK
    <3>3. Covered(todo, currentStack, maxStack, 1, r)
      BY <1>2, <1>3, <2>2, <3>1, <3>2, CoveredBelow
    <3>4. m \in 0..Len(tasks)+1-1
      BY <1>2
    <3> QED
      BY <1>1, <1>2, <1>3, <1>4, <1>5, <3>3, <3>4, CoveredLater
  <2> QED
    BY <1>7, <2>1, <2>2 DEF InFrame
<1>8. ASSUME NEW r \in Int, NEW j \in 1..Len(tasks), IsCall(tasks[j]),
             r < Counts(tasks[j], currentStack'), NEW m \in 0..j-1
      PROVE  Covered(todo', currentStack', maxStack', m, r)
  <2>1. j \in m+1..Len(todo') /\ todo'[j] = tasks[j] /\ \A i \in 1..j-1 : i \in 1..Len(tasks)-1
    BY <1>2
  <2>2. Level(todo', currentStack', j, currentStack')
    BY <1>2, <2>1, SMTT(30) DEF Level, Straight
  <2> QED
    BY <1>3, <1>8, <2>1, <2>2 DEF Covered
<1>9. ASSUME NEW n \in 1..Len(tasks), tasks[n].t \in {"expr", "binRight", "binOp"}
      PROVE  Covered(todo', currentStack', maxStack', n, tasks[n].dest)
  <2>1. tasks[n].dest \in Int
    <3>1. tasks[n] \in Task
      BY <1>2
    <3> QED
      BY <1>9, <3>1, TaskFields
  <2>2. CASE InFrame(tasks[n].dest)
    BY <1>2, <1>7, <2>1, <2>2
  <2>3. ASSUME NEW j \in n+1..Len(tasks), IsCall(tasks[j]),
               tasks[n].dest < Counts(tasks[j], currentStack')
        PROVE  Covered(todo', currentStack', maxStack', n, tasks[n].dest)
    <3>1. j \in 1..Len(tasks) /\ n \in 0..j-1
      BY <1>2
    <3> QED
      BY <1>8, <2>1, <2>3, <3>1
  <2> QED
    BY <1>9, <2>2, <2>3 DEF TaskPlaced
<1>10. ASSUME IsCall(todo[1]), NEW r \in Int, r < Counts(todo[1], currentStack)
       PROVE  Covered(todo', currentStack', maxStack', 0, r)
  <2> DEFINE n == Counts(Task1, currentStack)
  <2>1. n \in Nat /\ r < n
    BY <1>2, <1>3, <1>5, <1>10, CountsNumber
  <2>2. CASE n <= maxStack' + STACK_EXTRA
    <3> DEFINE m == maxStack'
    <3>1. m \in Nat /\ n <= m + STACK_EXTRA
      BY <1>3, <2>2
    <3> HIDE DEF n, m
    <3>2. r < m + STACK_EXTRA
      BY <2>1, <3>1 DEF STACK_EXTRA
    <3> QED
      BY <3>2 DEF Covered, m
  <2>3. ASSUME NEW j \in 1..Len(tasks), IsCall(tasks[j]), n <= Counts(tasks[j], currentStack')
        PROVE  Covered(todo', currentStack', maxStack', 0, r)
    <3> DEFINE k == Counts(tasks[j], currentStack')
    <3>1. tasks[j] \in Task
      BY <1>2
    <3>2. k \in Nat
      BY <1>3, <2>3, <3>1, CountsNumber
    <3> HIDE DEF n, k
    <3>3. r < k
      BY <2>1, <2>3, <3>2 DEF k
    <3>4. 0 \in 0..j-1
      BY <1>2
    <3> QED
      BY <1>8, <2>3, <3>3, <3>4 DEF k
  <2> QED
    BY <1>2, <1>10, <2>2, <2>3 DEF CallGoesOn
<1>11. ASSUME NEW r \in Named(instructions')
       PROVE  r \in Named(instructions) \/ Covered(todo', currentStack', maxStack', 0, r)
  <2>1. r \in Int /\ 0 \in 0..Len(tasks)
    BY <1>2, <1>3, NamedFacts
  <2> QED
    BY <1>7, <1>11, <2>1
<1>12. \A n \in 1..Len(tasks) : Remembers(tasks[n], maxStack')
  BY DEF TaskPlaced
<1>13. \A n \in 1..Len(tasks) : \A v \in Nat :
         Level(tasks, currentStack', n, v) => AtLevel(tasks[n], v, maxStack', Len(locals'))
  BY <1>4 DEF TaskPlaced
<1>14. /\ Len(locals') <= maxStack'
       /\ \/ Len(locals') = Len(locals)
          \/ /\ Len(locals') = Len(locals) + 1 /\ e >= currentStack + 1
             /\ \A k \in 1..Len(todo) : ~Restores(todo[k])
  BY DEF LocalsKept
<1>15. FrameOK(instructions', todo', currentStack', maxStack', Len(locals'))
  <2> DEFINE code == instructions
             T == todo
             c == currentStack
             max == maxStack
             decl == Len(locals)
             code1 == instructions'
             U == todo'
             d == currentStack'
             max1 == maxStack'
             decl1 == Len(locals')
  <2>1. Steps(T, tasks, U, c, d, e, max, max1, decl, decl1, code, code1)
    BY <1>1, <1>2, <1>3, <1>4, <1>5, <1>9, <1>10, <1>11, <1>12, <1>13, <1>14 DEF Steps
  <2>2. FrameOK(code, T, c, max, decl)
    BY <1>6
  <2> HIDE DEF code, T, c, max, decl, code1, U, d, max1, decl1
  <2>3. FrameOK(code1, U, d, max1, decl1)
    BY <2>1, <2>2, FrameStep
  <2> QED
    BY <2>3 DEF code1, U, d, max1, decl1
<1> QED
  BY <1>15 DEF HereFrame

----------------------------------------------------------------------------
(* The registers of the instructions the generator makes.                  *)

LEMMA ModBelow == \A n \in Nat : n % ArgSize \in Nat /\ n % ArgSize <= n
<1>1. \A n \in Nat, m \in Nat \ {0} : n % m \in Nat /\ n % m <= n
  OBVIOUS
<1> QED
  BY <1>1, SizeAssumption

LEMMA RegisterBounds ==
  ASSUME NEW a \in Nat, NEW b \in Nat, NEW c \in Nat
  PROVE  /\ \A op \in {"MOVE", "ADD", "SUB", "MUL", "DIV"} :
              \A r \in Registers(encodeABC(op, a, b, c)) : r <= a \/ r <= b \/ r <= c
         /\ \A op \in {"EQ", "LT", "LE"}, k \in {0, 1} :
              \A r \in Registers(encodeABCK(op, a, b, c, k)) : r <= a \/ r <= b
         /\ \A r \in Registers(encodeABC("SETTABUP", a, b, c)) : r <= c
         /\ \A op \in {"GETTABUP", "LOADTRUE", "LOADFALSE", "TEST", "RETURN"} :
              \A r \in Registers(encodeABC(op, a, b, c)) : r <= a
<1>1. /\ a % ArgSize <= a /\ b % ArgSize <= b /\ c % ArgSize <= c
  BY ModBelow
<1> DEFINE a1 == a % ArgSize
           b1 == b % ArgSize
           c1 == c % ArgSize
<1>2. a1 <= a /\ b1 <= b /\ c1 <= c
  BY <1>1
<1>3. \A op, k : encodeABCK(op, a, b, c, k) = [op |-> op, a |-> a1, b |-> b1, c |-> c1, k |-> k]
  BY DEF encodeABCK
<1>4. \A op : encodeABC(op, a, b, c) = [op |-> op, a |-> a1, b |-> b1, c |-> c1, k |-> 0]
  BY DEF encodeABC, encodeABCK
<1> HIDE DEF a1, b1, c1
<1>5. ASSUME NEW op \in {"MOVE", "ADD", "SUB", "MUL", "DIV"},
             NEW r \in Registers(encodeABC(op, a, b, c))
      PROVE  r <= a \/ r <= b \/ r <= c
  BY <1>2, <1>4, <1>5 DEF Registers
<1>6. ASSUME NEW op \in {"EQ", "LT", "LE"}, NEW k \in {0, 1},
             NEW r \in Registers(encodeABCK(op, a, b, c, k))
      PROVE  r <= a \/ r <= b
  BY <1>2, <1>3, <1>6 DEF Registers
<1>7. ASSUME NEW r \in Registers(encodeABC("SETTABUP", a, b, c)) PROVE r <= c
  BY <1>2, <1>4, <1>7 DEF Registers
<1>8. ASSUME NEW op \in {"GETTABUP", "LOADTRUE", "LOADFALSE", "TEST", "RETURN"},
             NEW r \in Registers(encodeABC(op, a, b, c))
      PROVE  r <= a
  BY <1>2, <1>4, <1>8 DEF Registers
<1> QED
  BY <1>5, <1>6, <1>7, <1>8

LEMMA CallRegisters ==
  ASSUME NEW a \in Nat, NEW b \in Nat, NEW c \in Nat,
         NEW r \in Registers(encodeABC("CALL", a, b, c))
  PROVE  r < a + b
<1> DEFINE a1 == a % ArgSize
           b1 == b % ArgSize
           c1 == c % ArgSize
<1>1. a1 \in Nat /\ b1 \in Nat /\ a1 <= a /\ b1 <= b
  BY ModBelow
<1>2. encodeABC("CALL", a, b, c) = [op |-> "CALL", a |-> a1, b |-> b1, c |-> c1, k |-> 0]
  BY DEF encodeABC, encodeABCK
<1> HIDE DEF a1, b1, c1
<1>3. r \in a1 .. a1 + b1 - 1
  BY <1>2 DEF Registers
<1> QED
  BY <1>1, <1>3

LEMMA WideRegisters ==
  ASSUME NEW a \in Nat, NEW n \in Int
  PROVE  /\ \A op \in {"LOADK", "LOADKX", "CLOSURE"} :
              \A r \in Registers(encodeABx(op, a, n)) : r <= a
         /\ \A op \in {"LOADI", "LOADF"} : \A r \in Registers(encodeAsBx(op, a, n)) : r <= a
<1> DEFINE a1 == a % ArgSize
           n1 == n % BxSize
<1>1. a1 <= a
  BY ModBelow
<1>2. \A op : encodeABx(op, a, n) = [op |-> op, a |-> a1, b |-> n1, c |-> 0, k |-> 0]
  BY DEF encodeABx
<1>3. \A op : encodeAsBx(op, a, n) = [op |-> op, a |-> a1, b |-> n, c |-> 0, k |-> 0]
  BY DEF encodeAsBx
<1> HIDE DEF a1, n1
<1>4. ASSUME NEW op \in {"LOADK", "LOADKX", "CLOSURE"}, NEW r \in Registers(encodeABx(op, a, n))
      PROVE  r <= a
  BY <1>1, <1>2, <1>4 DEF Registers
<1>5. ASSUME NEW op \in {"LOADI", "LOADF"}, NEW r \in Registers(encodeAsBx(op, a, n))
      PROVE  r <= a
  BY <1>1, <1>3, <1>5 DEF Registers
<1> QED
  BY <1>4, <1>5

LEMMA NoRegisters ==
  /\ \A n : Registers(encodeIsJ(n)) = {}
  /\ \A op \in {"MMBIN", "RETURN0"} : \A a, b, c : Registers(encodeABC(op, a, b, c)) = {}
  /\ \A op \in {"EXTRAARG", "VARARGPREP"} : \A a, n : Registers(encodeABx(op, a, n)) = {}
  BY DEF Registers, encodeIsJ, encodeABC, encodeABCK, encodeABx

(* What an emitted segment and a patch add to the registers named.         *)
LEMMA NamedConcat ==
  ASSUME NEW code \in Seq(Instruction), NEW seg \in Seq(Instruction)
  PROVE  \A r \in Named(code \o seg) :
           r \in Named(code) \/ \E n \in 1..Len(seg) : r \in Registers(seg[n])
<1> DEFINE new == code \o seg
<1>1. /\ new \in Seq(Instruction) /\ Len(code) \in Nat /\ Len(seg) \in Nat
      /\ Len(new) = Len(code) + Len(seg)
      /\ \A n \in 1..Len(code) : new[n] = code[n]
      /\ \A n \in 1..Len(seg) : new[Len(code) + n] = seg[n]
  BY ConcatFacts
<1> HIDE DEF new
<1>2. ASSUME NEW r \in Named(new)
      PROVE  r \in Named(code) \/ \E n \in 1..Len(seg) : r \in Registers(seg[n])
  <2>1. PICK n \in 1..Len(new) : r \in Registers(new[n])
    BY <1>1, <1>2, NamedFacts
  <2>2. CASE n \in 1..Len(code)
    BY <1>1, <2>1, <2>2, NamedFacts
  <2>3. CASE n \notin 1..Len(code)
    <3> DEFINE m == n - Len(code)
    <3>1. m \in 1..Len(seg) /\ n = Len(code) + m
      BY <1>1, <2>3
    <3> HIDE DEF m
    <3> QED
      BY <1>1, <2>1, <3>1
  <2> QED
    BY <2>2, <2>3
<1> QED
  BY <1>2 DEF new

LEMMA NamedPatched ==
  ASSUME NEW code \in Seq(Instruction), NEW jmp \in Nat, NEW end \in Nat
  PROVE  \A r \in Named(Patched(code, jmp, end)) : r \in Named(code)
<1> DEFINE new == Patched(code, jmp, end)
<1>1. /\ new \in Seq(Instruction) /\ Len(new) = Len(code)
      /\ \A n \in 1..Len(code) : new[n] = IF n = jmp + 1 THEN encodeIsJ(end - jmp - 1) ELSE code[n]
  <2>1. new \in Seq(Instruction)
    BY PatchedType
  <2> QED
    BY <2>1 DEF Patched
<1> HIDE DEF new
<1>2. ASSUME NEW r \in Named(new) PROVE r \in Named(code)
  <2>1. PICK n \in 1..Len(new) : r \in Registers(new[n])
    BY <1>1, <1>2, NamedFacts
  <2>2. new[n] = code[n]
    BY <1>1, <2>1, NoRegisters
  <2> QED
    BY <1>1, <2>1, <2>2, NamedFacts
<1> QED
  BY <1>2 DEF new

(* A step that emits a segment whose registers fit.                        *)
CodeGrows == \A r \in Named(instructions') : r \in Named(instructions) \/ InFrame(r)

LEMMA EmitGrows ==
  ASSUME CodeType, NEW seg \in Seq(Instruction), emit(seg),
         \A n \in 1..Len(seg) : \A r \in Registers(seg[n]) : InFrame(r)
  PROVE  CodeGrows
<1>1. \A r \in Named(instructions \o seg) :
        r \in Named(instructions) \/ \E n \in 1..Len(seg) : r \in Registers(seg[n])
  BY NamedConcat DEF CodeType
<1> QED
  BY <1>1 DEF CodeGrows, emit

LEMMA OneGrows ==
  ASSUME CodeType, NEW x \in Instruction, emit(<<x>>), \A r \in Registers(x) : InFrame(r)
  PROVE  CodeGrows
<1> DEFINE seg == <<x>>
<1>1. seg \in Seq(Instruction) /\ emit(seg)
      /\ \A n \in 1..Len(seg) : \A r \in Registers(seg[n]) : InFrame(r)
  OBVIOUS
<1> HIDE DEF seg
<1> QED
  BY <1>1, EmitGrows

LEMMA StringIndex ==
  ASSUME Types, NEW x \in Names, addConstant(strConstant(x))
  PROVE  addConstantIndex(strConstant(x)) \in Nat
<1>1. strConstant(x) \in Constant
  BY DEF strConstant, Constant
<1> QED
  BY <1>1, AddConstantType DEF Types

----------------------------------------------------------------------------
(* The steps, by the tasks they make.                                      *)

LEMMA HeadFrame ==
  ASSUME Types, HereFrame, todo # <<>>
  PROVE  /\ Task1 \in Task /\ Task1 = todo[1]
         /\ Remembers(Task1, maxStack) /\ FlatTask(Task1)
         /\ AtLevel(Task1, currentStack, maxStack, Len(locals))
         /\ currentStack \in Nat /\ maxStack \in Nat /\ Len(locals) \in Nat
         /\ Len(locals) <= maxStack
<1>1. todo \in Seq(Task) /\ Len(todo) \in Nat \ {0} /\ Task1 = todo[1] /\ 1 \in 1..Len(todo)
      /\ Task1 \in Task
  BY TailFacts, HeadType DEF Types, TodoType, Task1
<1>2. currentStack \in Nat /\ maxStack \in Nat /\ Len(locals) \in Nat
  BY DEF Types, StackType, LocalsType
<1>3. Level(todo, currentStack, 1, currentStack)
  BY DEF Level
<1>4. AtLevel(Task1, currentStack, maxStack, Len(locals))
  BY <1>1, <1>2, <1>3 DEF HereFrame, FrameOK
<1>5. Remembers(Task1, maxStack) /\ FlatTask(Task1) /\ Len(locals) <= maxStack
  BY <1>1 DEF HereFrame, FrameOK, Ordered
<1> QED
  BY <1>1, <1>2, <1>4, <1>5

(* What every step must do to the stack and the code.                      *)
StackMoves(e) ==
  /\ After(Task1, currentStack) <= e
  /\ e <= maxStack' \/ e = After(Task1, currentStack)
  /\ maxStack <= maxStack'
  /\ LocalsKept(e)
  /\ CodeGrows

LEMMA FrameNone ==
  ASSUME Types, Types', HereFrame, todo # <<>>, Then(<<>>), StackMoves(currentStack'),
         IsCall(Task1) => Counts(Task1, currentStack) <= maxStack' + STACK_EXTRA
  PROVE  HereFrame'
<1> DEFINE N == <<>>
<1>1. N \in Seq(Task) /\ N = <<>> /\ Len(N) = 0 /\ Then(N) /\ \A n : n \notin 1..Len(N)
  OBVIOUS
<1> HIDE DEF N
<1>2. Straight(N) /\ currentStack' = End(N, currentStack')
  BY <1>1 DEF Straight, End
<1>3. NewTasks(Task1, N)
  BY <1>1 DEF NewTasks, Ordered
<1>4. \A n \in 1..Len(N) : TaskPlaced(N, n)
  BY <1>1
<1>5. CallGoesOn(N)
  BY DEF CallGoesOn
<1> DEFINE e == currentStack'
<1>6. /\ After(Task1, currentStack) <= e /\ (e <= maxStack' \/ e = After(Task1, currentStack))
      /\ maxStack <= maxStack' /\ LocalsKept(e) /\ e = End(N, currentStack')
  BY <1>2 DEF StackMoves
<1>7. \A r \in Named(instructions') : r \in Named(instructions) \/ InFrame(r)
  BY DEF StackMoves, CodeGrows
<1> HIDE DEF e
<1> QED
  BY <1>1, <1>2, <1>3, <1>4, <1>5, <1>6, <1>7, FrameKept

LEMMA FrameOne ==
  ASSUME Types, Types', HereFrame, todo # <<>>, NEW x \in Task, Then(<<x>>),
         NEW e, e = After(x, currentStack'), StackMoves(e),
         Task1.t \in Within => x.t \in Within,
         x.t \notin {"stmt", "funcEnd"}, FlatTask(x),
         Remembers(x, maxStack'), AtLevel(x, currentStack', maxStack', Len(locals')),
         x.t \in {"expr", "binRight", "binOp"} => InFrame(x.dest), ~IsCall(Task1)
  PROVE  HereFrame'
<1> DEFINE N == <<x>>
<1>1. N \in Seq(Task) /\ N # <<>> /\ Len(N) = 1 /\ N[1] = x /\ Then(N)
      /\ (\A n \in 1..Len(N) : n = 1) /\ (\A n : n \notin 1..Len(N)-1)
  OBVIOUS
<1> HIDE DEF N
<1>2. Straight(N) /\ e = End(N, currentStack')
  BY <1>1 DEF Straight, End
<1>3. Ordered(N)
  <2>1. \A k \in 1..Len(N) : FlatTask(N[k])
    BY <1>1
  <2>2. \A i \in 1..Len(N), j \in 1..Len(N) : ~(i < j)
    BY <1>1
  <2> QED
    BY <2>1, <2>2 DEF Ordered
<1>4. NewTasks(Task1, N)
  BY <1>1, <1>3 DEF NewTasks
<1>5. \A n \in 1..Len(N) : TaskPlaced(N, n)
  BY <1>1 DEF TaskPlaced
<1>6. CallGoesOn(N)
  BY DEF CallGoesOn
<1>7. /\ After(Task1, currentStack) <= e /\ (e <= maxStack' \/ e = After(Task1, currentStack))
      /\ maxStack <= maxStack' /\ LocalsKept(e)
  BY DEF StackMoves
<1>8. \A r \in Named(instructions') : r \in Named(instructions) \/ InFrame(r)
  BY DEF StackMoves, CodeGrows
<1> QED
  BY <1>1, <1>2, <1>4, <1>5, <1>6, <1>7, <1>8, FrameKept

LEMMA ExprTaskFacts ==
  ASSUME NEW x \in Expr, NEW r \in Nat
  PROVE  /\ ExprTask(x, r) \in Task /\ ExprTask(x, r).t = "expr" /\ ExprTask(x, r).dest = r
         /\ ~Restores(ExprTask(x, r)) /\ FlatTask(ExprTask(x, r)) /\ ~IsCall(ExprTask(x, r))
         /\ \A m : Remembers(ExprTask(x, r), m)
         /\ \A v, m, l : AtLevel(ExprTask(x, r), v, m, l)
<1> DEFINE y == ExprTask(x, r)
<1>1. y \in Task /\ y.t = "expr" /\ y.dest = r
  BY TaskTypes DEF ExprTask
<1> HIDE DEF y
<1>2. ~Restores(y) /\ FlatTask(y) /\ ~IsCall(y)
  BY <1>1 DEF Restores, FlatTask, IsCall
<1>3. \A m : Remembers(y, m)
  BY <1>1 DEF Remembers
<1>4. \A v, m, l : AtLevel(y, v, m, l)
  BY <1>1 DEF AtLevel, Statements, DeclaringTask
<1> QED
  BY <1>1, <1>2, <1>3, <1>4 DEF y

LEMMA FrameExpr ==
  ASSUME Types, Types', HereFrame, todo # <<>>, NEW x \in Expr, NEW r \in Nat,
         Then(<<ExprTask(x, r)>>), StackMoves(currentStack'), InFrame(r), ~IsCall(Task1)
  PROVE  HereFrame'
<1> DEFINE y == ExprTask(x, r)
           e == currentStack'
<1>1. /\ y \in Task /\ y.t = "expr" /\ y.dest = r /\ ~Restores(y) /\ FlatTask(y)
      /\ Remembers(y, maxStack') /\ AtLevel(y, currentStack', maxStack', Len(locals'))
  BY ExprTaskFacts
<1>2. e = After(y, currentStack')
  BY <1>1 DEF After
<1>3. StackMoves(e) /\ Then(<<y>>)
  OBVIOUS
<1>4. Task1.t \in Within => y.t \in Within
  BY <1>1 DEF Within
<1> HIDE DEF y, e
<1> QED
  BY <1>1, <1>2, <1>3, <1>4, FrameOne

(* An expression, and what is left of its statement or operator after it.  *)
Pair(x, r, y, e) ==
  /\ x \in Expr /\ r \in Nat /\ y \in Task
  /\ Then(<<ExprTask(x, r), y>>)
  /\ e = After(y, currentStack') /\ StackMoves(e)
  /\ Task1.t \in Within => y.t \in Within
  /\ y.t \notin {"stmt", "funcEnd"} /\ FlatTask(y)
  /\ Remembers(y, maxStack') /\ AtLevel(y, currentStack', maxStack', Len(locals'))
  /\ y.t \in {"expr", "binRight", "binOp"} => InFrame(y.dest)
  /\ InFrame(r) \/ (IsCall(y) /\ r < Counts(y, currentStack'))
  /\ IsCall(Task1) => IsCall(y) /\ Counts(Task1, currentStack) <= Counts(y, currentStack')

LEMMA FrameTwo ==
  ASSUME Types, Types', HereFrame, todo # <<>>, NEW x, NEW r, NEW y, NEW e, Pair(x, r, y, e)
  PROVE  HereFrame'
<1> USE DEF Pair
<1> DEFINE z == ExprTask(x, r)
           N == <<z, y>>
<1>1. /\ z \in Task /\ z.t = "expr" /\ z.dest = r /\ ~Restores(z) /\ FlatTask(z)
      /\ Remembers(z, maxStack') /\ AtLevel(z, currentStack', maxStack', Len(locals'))
      /\ ~IsCall(z)
  BY ExprTaskFacts
<1> HIDE DEF z
<1>2. N \in Seq(Task) /\ N # <<>> /\ Len(N) = 2 /\ N[1] = z /\ N[2] = y
      /\ (\A n \in 1..Len(N) : n = 1 \/ n = 2) /\ (\A n \in 1..Len(N)-1 : n = 1)
  BY <1>1
<1>3. Then(N)
  BY DEF z
<1> HIDE DEF N
<1>4. Straight(N) /\ e = End(N, currentStack')
  BY <1>1, <1>2 DEF Straight, End
<1>5. Ordered(N)
  <2>1. \A k \in 1..Len(N) : FlatTask(N[k])
    BY <1>1, <1>2
  <2>2. \A i \in 1..Len(N), j \in 1..Len(N) : i < j => i = 1
    BY <1>2
  <2> QED
    BY <1>1, <1>2, <2>1, <2>2 DEF Ordered, Within
<1>6. NewTasks(Task1, N)
  BY <1>1, <1>2, <1>5 DEF NewTasks, Within
<1>7. TaskPlaced(N, 1)
  <2>1. 2 \in 1+1..Len(N)
    BY <1>2
  <2> QED
    BY <1>1, <1>2, <2>1 DEF TaskPlaced
<1>8. TaskPlaced(N, 2)
  BY <1>2 DEF TaskPlaced
<1>9. CallGoesOn(N)
  <2>1. 2 \in 1..Len(N)
    BY <1>2
  <2> QED
    BY <1>2, <2>1 DEF CallGoesOn
<1>10. /\ After(Task1, currentStack) <= e /\ (e <= maxStack' \/ e = After(Task1, currentStack))
       /\ maxStack <= maxStack' /\ LocalsKept(e)
  BY DEF StackMoves
<1>11. \A r1 \in Named(instructions') : r1 \in Named(instructions) \/ InFrame(r1)
  BY DEF StackMoves, CodeGrows
<1>12. \A n \in 1..Len(N) : TaskPlaced(N, n)
  BY <1>2, <1>7, <1>8
<1> QED
  BY <1>2, <1>3, <1>4, <1>6, <1>9, <1>10, <1>11, <1>12, FrameKept

LEMMA FlatFacts ==
  ASSUME NEW s \in Stmt
  PROVE  /\ Bare[s] => ~Declares(s) /\ Flat[s]
         /\ Bare[s] /\ s.kind = "block" => AllOf(Bare, s.body)
         /\ Flat[s] /\ s.kind \in {"block", "while"} => AllOf(Bare, s.body)
         /\ Flat[s] /\ s.kind = "if" => AllOf(Bare, s.then) /\ AllOf(Bare, s.else)
         /\ Flat[s] /\ s.kind = "func" => AllOf(Flat, s.body)
<1>1. (Bare[s] <=> BareNode(Bare, s)) /\ (Flat[s] <=> FlatNode(Flat, s))
  BY FlatAssumption
<1>2. Bare[s] => ~Declares(s) /\ Flat[s]
  <2> SUFFICES ASSUME BareNode(Bare, s) PROVE ~Declares(s) /\ FlatNode(Flat, s)
    BY <1>1
  <2>1. ~Declares(s) /\ s.kind # "func"
    BY DEF BareNode, Declares
  <2> QED
    BY <2>1 DEF BareNode, FlatNode
<1>3. BareNode(Bare, s) /\ s.kind = "block" => AllOf(Bare, s.body)
  BY DEF BareNode
<1>4. FlatNode(Flat, s) /\ s.kind \in {"block", "while"} => AllOf(Bare, s.body)
  BY DEF FlatNode
<1>5. FlatNode(Flat, s) /\ s.kind = "if" => AllOf(Bare, s.then) /\ AllOf(Bare, s.else)
  BY DEF FlatNode
<1>6. FlatNode(Flat, s) /\ s.kind = "func" => AllOf(Flat, s.body)
  BY DEF FlatNode
<1> QED
  BY <1>1, <1>2, <1>3, <1>4, <1>5, <1>6

LEMMA StmtTaskFacts ==
  ASSUME NEW s \in Stmt, Bare[s]
  PROVE  /\ StmtTask(s).t = "stmt" /\ StmtTask(s).s = s /\ ~Restores(StmtTask(s))
         /\ FlatTask(StmtTask(s)) /\ ~IsCall(StmtTask(s)) /\ ~DeclaringTask(StmtTask(s))
         /\ \A m : Remembers(StmtTask(s), m)
         /\ \A v, m, l : v <= m => AtLevel(StmtTask(s), v, m, l)
<1> DEFINE y == StmtTask(s)
<1>1. y.t = "stmt" /\ y.s = s
  BY DEF StmtTask
<1> HIDE DEF y
<1>2. ~Restores(y) /\ FlatTask(y) /\ ~IsCall(y) /\ ~DeclaringTask(y)
  BY <1>1, FlatFacts DEF Restores, FlatTask, IsCall, DeclaringTask
<1>3. \A m : Remembers(y, m)
  BY <1>1 DEF Remembers
<1>4. \A v, m, l : v <= m => AtLevel(y, v, m, l)
  BY <1>1, <1>2 DEF AtLevel, Statements
<1> QED
  BY <1>1, <1>2, <1>3, <1>4 DEF y

(* The statements of a body, and what is left of the statement around it.  *)
LEMMA FrameBody ==
  ASSUME Types, Types', HereFrame, todo # <<>>, NEW ss \in Seq(Stmt), AllOf(Bare, ss),
         NEW S, NEW N \in Seq(S), Then(N),
         NEW rest \in {0, 1}, Len(N) = Len(ss) + rest,
         \A n \in 1..Len(ss) : N[n] = StmtTask(ss[n]),
         \A n \in Len(ss)+1..Len(N) :
           /\ Nests(N[n]) /\ FlatTask(N[n]) /\ Remembers(N[n], maxStack'),
         NEW e, e = End(N, currentStack'), StackMoves(e), currentStack' <= maxStack',
         Task1.t \notin Within \cup {"callStmt"}
  PROVE  HereFrame'
<1> DEFINE k == Len(ss)
           l == Len(N)
<1>1. k \in Nat /\ l \in Nat /\ l = k + rest /\ ss \in Seq(Stmt) /\ \A n \in 1..k : ss[n] \in Stmt
  OBVIOUS
<1>2. \A n \in 1..k : /\ N[n].t = "stmt" /\ Bare[N[n].s] /\ ~Restores(N[n])
                      /\ FlatTask(N[n]) /\ ~IsCall(N[n]) /\ Remembers(N[n], maxStack')
                      /\ AtLevel(N[n], currentStack', maxStack', Len(locals'))
  <2> SUFFICES ASSUME NEW n \in 1..k
               PROVE  /\ N[n].t = "stmt" /\ Bare[N[n].s] /\ ~Restores(N[n])
                      /\ FlatTask(N[n]) /\ ~IsCall(N[n]) /\ Remembers(N[n], maxStack')
                      /\ AtLevel(N[n], currentStack', maxStack', Len(locals'))
    OBVIOUS
  <2>1. ss[n] \in Stmt /\ Bare[ss[n]] /\ N[n] = StmtTask(ss[n])
    BY <1>1 DEF AllOf
  <2> QED
    BY <2>1, StmtTaskFacts
<1>3. \A n \in k+1..l : /\ n = l /\ N[n].t \in {"ifThenEnd", "ifElseEnd", "whileEnd"}
                        /\ FlatTask(N[n]) /\ Remembers(N[n], maxStack')
                        /\ AtLevel(N[n], currentStack', maxStack', Len(locals'))
  <2> SUFFICES ASSUME NEW n \in k+1..l
               PROVE  /\ n = l /\ N[n].t \in {"ifThenEnd", "ifElseEnd", "whileEnd"}
                      /\ FlatTask(N[n]) /\ Remembers(N[n], maxStack')
                      /\ AtLevel(N[n], currentStack', maxStack', Len(locals'))
    OBVIOUS
  <2>1. n = l
    BY <1>1
  <2>2. N[n].t \in {"ifThenEnd", "ifElseEnd", "whileEnd"}
        /\ FlatTask(N[n]) /\ Remembers(N[n], maxStack')
    BY DEF Nests
  <2>3. AtLevel(N[n], currentStack', maxStack', Len(locals'))
    BY <2>2 DEF AtLevel, DeclaringTask
  <2> QED
    BY <2>1, <2>2, <2>3
<1>4. \A n \in 1..l : n \in 1..k \/ n \in k+1..l
  BY <1>1
<1>5. \A n \in 1..l-1 : n \in 1..k
  BY <1>1
<1> HIDE DEF k, l
<1>6. Straight(N)
  BY <1>2, <1>5 DEF Straight, l
<1>7. Ordered(N)
  <2>1. \A n \in 1..l : FlatTask(N[n])
    BY <1>2, <1>3, <1>4
  <2>2. ASSUME NEW i \in 1..l, NEW j \in 1..l, i < j
        PROVE  /\ N[i].t \notin Within => N[j].t \in Statements
               /\ N[i].t = "funcEnd" => N[j].t = "stmt"
               /\ N[i].t = "stmt" /\ Nests(N[j]) => Bare[N[i].s]
    <3>1. i \in 1..l-1
      BY <1>1, <2>2
    <3>2. N[i].t = "stmt" /\ Bare[N[i].s]
      BY <1>2, <1>5, <3>1
    <3>3. N[j].t \in Statements
      BY <1>2, <1>3, <1>4 DEF Statements
    <3> QED
      BY <3>2, <3>3
  <2> QED
    BY <2>1, <2>2 DEF Ordered, l
<1>8. NewTasks(Task1, N)
  <2>1. \A n \in 1..l : N[n].t # "funcEnd" /\ (N[n].t = "stmt" => Bare[N[n].s])
    BY <1>2, <1>3, <1>4
  <2> QED
    BY <1>7, <2>1 DEF NewTasks, l
<1>9. \A n \in 1..Len(N) : TaskPlaced(N, n)
  <2> TAKE n \in 1..Len(N)
  <2>1. N[n].t \notin {"expr", "binRight", "binOp"}
    BY <1>2, <1>3, <1>4 DEF l
  <2>2. Remembers(N[n], maxStack') /\ AtLevel(N[n], currentStack', maxStack', Len(locals'))
    BY <1>2, <1>3, <1>4 DEF l
  <2> QED
    BY <2>1, <2>2 DEF TaskPlaced
<1>10. CallGoesOn(N)
  BY DEF CallGoesOn, IsCall, Within
<1>11. /\ After(Task1, currentStack) <= e /\ (e <= maxStack' \/ e = After(Task1, currentStack))
       /\ maxStack <= maxStack' /\ LocalsKept(e)
  BY DEF StackMoves
<1>12. \A r \in Named(instructions') : r \in Named(instructions) \/ InFrame(r)
  BY DEF StackMoves, CodeGrows
<1> QED
  BY <1>6, <1>8, <1>9, <1>10, <1>11, <1>12, FrameKept

LEMMA FrameBlock ==
  ASSUME Types, Types', HereFrame, todo # <<>>, NEW ss \in Seq(Stmt), AllOf(Bare, ss),
         Then(generateStatements(ss)), StackMoves(currentStack'), currentStack' <= maxStack',
         Task1.t \notin Within \cup {"callStmt"}
  PROVE  HereFrame'
<1> DEFINE N == generateStatements(ss)
           e == currentStack'
<1>1. /\ N \in Seq(Task) /\ Len(N) = Len(ss) + 0 /\ Len(ss) \in Nat
      /\ \A n \in 1..Len(ss) : N[n] = StmtTask(ss[n])
  BY StatementsType
<1>2. Then(N) /\ StackMoves(e) /\ e <= maxStack' /\ e = currentStack'
  OBVIOUS
<1> HIDE DEF N, e
<1>3. \A n \in Len(ss)+1..Len(N) : FALSE
  BY <1>1
<1>4. e = End(N, currentStack')
  <2>1. CASE N = <<>>
    BY <1>2, <2>1 DEF End
  <2>2. CASE N # <<>>
    <3>1. Len(N) \in 1..Len(ss)
      BY <1>1, <2>2
    <3>2. ss[Len(N)] \in Stmt /\ Bare[ss[Len(N)]] /\ N[Len(N)] = StmtTask(ss[Len(N)])
      BY <1>1, <3>1 DEF AllOf
    <3>3. ~Restores(N[Len(N)])
      BY <3>2, StmtTaskFacts
    <3> QED
      BY <1>2, <2>2, <3>3 DEF End, After
  <2> QED
    BY <2>1, <2>2
<1> QED
  BY <1>1, <1>2, <1>3, <1>4, FrameBody

LEMMA FrameBranch ==
  ASSUME Types, Types', HereFrame, todo # <<>>, NEW ss \in Seq(Stmt), AllOf(Bare, ss),
         NEW y \in Task, Then(Append(generateStatements(ss), y)),
         Nests(y), FlatTask(y), Remembers(y, maxStack'),
         StackMoves(Restored(y)), currentStack' <= maxStack',
         Task1.t \notin Within \cup {"callStmt"}
  PROVE  HereFrame'
<1> DEFINE g == generateStatements(ss)
           N == Append(g, y)
           e == Restored(y)
<1>1. /\ g \in Seq(Task) /\ Len(g) = Len(ss) /\ Len(ss) \in Nat
      /\ \A n \in 1..Len(ss) : g[n] = StmtTask(ss[n])
  BY StatementsType
<1>2. Then(N) /\ StackMoves(e)
  OBVIOUS
<1> HIDE DEF g
<1>3. /\ N \in Seq(Task) /\ Len(N) = Len(ss) + 1 /\ N[Len(N)] = y
      /\ \A n \in 1..Len(ss) : N[n] = StmtTask(ss[n])
  BY <1>1, AppendFacts
<1> HIDE DEF N
<1>4. \A n \in Len(ss)+1..Len(N) : N[n] = y
  BY <1>1, <1>3
<1>5. e = End(N, currentStack')
  <2>1. N # <<>>
    BY <1>1, <1>3
  <2>2. Restores(y)
    BY DEF Nests, Restores
  <2> QED
    BY <1>3, <2>1, <2>2 DEF End, After
<1> HIDE DEF e
<1>6. \A n \in Len(ss)+1..Len(N) : Nests(N[n]) /\ FlatTask(N[n]) /\ Remembers(N[n], maxStack')
  BY <1>4
<1> QED
  BY <1>2, <1>3, <1>5, <1>6, FrameBody

----------------------------------------------------------------------------
(* The stack and the code, for the steps that keep locals.                 *)

LEMMA SameMoves ==
  ASSUME Types, HereFrame, todo # <<>>, SameStack, UNCHANGED locals, CodeGrows,
         NEW e, e = After(Task1, currentStack)
  PROVE  StackMoves(e)
<1>1. /\ Task1 \in Task /\ currentStack \in Nat /\ maxStack \in Nat /\ Len(locals) \in Nat
      /\ Len(locals) <= maxStack
  BY HeadFrame
<1>2. maxStack' = maxStack /\ Len(locals') = Len(locals) /\ maxStack <= maxStack'
  BY <1>1 DEF SameStack
<1>3. e \in Nat
  BY <1>1, AfterNumber
<1> QED
  BY <1>1, <1>2, <1>3 DEF StackMoves, LocalsKept

LEMMA LargerMoves ==
  ASSUME Types, Types', HereFrame, todo # <<>>, maxStack <= maxStack', UNCHANGED locals,
         CodeGrows, NEW e \in Nat, After(Task1, currentStack) <= e,
         e <= maxStack' \/ e = After(Task1, currentStack)
  PROVE  StackMoves(e)
<1>1. /\ maxStack \in Nat /\ Len(locals) \in Nat /\ Len(locals) <= maxStack
  BY HeadFrame
<1> DEFINE m == maxStack'
<1>2. m \in Nat /\ maxStack <= m /\ Len(locals') = Len(locals)
  BY DEF Types, StackType
<1> HIDE DEF m
<1>3. Len(locals') <= m
  BY <1>1, <1>2
<1> QED
  BY <1>3 DEF StackMoves, LocalsKept, m

LEMMA CodeSame ==
  ASSUME UNCHANGED instructions
  PROVE  CodeGrows
  BY DEF CodeGrows

LEMMA LargerNumbers == \A m, n \in Nat : /\ Larger(m, n) \in Nat /\ m <= Larger(m, n)
                                         /\ n <= Larger(m, n)
  BY DEF Larger

(* A register up to maxStack, or up to the task's own, fits.               *)
LEMMA FitsLow ==
  ASSUME Types, Types', maxStack <= maxStack', NEW r \in Int, r <= maxStack + 1
  PROVE  InFrame(r)
<1> DEFINE m == maxStack'
<1>1. m \in Nat /\ maxStack \in Nat /\ maxStack <= m
  BY DEF Types, StackType
<1> HIDE DEF m
<1>2. r < m + STACK_EXTRA
  BY <1>1 DEF STACK_EXTRA
<1> QED
  BY <1>2 DEF InFrame, m

LEMMA FitsNew ==
  ASSUME Types', NEW r \in Int, r <= maxStack' + 1
  PROVE  InFrame(r)
<1> DEFINE m == maxStack'
<1>1. m \in Nat /\ r <= m + 1
  BY DEF Types, StackType
<1> HIDE DEF m
<1>2. r < m + STACK_EXTRA
  BY <1>1 DEF STACK_EXTRA
<1> QED
  BY <1>2 DEF InFrame, m

LEMMA FitsOwn ==
  ASSUME Task1.t \in {"expr", "binRight", "binOp"}, NEW r, r <= Task1.dest
  PROVE  InFrame(r)
  BY DEF InFrame

LEMMA LocalRegister ==
  ASSUME Types, Tables, HereFrame, todo # <<>>, NEW x, isLocal(x)
  PROVE  localIndex[x] \in Nat /\ localIndex[x] < Len(locals) /\ localIndex[x] <= maxStack
<1>1. Len(locals) \in Nat /\ maxStack \in Nat /\ Len(locals) <= maxStack
  BY HeadFrame
<1>2. localIndex[x] \in Nat /\ localIndex[x] < Len(locals)
  BY DEF isLocal, Types, LocalsType, Tables, LocalsHere
<1> DEFINE n == localIndex[x]
<1> HIDE DEF n
<1>3. n \in Nat /\ n < Len(locals) /\ n <= maxStack
  BY <1>1, <1>2 DEF n
<1> QED
  BY <1>3 DEF n

----------------------------------------------------------------------------
(* The actions: statements.                                                *)

LEMMA StmtFrame ==
  ASSUME Types, HereFrame, NEW kind, AtStmt(kind)
  PROVE  /\ todo # <<>> /\ Task1.t = "stmt" /\ Task1.s \in Stmt /\ Task1.s.kind = kind
         /\ currentStack \in Nat /\ maxStack \in Nat /\ currentStack <= maxStack
         /\ Len(locals) \in Nat /\ Len(locals) <= maxStack
         /\ Flat[Task1.s] /\ ~IsCall(Task1) /\ ~Restores(Task1) /\ Task1.t \notin Within
         /\ Declares(Task1.s) => Len(locals) <= currentStack
         /\ After(Task1, currentStack) = currentStack
<1>1. todo # <<>> /\ Task1.t = "stmt" /\ Task1.s.kind = kind
  BY DEF AtStmt, At
<1>2. /\ Task1 \in Task /\ FlatTask(Task1)
      /\ AtLevel(Task1, currentStack, maxStack, Len(locals))
      /\ currentStack \in Nat /\ maxStack \in Nat /\ Len(locals) \in Nat
      /\ Len(locals) <= maxStack
  BY <1>1, HeadFrame
<1>3. Task1.s \in Stmt /\ Flat[Task1.s]
  BY <1>1, <1>2, TaskFields DEF FlatTask
<1>4. ~IsCall(Task1) /\ ~Restores(Task1) /\ Task1.t \notin Within
  BY <1>1 DEF IsCall, Restores, Within
<1>5. currentStack <= maxStack /\ (Declares(Task1.s) => Len(locals) <= currentStack)
  BY <1>1, <1>2 DEF AtLevel, Statements, DeclaringTask
<1> QED
  BY <1>1, <1>2, <1>3, <1>4, <1>5 DEF After

LEMMA QuietMoves ==
  ASSUME Types, HereFrame, todo # <<>>, OnlyTodo
  PROVE  /\ StackMoves(After(Task1, currentStack))
         /\ currentStack' = currentStack /\ maxStack' = maxStack /\ UNCHANGED locals
<1>1. SameStack /\ UNCHANGED locals /\ UNCHANGED instructions
  BY DEF OnlyTodo, SameRest
<1>2. CodeGrows
  BY <1>1, CodeSame
<1> DEFINE e == After(Task1, currentStack)
<1>3. e = After(Task1, currentStack)
  OBVIOUS
<1> HIDE DEF e
<1>4. StackMoves(e)
  BY <1>1, <1>2, <1>3, SameMoves
<1> QED
  BY <1>1, <1>4 DEF e, SameStack

LEMMA AssignLocalFrame ==
  ASSUME Types, Types', Tables, HereFrame, AssignLocal
  PROVE  HereFrame'
<1> DEFINE x == Task1.s.expr
           r == localIndex[Task1.s.name]
<1>1. AtStmt("assign") /\ isLocal(Task1.s.name) /\ Then(<<ExprTask(x, r)>>) /\ OnlyTodo
  BY DEF AssignLocal
<1>2. /\ todo # <<>> /\ Task1.s \in Stmt /\ Task1.s.kind = "assign" /\ ~IsCall(Task1)
      /\ After(Task1, currentStack) = currentStack /\ maxStack \in Nat
  BY <1>1, StmtFrame
<1>3. x \in Expr
  BY <1>2, StmtFields
<1>4. r \in Nat /\ r <= maxStack
  BY <1>1, <1>2, LocalRegister
<1>5. currentStack' = currentStack /\ maxStack' = maxStack /\ StackMoves(currentStack')
  BY <1>1, <1>2, QuietMoves
<1> HIDE DEF x, r
<1>6. InFrame(r)
  BY <1>2, <1>4, <1>5, FitsLow
<1> QED
  BY <1>1, <1>2, <1>3, <1>4, <1>5, <1>6, FrameExpr

LEMMA ExprStmtOtherFrame ==
  ASSUME Types, Types', HereFrame, ExprStmtOther
  PROVE  HereFrame'
<1> DEFINE x == Task1.s.expr
           r == currentStack
<1>1. AtStmt("expr") /\ Then(<<ExprTask(x, r)>>) /\ OnlyTodo
  BY DEF ExprStmtOther
<1>2. /\ todo # <<>> /\ Task1.s \in Stmt /\ Task1.s.kind = "expr" /\ ~IsCall(Task1)
      /\ After(Task1, currentStack) = currentStack /\ maxStack \in Nat
      /\ r \in Nat /\ r <= maxStack
  BY <1>1, StmtFrame
<1>3. x \in Expr
  BY <1>2, StmtFields
<1>4. currentStack' = currentStack /\ maxStack' = maxStack /\ StackMoves(currentStack')
  BY <1>1, <1>2, QuietMoves
<1> HIDE DEF x, r
<1>5. InFrame(r)
  BY <1>2, <1>4, FitsLow
<1> QED
  BY <1>1, <1>2, <1>3, <1>4, <1>5, FrameExpr

LEMMA StmtTwo ==
  ASSUME Types, Types', HereFrame, NEW kind, AtStmt(kind), OnlyTodo, NEW x \in Expr,
         NEW y \in Task, Then(<<ExprTask(x, currentStack), y>>), FlatTask(y),
         \/ y.t \in {"setGlobal", "return"} /\ y.reg = currentStack
         \/ y.t \in {"ifTest", "whileTest"} /\ y.saved = currentStack
  PROVE  HereFrame'
<1> DEFINE r == currentStack
           e == After(y, currentStack')
<1>1. /\ todo # <<>> /\ ~IsCall(Task1) /\ Task1.t \notin Within
      /\ After(Task1, currentStack) = currentStack
      /\ maxStack \in Nat /\ r \in Nat /\ r <= maxStack
  BY StmtFrame
<1>2. currentStack' = currentStack /\ maxStack' = maxStack /\ StackMoves(currentStack)
  BY <1>1, QuietMoves
<1>3. e = currentStack
  BY <1>2 DEF After, Restores, Restored
<1>4. StackMoves(e)
  BY <1>2, <1>3
<1>5. Remembers(y, maxStack')
  BY <1>1, <1>2 DEF Remembers
<1>6. AtLevel(y, currentStack', maxStack', Len(locals'))
  BY DEF AtLevel, Statements, DeclaringTask
<1>7. Then(<<ExprTask(x, r), y>>)
  OBVIOUS
<1>8. InFrame(r)
  BY <1>1, <1>2, FitsLow
<1>10. y.t \notin {"stmt", "funcEnd", "expr", "binRight", "binOp"}
  OBVIOUS
<1> HIDE DEF r
<1>9. e = After(y, currentStack')
  OBVIOUS
<1> HIDE DEF e
<1>11. Pair(x, r, y, e)
  <2>1. x \in Expr /\ r \in Nat /\ y \in Task /\ Then(<<ExprTask(x, r), y>>)
    BY <1>1, <1>7
  <2>2. e = After(y, currentStack') /\ StackMoves(e)
    BY <1>4, <1>9
  <2>3. Task1.t \in Within => y.t \in Within
    BY <1>1
  <2>4. y.t \notin {"stmt", "funcEnd"} /\ (y.t \in {"expr", "binRight", "binOp"} => InFrame(y.dest))
    BY <1>10
  <2>5. Remembers(y, maxStack') /\ AtLevel(y, currentStack', maxStack', Len(locals'))
    BY <1>5, <1>6
  <2>6. IsCall(Task1) => IsCall(y) /\ Counts(Task1, currentStack) <= Counts(y, currentStack')
    BY <1>1
  <2> QED
    BY <1>8, <2>1, <2>2, <2>3, <2>4, <2>5, <2>6 DEF Pair
<1> QED
  BY <1>1, <1>11, FrameTwo

LEMMA AssignGlobalFrame ==
  ASSUME Types, Types', HereFrame, AssignGlobal
  PROVE  HereFrame'
<1> DEFINE y == [t |-> "setGlobal", name |-> Task1.s.name, reg |-> currentStack]
<1>1. AtStmt("assign") /\ Then(<<ExprTask(Task1.s.expr, currentStack), y>>) /\ OnlyTodo
  BY DEF AssignGlobal
<1>2. Task1.s \in Stmt /\ Task1.s.kind = "assign" /\ currentStack \in Nat
  BY <1>1, StmtFrame
<1>3. Task1.s.expr \in Expr /\ Task1.s.name \in Names
  BY <1>2, StmtFields
<1>4. y \in Task /\ y.t = "setGlobal" /\ y.reg = currentStack
  BY <1>2, <1>3, TaskTypes
<1> HIDE DEF y
<1>5. FlatTask(y)
  BY <1>4 DEF FlatTask
<1> QED
  BY <1>1, <1>3, <1>4, <1>5, StmtTwo

LEMMA ReturnFrame ==
  ASSUME Types, Types', HereFrame, Return
  PROVE  HereFrame'
<1> DEFINE y == [t |-> "return", reg |-> currentStack]
<1>1. AtStmt("return") /\ Then(<<ExprTask(Task1.s.expr, currentStack), y>>) /\ OnlyTodo
  BY DEF Return
<1>2. Task1.s \in Stmt /\ Task1.s.kind = "return" /\ currentStack \in Nat
  BY <1>1, StmtFrame
<1>3. Task1.s.expr \in Expr
  BY <1>2, StmtFields
<1>4. y \in Task /\ y.t = "return" /\ y.reg = currentStack
  BY <1>2, <1>3, TaskTypes
<1> HIDE DEF y
<1>5. FlatTask(y)
  BY <1>4 DEF FlatTask
<1> QED
  BY <1>1, <1>3, <1>4, <1>5, StmtTwo

LEMMA IfFrame ==
  ASSUME Types, Types', HereFrame, If
  PROVE  HereFrame'
<1> DEFINE y == [t |-> "ifTest", saved |-> currentStack,
                 then |-> Task1.s.then, else |-> Task1.s.else]
<1>1. AtStmt("if") /\ Then(<<ExprTask(Task1.s.cond, currentStack), y>>) /\ OnlyTodo
  BY DEF If
<1>2. Task1.s \in Stmt /\ Task1.s.kind = "if" /\ currentStack \in Nat /\ Flat[Task1.s]
  BY <1>1, StmtFrame
<1>3. /\ Task1.s.cond \in Expr /\ Task1.s.then \in Seq(Stmt) /\ Task1.s.else \in Seq(Stmt)
      /\ AllOf(Bare, Task1.s.then) /\ AllOf(Bare, Task1.s.else)
  BY <1>2, StmtFields, FlatFacts
<1>4. /\ y \in Task /\ y.t = "ifTest" /\ y.saved = currentStack
      /\ y.then = Task1.s.then /\ y.else = Task1.s.else
  BY <1>2, <1>3, TaskTypes
<1> HIDE DEF y
<1>5. FlatTask(y)
  BY <1>3, <1>4 DEF FlatTask
<1> QED
  BY <1>1, <1>3, <1>4, <1>5, StmtTwo

LEMMA WhileFrame ==
  ASSUME Types, Types', HereFrame, While
  PROVE  HereFrame'
<1> DEFINE y == [t |-> "whileTest", saved |-> currentStack,
                 start |-> Len(instructions), body |-> Task1.s.body]
<1>1. AtStmt("while") /\ Then(<<ExprTask(Task1.s.cond, currentStack), y>>) /\ OnlyTodo
  BY DEF While
<1>2. Task1.s \in Stmt /\ Task1.s.kind = "while" /\ currentStack \in Nat /\ Flat[Task1.s]
  BY <1>1, StmtFrame
<1>3. /\ Task1.s.cond \in Expr /\ Task1.s.body \in Seq(Stmt) /\ AllOf(Bare, Task1.s.body)
      /\ Len(instructions) \in Nat
  BY <1>2, StmtFields, FlatFacts DEF Types, CodeType
<1>4. y \in Task /\ y.t = "whileTest" /\ y.saved = currentStack /\ y.body = Task1.s.body
  BY <1>2, <1>3, TaskTypes
<1> HIDE DEF y
<1>5. FlatTask(y)
  BY <1>3, <1>4 DEF FlatTask
<1> QED
  BY <1>1, <1>3, <1>4, <1>5, StmtTwo

LEMMA BlockFrame ==
  ASSUME Types, Types', HereFrame, Block
  PROVE  HereFrame'
<1> DEFINE ss == Task1.s.body
<1>1. AtStmt("block") /\ Then(generateStatements(ss)) /\ OnlyTodo
  BY DEF Block
<1>2. /\ todo # <<>> /\ Task1.s \in Stmt /\ Task1.s.kind = "block" /\ Flat[Task1.s]
      /\ Task1.t = "stmt" /\ After(Task1, currentStack) = currentStack
      /\ currentStack <= maxStack
  BY <1>1, StmtFrame
<1>3. ss \in Seq(Stmt) /\ AllOf(Bare, ss)
  BY <1>2, StmtFields, FlatFacts
<1>4. StackMoves(currentStack') /\ currentStack' <= maxStack'
  BY <1>1, <1>2, QuietMoves
<1>5. Task1.t \notin Within \cup {"callStmt"}
  BY <1>2 DEF Within
<1> HIDE DEF ss
<1> QED
  BY <1>1, <1>2, <1>3, <1>4, <1>5, FrameBlock

LEMMA ExprStmtCallFrame ==
  ASSUME Types, Types', HereFrame, ExprStmtCall
  PROVE  HereFrame'
<1> DEFINE call == Task1.s.expr
           k == addConstantIndex(strConstant(call.name))
           y == [t |-> "callStmt", func |-> currentStack, next |-> currentStack + 1,
                 args |-> call.args, n |-> Len(call.args)]
<1>1. /\ AtStmt("expr") /\ call.kind = "call" /\ addConstant(strConstant(call.name))
      /\ emit(<<encodeABC("GETTABUP", currentStack, 0, k)>>) /\ Then(<<y>>)
      /\ SameStack /\ UNCHANGED locals
  BY DEF ExprStmtCall, SameRest
<1>2. /\ todo # <<>> /\ Task1.s \in Stmt /\ Task1.s.kind = "expr" /\ Task1.t = "stmt"
      /\ After(Task1, currentStack) = currentStack /\ currentStack <= maxStack
      /\ currentStack \in Nat /\ maxStack \in Nat /\ ~IsCall(Task1)
  BY <1>1, StmtFrame
<1>3. call \in Expr /\ call.name \in Names /\ call.args \in Seq(Expr)
  BY <1>1, <1>2, StmtFields, ExprFields
<1>5. k \in Nat
  BY <1>1, <1>3, StringIndex
<1> HIDE DEF call, k
<1>4. /\ y \in Task /\ y.t = "callStmt" /\ y.func = currentStack /\ y.next = currentStack + 1
      /\ Len(y.args) = y.n
  <2>1. currentStack + 1 \in Nat /\ Len(call.args) \in Nat
    BY <1>2, <1>3
  <2> QED
    BY <1>2, <1>3, <2>1, TaskTypes
<1>6. currentStack' = currentStack /\ maxStack' = maxStack
  BY <1>1 DEF SameStack
<1> HIDE DEF y
<1>7. CodeGrows
  <2> DEFINE x == encodeABC("GETTABUP", currentStack, 0, k)
  <2>1. x \in Instruction
    BY <1>2, <1>5, EncodeType DEF Ops
  <2>2. \A r \in Registers(x) : r \in Int /\ r <= currentStack
    BY <1>2, <1>5, <2>1, RegisterBounds, RegistersAreNumbers
  <2>3. emit(<<x>>)
    BY <1>1
  <2> HIDE DEF x
  <2>4. \A r \in Registers(x) : InFrame(r)
    <3> TAKE r \in Registers(x)
    <3>1. r \in Int /\ r <= maxStack + 1
      BY <1>2, <2>2
    <3> QED
      BY <1>2, <1>6, <3>1, FitsLow
  <2> QED
    BY <2>1, <2>3, <2>4, OneGrows DEF Types
<1> DEFINE e == currentStack
<1>8. e = After(y, currentStack') /\ e = After(Task1, currentStack)
  BY <1>2, <1>4 DEF After, Restores, Restored
<1> HIDE DEF e
<1>9. StackMoves(e)
  BY <1>1, <1>2, <1>7, <1>8, SameMoves
<1>10. Remembers(y, maxStack')
  BY <1>2, <1>4 DEF Remembers
<1>11. AtLevel(y, currentStack', maxStack', Len(locals')) /\ FlatTask(y)
  BY <1>4 DEF AtLevel, Statements, DeclaringTask, FlatTask
<1>12. Task1.t \notin Within
  BY <1>2 DEF Within
<1> QED
  BY <1>1, <1>2, <1>4, <1>8, <1>9, <1>10, <1>11, <1>12, FrameOne

LEMMA RestFrame ==
  ASSUME Types, HereFrame, NEW t, At(t)
  PROVE  /\ todo # <<>> /\ Task1.t = t /\ Task1 \in Task
         /\ Remembers(Task1, maxStack) /\ FlatTask(Task1)
         /\ AtLevel(Task1, currentStack, maxStack, Len(locals))
         /\ currentStack \in Nat /\ maxStack \in Nat /\ Len(locals) \in Nat
         /\ Len(locals) <= maxStack
<1>1. todo # <<>> /\ Task1.t = t
  BY DEF At
<1> QED
  BY <1>1, HeadFrame

LEMMA SetGlobalFrame ==
  ASSUME Types, Types', HereFrame, SetGlobal
  PROVE  HereFrame'
<1> DEFINE k == addConstantIndex(strConstant(Task1.name))
           reg == Task1.reg
           x == encodeABC("SETTABUP", 0, k, reg)
<1>1. /\ At("setGlobal") /\ addConstant(strConstant(Task1.name)) /\ emit(<<x>>)
      /\ Then(<<>>) /\ SameStack /\ UNCHANGED locals
  BY DEF SetGlobal, SameRest
<1>2. /\ todo # <<>> /\ Task1 \in Task /\ Task1.t = "setGlobal" /\ Remembers(Task1, maxStack)
      /\ currentStack \in Nat /\ maxStack \in Nat
  BY <1>1, RestFrame
<1>3. reg \in Nat /\ reg <= maxStack /\ Task1.name \in Names
  BY <1>2, TaskFields DEF Remembers
<1>4. k \in Nat
  BY <1>1, <1>3, StringIndex
<1>5. After(Task1, currentStack) = currentStack /\ ~IsCall(Task1)
  BY <1>2 DEF After, Restores, IsCall
<1>6. currentStack' = currentStack /\ maxStack' = maxStack
  BY <1>1 DEF SameStack
<1> HIDE DEF k, reg
<1>7. x \in Instruction /\ \A r \in Registers(x) : r \in Int /\ r <= reg
  <2>1. x \in Instruction
    BY <1>3, <1>4, EncodeType DEF Ops
  <2> QED
    BY <1>3, <1>4, <2>1, RegisterBounds, RegistersAreNumbers
<1> HIDE DEF x
<1>8. \A r \in Registers(x) : InFrame(r)
  <2> TAKE r \in Registers(x)
  <2>1. r \in Int /\ r <= maxStack + 1
    BY <1>2, <1>3, <1>7
  <2> QED
    BY <1>2, <1>6, <2>1, FitsLow
<1>9. CodeGrows
  BY <1>1, <1>7, <1>8, OneGrows DEF Types
<1>10. StackMoves(currentStack')
  BY <1>1, <1>2, <1>5, <1>6, <1>9, SameMoves
<1> QED
  BY <1>1, <1>2, <1>5, <1>10, FrameNone

LEMMA EmitReturnFrame ==
  ASSUME Types, Types', HereFrame, EmitReturn
  PROVE  HereFrame'
<1> DEFINE reg == Task1.reg
           c == IF isMain THEN 1 ELSE 0
           x == encodeABC("RETURN", reg, 2, c)
<1>1. At("return") /\ emit(<<x>>) /\ Then(<<>>) /\ SameStack /\ UNCHANGED locals
  BY DEF EmitReturn, SameRest
<1>2. /\ todo # <<>> /\ Task1 \in Task /\ Task1.t = "return" /\ Remembers(Task1, maxStack)
      /\ currentStack \in Nat /\ maxStack \in Nat
  BY <1>1, RestFrame
<1>3. reg \in Nat /\ reg <= maxStack /\ c \in Nat
  BY <1>2, TaskFields DEF Remembers
<1>5. After(Task1, currentStack) = currentStack /\ ~IsCall(Task1)
  BY <1>2 DEF After, Restores, IsCall
<1>6. currentStack' = currentStack /\ maxStack' = maxStack
  BY <1>1 DEF SameStack
<1> HIDE DEF reg, c
<1>7. x \in Instruction /\ \A r \in Registers(x) : r \in Int /\ r <= reg
  <2>1. x \in Instruction
    BY <1>3, EncodeType DEF Ops
  <2> QED
    BY <1>3, <2>1, RegisterBounds, RegistersAreNumbers
<1> HIDE DEF x
<1>8. \A r \in Registers(x) : InFrame(r)
  <2> TAKE r \in Registers(x)
  <2>1. r \in Int /\ r <= maxStack + 1
    BY <1>2, <1>3, <1>7
  <2> QED
    BY <1>2, <1>6, <2>1, FitsLow
<1>9. CodeGrows
  BY <1>1, <1>7, <1>8, OneGrows DEF Types
<1>10. StackMoves(currentStack')
  BY <1>1, <1>2, <1>5, <1>6, <1>9, SameMoves
<1> QED
  BY <1>1, <1>2, <1>5, <1>10, FrameNone

(* The tasks that restore the stack a statement began with.                *)
LEMMA SavedFrame ==
  ASSUME Types, Types', HereFrame, NEW t \in {"ifTest", "ifThenEnd", "ifElseEnd", "whileTest", "whileEnd"},
         At(t), setStack(Task1.saved), UNCHANGED maxStack, UNCHANGED locals, CodeGrows
  PROVE  /\ todo # <<>> /\ Task1 \in Task /\ Task1.t = t /\ FlatTask(Task1)
         /\ Task1.saved \in Nat /\ maxStack \in Nat /\ Task1.saved <= maxStack
         /\ currentStack' = Task1.saved /\ maxStack' = maxStack
         /\ StackMoves(Task1.saved) /\ StackMoves(currentStack') /\ ~IsCall(Task1)
         /\ Task1.t \notin Within \cup {"callStmt"}
<1>1. /\ todo # <<>> /\ Task1 \in Task /\ Task1.t = t /\ FlatTask(Task1)
      /\ Remembers(Task1, maxStack) /\ currentStack \in Nat /\ maxStack \in Nat
  BY RestFrame
<1> DEFINE e == Task1.saved
<1>2. e \in Nat /\ e <= maxStack /\ Task1.t # "callStmt"
  BY <1>1, TaskFields DEF Remembers
<1>3. e = After(Task1, currentStack) /\ ~IsCall(Task1) /\ Task1.t \notin Within \cup {"callStmt"}
  BY <1>1 DEF After, Restores, Restored, IsCall, Within
<1>4. currentStack' = e /\ maxStack' = maxStack
  BY DEF setStack
<1> HIDE DEF e
<1>5. StackMoves(e)
  <2>1. maxStack <= maxStack' /\ After(Task1, currentStack) <= e /\ e <= maxStack'
    BY <1>1, <1>2, <1>3, <1>4
  <2> QED
    BY <1>1, <1>2, <2>1, LargerMoves
<1> QED
  BY <1>1, <1>2, <1>3, <1>4, <1>5 DEF e

LEMMA PatchGrows ==
  ASSUME CodeType, NEW jmp \in Nat, NEW end \in Nat,
         \/ instructions' = Patched(instructions, jmp, end)
         \/ \E n \in Int : instructions' = Patched(Append(instructions, encodeIsJ(n)), jmp, end)
  PROVE  CodeGrows
<1>1. CASE instructions' = Patched(instructions, jmp, end)
  BY <1>1, NamedPatched DEF CodeGrows, CodeType
<1>2. ASSUME NEW n \in Int, instructions' = Patched(Append(instructions, encodeIsJ(n)), jmp, end)
      PROVE  CodeGrows
  <2> DEFINE x == encodeIsJ(n)
             seg == <<x>>
             long == instructions \o seg
  <2>1. x \in Instruction /\ Registers(x) = {}
    BY EncodeType, NoRegisters DEF Ops
  <2> HIDE DEF x
  <2>2. /\ seg \in Seq(Instruction) /\ Len(seg) = 1 /\ seg[1] = x
        /\ Append(instructions, x) = long /\ \A i \in 1..Len(seg) : i = 1
    BY <2>1 DEF CodeType
  <2> HIDE DEF seg
  <2>3. long \in Seq(Instruction)
    BY <2>2, ConcatFacts DEF CodeType
  <2>4. \A r \in Named(long) : r \in Named(instructions)
    <3>1. \A r \in Named(long) :
            r \in Named(instructions) \/ \E i \in 1..Len(seg) : r \in Registers(seg[i])
      BY <2>2, NamedConcat DEF CodeType
    <3> QED
      BY <2>1, <2>2, <3>1
  <2> HIDE DEF long
  <2>5. instructions' = Patched(long, jmp, end)
    BY <1>2, <2>2 DEF x
  <2>6. \A r \in Named(Patched(long, jmp, end)) : r \in Named(long)
    BY <2>3, NamedPatched
  <2> QED
    BY <2>4, <2>5, <2>6 DEF CodeGrows
<1> QED
  BY <1>1, <1>2

LEMMA TestFrame ==
  ASSUME Types, Types', HereFrame, NEW t \in {"ifTest", "whileTest"}, At(t),
         setStack(Task1.saved), UNCHANGED maxStack, UNCHANGED locals,
         emit(<<encodeABC("TEST", Task1.saved, 0, 0), encodeIsJ(0)>>)
  PROVE  CodeGrows
<1> DEFINE saved == Task1.saved
           x == encodeABC("TEST", saved, 0, 0)
           y == encodeIsJ(0)
           seg == <<x, y>>
<1>1. /\ Task1 \in Task /\ Task1.t = t /\ Remembers(Task1, maxStack) /\ maxStack \in Nat
  BY RestFrame
<1>2. saved \in Nat /\ saved <= maxStack /\ maxStack' = maxStack /\ maxStack <= maxStack'
  BY <1>1, TaskFields DEF Remembers
<1>3. emit(seg)
  OBVIOUS
<1> HIDE DEF saved
<1>4. /\ x \in Instruction /\ y \in Instruction /\ Registers(y) = {}
      /\ \A r \in Registers(x) : r \in Int /\ r <= saved
  <2>1. x \in Instruction /\ y \in Instruction
    BY <1>2, EncodeType DEF Ops
  <2> QED
    BY <1>2, <2>1, RegisterBounds, RegistersAreNumbers, NoRegisters
<1> HIDE DEF x, y
<1>5. \A r \in Registers(x) : InFrame(r)
  <2> TAKE r \in Registers(x)
  <2>1. r \in Int /\ r <= maxStack + 1
    BY <1>1, <1>2, <1>4
  <2> QED
    BY <1>2, <2>1, FitsLow
<1>6. seg \in Seq(Instruction) /\ seg[1] = x /\ seg[2] = y /\ \A n \in 1..Len(seg) : n = 1 \/ n = 2
  BY <1>4
<1> HIDE DEF seg
<1>7. \A n \in 1..Len(seg) : \A r \in Registers(seg[n]) : InFrame(r)
  BY <1>4, <1>5, <1>6
<1> QED
  BY <1>3, <1>6, <1>7, EmitGrows DEF Types

LEMMA IfTestFrame ==
  ASSUME Types, Types', HereFrame, IfTest
  PROVE  HereFrame'
<1> DEFINE ss == Task1.then
           y == [t |-> "ifThenEnd", saved |-> Task1.saved,
                 jmp |-> Len(instructions) + 1, else |-> Task1.else]
<1>1. /\ At("ifTest") /\ setStack(Task1.saved) /\ UNCHANGED maxStack /\ UNCHANGED locals
      /\ emit(<<encodeABC("TEST", Task1.saved, 0, 0), encodeIsJ(0)>>)
      /\ Then(Append(generateStatements(ss), y))
  BY DEF IfTest, SameRest
<1>2. CodeGrows
  BY <1>1, TestFrame
<1>3. /\ todo # <<>> /\ Task1 \in Task /\ Task1.t = "ifTest" /\ FlatTask(Task1)
      /\ Task1.saved \in Nat /\ maxStack \in Nat /\ Task1.saved <= maxStack
      /\ currentStack' = Task1.saved /\ maxStack' = maxStack
      /\ StackMoves(Task1.saved) /\ Task1.t \notin Within \cup {"callStmt"}
  BY <1>1, <1>2, SavedFrame
<1>4. /\ ss \in Seq(Stmt) /\ Task1.else \in Seq(Stmt) /\ Len(instructions) + 1 \in Nat
      /\ AllOf(Bare, ss) /\ AllOf(Bare, Task1.else)
  BY <1>3, TaskFields DEF FlatTask, Types, CodeType
<1>5. /\ y \in Task /\ y.t = "ifThenEnd" /\ y.saved = Task1.saved /\ y.else = Task1.else
  BY <1>3, <1>4, TaskTypes
<1> HIDE DEF ss, y
<1>6. Nests(y) /\ FlatTask(y) /\ Remembers(y, maxStack') /\ StackMoves(Restored(y))
  BY <1>3, <1>4, <1>5 DEF Nests, FlatTask, Remembers, Restored
<1>7. currentStack' <= maxStack'
  BY <1>3
<1> QED
  BY <1>1, <1>3, <1>4, <1>5, <1>6, <1>7, FrameBranch

LEMMA WhileTestFrame ==
  ASSUME Types, Types', HereFrame, WhileTest
  PROVE  HereFrame'
<1> DEFINE ss == Task1.body
           y == [t |-> "whileEnd", saved |-> Task1.saved,
                 start |-> Task1.start, jmp |-> Len(instructions) + 1]
<1>1. /\ At("whileTest") /\ setStack(Task1.saved) /\ UNCHANGED maxStack /\ UNCHANGED locals
      /\ emit(<<encodeABC("TEST", Task1.saved, 0, 0), encodeIsJ(0)>>)
      /\ Then(Append(generateStatements(ss), y))
  BY DEF WhileTest, SameRest
<1>2. CodeGrows
  BY <1>1, TestFrame
<1>3. /\ todo # <<>> /\ Task1 \in Task /\ Task1.t = "whileTest" /\ FlatTask(Task1)
      /\ Task1.saved \in Nat /\ maxStack \in Nat /\ Task1.saved <= maxStack
      /\ currentStack' = Task1.saved /\ maxStack' = maxStack
      /\ StackMoves(Task1.saved) /\ Task1.t \notin Within \cup {"callStmt"}
  BY <1>1, <1>2, SavedFrame
<1>4. /\ ss \in Seq(Stmt) /\ Task1.start \in Nat /\ Len(instructions) + 1 \in Nat
      /\ AllOf(Bare, ss)
  BY <1>3, TaskFields DEF FlatTask, Types, CodeType
<1>5. /\ y \in Task /\ y.t = "whileEnd" /\ y.saved = Task1.saved
  BY <1>3, <1>4, TaskTypes
<1> HIDE DEF ss, y
<1>6. Nests(y) /\ FlatTask(y) /\ Remembers(y, maxStack') /\ StackMoves(Restored(y))
  BY <1>3, <1>4, <1>5 DEF Nests, FlatTask, Remembers, Restored
<1>7. currentStack' <= maxStack'
  BY <1>3
<1> QED
  BY <1>1, <1>3, <1>4, <1>5, <1>6, <1>7, FrameBranch

LEMMA IfThenEndFrame ==
  ASSUME Types, Types', HereFrame, IfThenEnd
  PROVE  HereFrame'
<1> DEFINE ss == Task1.else
           y == [t |-> "ifElseEnd", saved |-> Task1.saved, jmp |-> Len(instructions)]
<1>1. At("ifThenEnd") /\ setStack(Task1.saved) /\ UNCHANGED maxStack /\ UNCHANGED locals
  BY DEF IfThenEnd, SameRest
<1>2. \/ /\ instructions' = Patched(Append(instructions, encodeIsJ(0)),
                                    Task1.jmp, Len(instructions) + 1)
         /\ Then(Append(generateStatements(ss), y))
      \/ /\ instructions' = Patched(instructions, Task1.jmp, Len(instructions))
         /\ Then(<<>>)
  BY DEF IfThenEnd
<1>3. Task1 \in Task /\ Task1.t = "ifThenEnd"
  BY <1>1, RestFrame
<1>4. Task1.jmp \in Nat /\ ss \in Seq(Stmt) /\ Len(instructions) \in Nat
      /\ Len(instructions) + 1 \in Nat /\ 0 \in Int
  BY <1>3, TaskFields DEF Types, CodeType
<1>5. CodeGrows
  BY <1>2, <1>4, PatchGrows DEF Types
<1>6. /\ todo # <<>> /\ FlatTask(Task1) /\ Task1.saved \in Nat /\ maxStack \in Nat
      /\ Task1.saved <= maxStack /\ currentStack' = Task1.saved /\ maxStack' = maxStack
      /\ StackMoves(Task1.saved) /\ StackMoves(currentStack') /\ ~IsCall(Task1)
      /\ Task1.t \notin Within \cup {"callStmt"}
  BY <1>1, <1>5, SavedFrame
<1>7. AllOf(Bare, ss)
  BY <1>3, <1>6 DEF FlatTask
<1>8. y \in Task /\ y.t = "ifElseEnd" /\ y.saved = Task1.saved
  BY <1>4, <1>6, TaskTypes
<1>9. CASE Then(<<>>)
  BY <1>6, <1>9, FrameNone
<1>10. CASE Then(Append(generateStatements(ss), y))
  <2> HIDE DEF ss, y
  <2>1. Nests(y) /\ FlatTask(y) /\ Remembers(y, maxStack') /\ StackMoves(Restored(y))
    BY <1>6, <1>8 DEF Nests, FlatTask, Remembers, Restored
  <2>2. currentStack' <= maxStack'
    BY <1>6
  <2> QED
    BY <1>4, <1>6, <1>7, <1>8, <1>10, <2>1, <2>2, FrameBranch
<1> QED
  BY <1>2, <1>9, <1>10

LEMMA EndsFrame ==
  ASSUME Types, Types', HereFrame, IfElseEnd \/ WhileEnd
  PROVE  HereFrame'
<1>1. /\ \E t \in {"ifElseEnd", "whileEnd"} : At(t)
      /\ setStack(Task1.saved) /\ UNCHANGED maxStack /\ UNCHANGED locals /\ Then(<<>>)
  BY DEF IfElseEnd, WhileEnd, SameRest
<1>2. PICK t \in {"ifElseEnd", "whileEnd"} : At(t)
  BY <1>1
<1>3. Task1 \in Task /\ Task1.t = t
  BY <1>2, RestFrame
<1>4. /\ Task1.jmp \in Nat /\ Len(instructions) \in Nat /\ Len(instructions) + 1 \in Nat
      /\ t = "whileEnd" => Task1.start - Len(instructions) - 1 \in Int
  BY <1>3, TaskFields DEF Types, CodeType
<1>5. CodeGrows
  <2>1. CASE IfElseEnd
    BY <1>4, <2>1, PatchGrows DEF IfElseEnd, Types
  <2>2. CASE WhileEnd
    <3>1. t = "whileEnd"
      BY <1>3, <2>2 DEF WhileEnd, At
    <3> DEFINE n == Task1.start - Len(instructions) - 1
    <3>2. n \in Int
      BY <1>4, <3>1
    <3>3. instructions' = Patched(Append(instructions, encodeIsJ(n)),
                                  Task1.jmp, Len(instructions) + 1)
      BY <2>2 DEF WhileEnd
    <3> HIDE DEF n
    <3> QED
      BY <1>4, <3>2, <3>3, PatchGrows DEF Types
  <2> QED
    BY <2>1, <2>2
<1>6. todo # <<>> /\ StackMoves(currentStack') /\ ~IsCall(Task1)
  BY <1>1, <1>2, <1>5, SavedFrame
<1> QED
  BY <1>1, <1>6, FrameNone

----------------------------------------------------------------------------
(* The actions: calls.                                                     *)

(* The frame counts the function and its arguments when CALL is emitted.   *)
LEMMA CallGrows ==
  ASSUME Types, Types', NEW func \in Nat, NEW n \in Nat, NEW c \in Nat,
         emit(<<encodeABC("CALL", func, n + 1, c)>>), func + 1 + n <= maxStack'
  PROVE  CodeGrows
<1> DEFINE b == n + 1
           x == encodeABC("CALL", func, b, c)
<1>1. b \in Nat /\ emit(<<x>>)
  OBVIOUS
<1>2. func + b <= maxStack'
  <2> DEFINE m == maxStack'
  <2>1. m \in Nat /\ func + 1 + n <= m
    BY DEF Types, StackType
  <2> HIDE DEF m
  <2>2. func + b <= m
    BY <2>1
  <2> QED
    BY <2>2 DEF m
<1> HIDE DEF b
<1>3. x \in Instruction /\ \A r \in Registers(x) : r \in Int /\ r < func + b
  <2>1. x \in Instruction
    BY <1>1, EncodeType DEF Ops
  <2> QED
    BY <1>1, <2>1, CallRegisters, RegistersAreNumbers
<1> HIDE DEF x
<1>4. \A r \in Registers(x) : InFrame(r)
  <2> TAKE r \in Registers(x)
  <2> DEFINE m == maxStack'
  <2>1. m \in Nat /\ func + b <= m
    BY <1>2 DEF Types, StackType
  <2> HIDE DEF m
  <2>2. r \in Int /\ r <= m + 1
    BY <1>1, <1>3, <2>1
  <2> QED
    BY <2>2, FitsNew DEF m
<1> QED
  BY <1>1, <1>3, <1>4, OneGrows DEF Types

LEMMA ArgsFacts ==
  ASSUME NEW S, NEW args \in Seq(S), args # <<>>
  PROVE  Head(args) \in S /\ Tail(args) \in Seq(S) /\ Len(Tail(args)) + 1 = Len(args)
  BY TailFacts

LEMMA CallStmtFrame ==
  ASSUME Types, Types', HereFrame, CallStmt
  PROVE  HereFrame'
<1> DEFINE next == Task1.next
           func == Task1.func
           args == Task1.args
           n == Task1.n
           y == [Task1 EXCEPT !.next = @ + 1, !.args = Tail(@)]
<1>1. At("callStmt") /\ UNCHANGED locals
  BY DEF CallStmt, SameRest
<1>2. /\ todo # <<>> /\ Task1 \in Task /\ Task1.t = "callStmt" /\ Remembers(Task1, maxStack)
      /\ currentStack \in Nat /\ maxStack \in Nat
  BY <1>1, RestFrame
<1>3. /\ next \in Nat /\ func \in Nat /\ n \in Nat /\ args \in Seq(Expr) /\ Len(args) \in Nat
      /\ next + Len(args) >= func + 1 + n
  BY <1>2, TaskFields DEF Remembers
<1>4. After(Task1, currentStack) = func /\ Counts(Task1, currentStack) = next
  BY <1>2 DEF After, Restores, Restored, Counts
<1>5. CASE args # <<>>
  <2> DEFINE x == Head(args)
  <2>1. /\ setStack(next) /\ UNCHANGED maxStack /\ UNCHANGED instructions
        /\ Then(<<ExprTask(x, next), y>>)
    BY <1>5 DEF CallStmt
  <2>2. x \in Expr /\ Tail(args) \in Seq(Expr) /\ Len(Tail(args)) + 1 = Len(args)
        /\ Len(Tail(args)) \in Nat
    BY <1>3, <1>5, ArgsFacts
  <2>3. /\ y \in Task /\ y.t = "callStmt" /\ y.func = func /\ y.next = next + 1
        /\ y.args = Tail(args) /\ y.n = n
    <3>1. y \in Task
      BY <1>2, <2>2, CallTasksAdvance
    <3>2. Task1 \in [t : {"callStmt"}, func : Nat, next : Nat, args : Seq(Expr), n : Nat]
      BY <1>2 DEF Task
    <3> QED
      BY <3>1, <3>2
  <2> HIDE DEF next, func, args, n, x, y
  <2>4. currentStack' = next /\ maxStack' = maxStack
    BY <2>1 DEF setStack
  <2> DEFINE e == func
  <2>5. e = After(y, currentStack') /\ e = After(Task1, currentStack) /\ e \in Nat
    BY <1>3, <1>4, <2>3 DEF After, Restores, Restored
  <2>6. Counts(y, currentStack') = next + 1 /\ IsCall(y)
    BY <2>3 DEF Counts, IsCall
  <2> HIDE DEF e
  <2>7. StackMoves(e)
    <3>1. maxStack <= maxStack' /\ After(Task1, currentStack) <= e
      BY <1>2, <2>4, <2>5
    <3>2. CodeGrows
      BY <2>1, CodeSame
    <3> QED
      BY <1>1, <1>2, <2>5, <3>1, <3>2, LargerMoves
  <2>8. Remembers(y, maxStack')
    <3>1. next + 1 + Len(Tail(args)) >= func + 1 + n
      BY <1>3, <2>2
    <3> QED
      BY <2>3, <3>1 DEF Remembers
  <2>9. AtLevel(y, currentStack', maxStack', Len(locals')) /\ FlatTask(y)
    BY <2>3 DEF AtLevel, Statements, DeclaringTask, FlatTask
  <2>10. next < Counts(y, currentStack') /\ Counts(Task1, currentStack) <= Counts(y, currentStack')
    BY <1>3, <1>4, <2>6
  <2>11. Task1.t \notin Within
    BY <1>2 DEF Within
  <2>12. Pair(x, next, y, e)
    BY <1>3, <2>1, <2>2, <2>3, <2>5, <2>6, <2>7, <2>8, <2>9, <2>10, <2>11 DEF Pair
  <2> QED
    BY <1>2, <2>12, FrameTwo
<1>6. CASE args = <<>>
  <2>1. /\ maxStack' = Larger(maxStack, next) /\ emit(<<encodeABC("CALL", func, n + 1, 1)>>)
        /\ setStack(func) /\ Then(<<>>)
    BY <1>6 DEF CallStmt
  <2>2. func + 1 + n <= next
    BY <1>3, <1>6
  <2> HIDE DEF next, func, args, n, y
  <2>3. maxStack <= maxStack' /\ next <= maxStack' /\ func + 1 + n <= maxStack'
        /\ next <= maxStack' + STACK_EXTRA
    BY <1>2, <1>3, <2>1, <2>2 DEF Larger, STACK_EXTRA
  <2>4. CodeGrows
    BY <1>3, <2>1, <2>3, CallGrows
  <2> DEFINE e == func
  <2>5. currentStack' = e /\ e = After(Task1, currentStack) /\ e \in Nat
    BY <1>3, <1>4, <2>1 DEF setStack
  <2> HIDE DEF e
  <2>6. StackMoves(e)
    <3>1. After(Task1, currentStack) <= e
      BY <2>5
    <3> QED
      BY <1>1, <1>2, <2>3, <2>4, <2>5, <3>1, LargerMoves
  <2>7. StackMoves(currentStack')
    BY <2>5, <2>6
  <2> QED
    BY <1>2, <1>4, <2>1, <2>3, <2>7, FrameNone
<1> QED
  BY <1>5, <1>6

LEMMA CallExprFrame ==
  ASSUME Types, Types', HereFrame, CallExpr
  PROVE  HereFrame'
<1> DEFINE next == currentStack + Task1.inc
           func == Task1.func
           args == Task1.args
           n == Task1.n
           y == [Task1 EXCEPT !.inc = 1, !.args = Tail(@)]
<1>1. At("callExpr") /\ UNCHANGED locals
  BY DEF CallExpr, SameRest
<1>2. /\ todo # <<>> /\ Task1 \in Task /\ Task1.t = "callExpr"
      /\ AtLevel(Task1, currentStack, maxStack, Len(locals))
      /\ currentStack \in Nat /\ maxStack \in Nat
  BY <1>1, RestFrame
<1>3. /\ func \in Nat /\ n \in Nat /\ args \in Seq(Expr) /\ Len(args) \in Nat
      /\ Task1.saved \in Nat /\ Task1.inc \in {0, 1} /\ Task1.inc \in Nat
      /\ currentStack + Task1.inc + Len(args) >= func + 1 + n
  BY <1>2, TaskFields DEF AtLevel
<1>4. /\ After(Task1, currentStack) = Task1.saved /\ Counts(Task1, currentStack) = next
      /\ next \in Nat /\ next + Len(args) >= func + 1 + n
  BY <1>2, <1>3 DEF After, Restores, Restored, Counts
<1>5. CASE args # <<>>
  <2> DEFINE x == Head(args)
  <2>1. /\ setStack(next) /\ UNCHANGED maxStack /\ UNCHANGED instructions
        /\ Then(<<ExprTask(x, next), y>>)
    BY <1>5 DEF CallExpr
  <2>2. x \in Expr /\ Tail(args) \in Seq(Expr) /\ Len(Tail(args)) + 1 = Len(args)
        /\ Len(Tail(args)) \in Nat
    BY <1>3, <1>5, ArgsFacts
  <2>3. /\ y \in Task /\ y.t = "callExpr" /\ y.func = func /\ y.inc = 1
        /\ y.args = Tail(args) /\ y.n = n /\ y.saved = Task1.saved
    <3>1. y \in Task
      BY <1>2, <2>2, CallTasksAdvance
    <3>2. Task1 \in [t : {"callExpr"}, func : Nat, inc : {0, 1}, args : Seq(Expr), n : Nat,
                     saved : Nat]
      BY <1>2 DEF Task
    <3> QED
      BY <3>1, <3>2
  <2> DEFINE e == Task1.saved
  <2>4. e = y.saved /\ e = After(Task1, currentStack) /\ e \in Nat
    BY <1>3, <1>4, <2>3
  <2> HIDE DEF next, func, args, n, x, y, e
  <2>5. currentStack' = next /\ maxStack' = maxStack
    BY <2>1 DEF setStack
  <2>6. e = After(y, currentStack')
    BY <2>3, <2>4 DEF After, Restores, Restored
  <2>7. Counts(y, currentStack') = next + 1 /\ IsCall(y)
    BY <2>3, <2>5 DEF Counts, IsCall
  <2>8. StackMoves(e)
    <3>1. maxStack <= maxStack' /\ After(Task1, currentStack) <= e
      BY <1>2, <2>4, <2>5
    <3>2. CodeGrows
      BY <2>1, CodeSame
    <3> QED
      BY <1>1, <1>2, <2>4, <3>1, <3>2, LargerMoves
  <2>9. Remembers(y, maxStack')
    BY <2>3 DEF Remembers
  <2>10. AtLevel(y, currentStack', maxStack', Len(locals')) /\ FlatTask(y)
    <3>1. next + 1 + Len(Tail(args)) >= func + 1 + n
      BY <1>3, <1>4, <2>2
    <3> QED
      BY <2>3, <2>5, <3>1 DEF AtLevel, Statements, DeclaringTask, FlatTask
  <2>11. next < Counts(y, currentStack') /\ Counts(Task1, currentStack) <= Counts(y, currentStack')
    BY <1>4, <2>7
  <2>12. y.t \in Within
    BY <2>3 DEF Within
  <2>13. Pair(x, next, y, e)
    BY <1>4, <2>1, <2>2, <2>3, <2>6, <2>7, <2>8, <2>9, <2>10, <2>11, <2>12 DEF Pair
  <2> QED
    BY <1>2, <2>13, FrameTwo
<1>6. CASE args = <<>>
  <2> DEFINE e == Task1.saved
  <2>1. /\ maxStack' = Larger(maxStack, next) /\ emit(<<encodeABC("CALL", func, n + 1, 2)>>)
        /\ setStack(e) /\ Then(<<>>)
    BY <1>6 DEF CallExpr
  <2>2. func + 1 + n <= next
    BY <1>3, <1>4, <1>6
  <2>3. e = After(Task1, currentStack) /\ e \in Nat
    BY <1>3, <1>4
  <2> HIDE DEF next, func, args, n, y, e
  <2>4. maxStack <= maxStack' /\ next <= maxStack' /\ func + 1 + n <= maxStack'
        /\ next <= maxStack' + STACK_EXTRA
    BY <1>2, <1>3, <1>4, <2>1, <2>2 DEF Larger, STACK_EXTRA
  <2>5. CodeGrows
    BY <1>3, <2>1, <2>4, CallGrows
  <2>6. currentStack' = e /\ After(Task1, currentStack) <= e
    BY <2>1, <2>3 DEF setStack
  <2>7. StackMoves(e)
    BY <1>1, <1>2, <2>3, <2>4, <2>5, <2>6, LargerMoves
  <2>8. StackMoves(currentStack')
    BY <2>6, <2>7
  <2> QED
    BY <1>2, <1>4, <2>1, <2>4, <2>8, FrameNone
<1> QED
  BY <1>5, <1>6

----------------------------------------------------------------------------
(* The actions: expressions.                                               *)

LEMMA ExprFrame ==
  ASSUME Types, HereFrame, NEW t \in {"expr", "binRight", "binOp"}, At(t)
  PROVE  /\ todo # <<>> /\ Task1.t = t /\ Task1 \in Task /\ Task1.dest \in Nat
         /\ currentStack \in Nat /\ maxStack \in Nat
         /\ After(Task1, currentStack) = currentStack /\ ~IsCall(Task1)
         /\ \A r : r <= Task1.dest => InFrame(r)
<1>1. /\ todo # <<>> /\ Task1.t = t /\ Task1 \in Task
      /\ currentStack \in Nat /\ maxStack \in Nat
  BY RestFrame
<1>2. Task1.dest \in Nat
  BY <1>1, TaskFields
<1> QED
  BY <1>1, <1>2 DEF After, Restores, IsCall, InFrame

(* An expression that is one load.                                         *)
LEMMA LoadFrame ==
  ASSUME Types, Types', HereFrame, NEW t \in {"expr", "binOp"}, At(t), CodeGrows,
         SameStack, UNCHANGED locals, Then(<<>>)
  PROVE  HereFrame'
<1>1. /\ todo # <<>> /\ After(Task1, currentStack) = currentStack /\ ~IsCall(Task1)
  BY ExprFrame
<1>2. currentStack' = After(Task1, currentStack)
  BY <1>1 DEF SameStack
<1>3. StackMoves(currentStack')
  BY <1>1, <1>2, SameMoves
<1> QED
  BY <1>1, <1>3, FrameNone

LEMMA LoadGrows ==
  ASSUME CodeType, NEW x \in Instruction, emit(<<x>>), NEW d, \A r \in Registers(x) : r <= d,
         \A r : r <= d => InFrame(r)
  PROVE  CodeGrows
  BY OneGrows

LEMMA LoadConstantGrows ==
  ASSUME CodeType, NEW d \in Nat, NEW k \in Nat, emit(loadConstant(d, k)),
         \A r : r <= d => InFrame(r)
  PROVE  CodeGrows
<1>1. CASE k < BxSize
  <2> DEFINE x == encodeABx("LOADK", d, k)
  <2>1. x \in Instruction /\ \A r \in Registers(x) : r <= d
    BY EncodeType, WideRegisters DEF Ops
  <2>2. emit(<<x>>)
    BY <1>1 DEF loadConstant
  <2> HIDE DEF x
  <2> QED
    BY <2>1, <2>2, LoadGrows
<1>2. CASE ~(k < BxSize)
  <2> DEFINE x == encodeABx("LOADKX", d, 0)
             y == encodeABx("EXTRAARG", 0, k)
             seg == <<x, y>>
  <2>1. /\ x \in Instruction /\ y \in Instruction /\ Registers(y) = {}
        /\ \A r \in Registers(x) : r <= d
    <3>1. x \in Instruction /\ y \in Instruction
      BY EncodeType DEF Ops
    <3>2. 0 \in Int
      OBVIOUS
    <3> QED
      BY <3>1, <3>2, WideRegisters, NoRegisters
  <2>2. emit(seg)
    BY <1>2 DEF loadConstant
  <2> HIDE DEF x, y
  <2>3. seg \in Seq(Instruction) /\ seg[1] = x /\ seg[2] = y
        /\ \A n \in 1..Len(seg) : n = 1 \/ n = 2
    BY <2>1
  <2> HIDE DEF seg
  <2>4. \A n \in 1..Len(seg) : \A r \in Registers(seg[n]) : InFrame(r)
    BY <2>1, <2>3
  <2> QED
    BY <2>2, <2>3, <2>4, EmitGrows
<1> QED
  BY <1>1, <1>2

LEMMA IntLiteralFrame ==
  ASSUME Types, Types', HereFrame, IntLiteral
  PROVE  HereFrame'
<1> DEFINE n == Task1.e.int
           k == intConstant(n)
           x == encodeAsBx("LOADI", Task1.dest, n)
<1>1. /\ At("expr") /\ Task1.e.kind = "int" /\ SameStack /\ UNCHANGED locals /\ Then(<<>>)
  BY DEF IntLiteral, AtExpr, SameRest
<1>2. \/ emit(<<x>>)
      \/ addConstant(k) /\ emit(loadConstant(Task1.dest, addConstantIndex(k)))
  BY DEF IntLiteral
<1>3. /\ Task1 \in Task /\ Task1.t = "expr" /\ Task1.dest \in Nat
      /\ \A r : r <= Task1.dest => InFrame(r)
  BY <1>1, ExprFrame
<1>4. n \in Int /\ k \in Constant
  <2>1. Task1.e \in Expr
    BY <1>3, TaskFields
  <2>2. n \in Int
    BY <1>1, <2>1, ExprFields
  <2> QED
    BY <2>2 DEF intConstant, Constant
<1>5. CodeGrows
  <2>1. CASE emit(<<x>>)
    <3>1. x \in Instruction /\ \A r \in Registers(x) : r <= Task1.dest
      BY <1>3, <1>4, EncodeType, WideRegisters DEF Ops
    <3> HIDE DEF x
    <3> QED
      BY <1>3, <2>1, <3>1, LoadGrows DEF Types
  <2>2. CASE addConstant(k) /\ emit(loadConstant(Task1.dest, addConstantIndex(k)))
    <3> HIDE DEF k
    <3>1. addConstantIndex(k) \in Nat
      BY <1>4, <2>2, AddConstantType DEF Types
    <3> QED
      BY <1>3, <2>2, <3>1, LoadConstantGrows DEF Types
  <2> QED
    BY <1>2, <2>1, <2>2
<1> QED
  BY <1>1, <1>5, LoadFrame

LEMMA FloatLiteralFrame ==
  ASSUME Types, Types', HereFrame, FloatLiteral
  PROVE  HereFrame'
<1> DEFINE n == Task1.e.num
           k == fltConstant(n, Task1.e.den)
           x == encodeAsBx("LOADF", Task1.dest, n)
<1>1. /\ At("expr") /\ Task1.e.kind = "flt" /\ SameStack /\ UNCHANGED locals /\ Then(<<>>)
  BY DEF FloatLiteral, AtExpr, SameRest
<1>2. \/ emit(<<x>>)
      \/ addConstant(k) /\ emit(loadConstant(Task1.dest, addConstantIndex(k)))
  BY DEF FloatLiteral
<1>3. /\ Task1 \in Task /\ Task1.t = "expr" /\ Task1.dest \in Nat
      /\ \A r : r <= Task1.dest => InFrame(r)
  BY <1>1, ExprFrame
<1>4. n \in Int /\ k \in Constant
  <2>1. Task1.e \in Expr
    BY <1>3, TaskFields
  <2>2. n \in Int /\ Task1.e.den \in Nat \ {0}
    BY <1>1, <2>1, ExprFields
  <2> QED
    BY <2>2 DEF fltConstant, Constant
<1>5. CodeGrows
  <2>1. CASE emit(<<x>>)
    <3>1. x \in Instruction /\ \A r \in Registers(x) : r <= Task1.dest
      BY <1>3, <1>4, EncodeType, WideRegisters DEF Ops
    <3> HIDE DEF x
    <3> QED
      BY <1>3, <2>1, <3>1, LoadGrows DEF Types
  <2>2. CASE addConstant(k) /\ emit(loadConstant(Task1.dest, addConstantIndex(k)))
    <3> HIDE DEF k
    <3>1. addConstantIndex(k) \in Nat
      BY <1>4, <2>2, AddConstantType DEF Types
    <3> QED
      BY <1>3, <2>2, <3>1, LoadConstantGrows DEF Types
  <2> QED
    BY <1>2, <2>1, <2>2
<1> QED
  BY <1>1, <1>5, LoadFrame

LEMMA BoolLiteralFrame ==
  ASSUME Types, Types', HereFrame, BoolLiteral
  PROVE  HereFrame'
<1> DEFINE op == IF Task1.e.bool THEN "LOADTRUE" ELSE "LOADFALSE"
           x == encodeABC(op, Task1.dest, 0, 0)
<1>1. /\ At("expr") /\ emit(<<x>>) /\ SameStack /\ UNCHANGED locals /\ Then(<<>>)
  BY DEF BoolLiteral, AtExpr, SameRest
<1>2. Task1.dest \in Nat /\ \A r : r <= Task1.dest => InFrame(r)
  BY <1>1, ExprFrame
<1>3. op \in {"LOADTRUE", "LOADFALSE"}
  OBVIOUS
<1> HIDE DEF op
<1>4. x \in Instruction /\ \A r \in Registers(x) : r <= Task1.dest
  BY <1>2, <1>3, EncodeType, RegisterBounds DEF Ops
<1> HIDE DEF x
<1>5. CodeGrows
  BY <1>1, <1>2, <1>4, LoadGrows DEF Types
<1> QED
  BY <1>1, <1>5, LoadFrame

LEMMA VariableFrame ==
  ASSUME Types, Types', Tables, HereFrame, Variable
  PROVE  HereFrame'
<1> DEFINE name == Task1.e.name
           k == addConstantIndex(strConstant(name))
           dest == Task1.dest
           v == localIndex[name]
           x == encodeABC("MOVE", dest, v, 0)
           y == encodeABC("GETTABUP", dest, 0, k)
<1>1. /\ At("expr") /\ Task1.e.kind = "var" /\ SameStack /\ UNCHANGED locals /\ Then(<<>>)
  BY DEF Variable, AtExpr, SameRest
<1>2. \/ isLocal(name) /\ emit(<<x>>)
      \/ addConstant(strConstant(name)) /\ emit(<<y>>)
  BY DEF Variable
<1>3. /\ todo # <<>> /\ Task1 \in Task /\ Task1.t = "expr" /\ dest \in Nat /\ maxStack \in Nat
      /\ \A r : r <= dest => InFrame(r)
  BY <1>1, ExprFrame
<1>4. name \in Names
  <2>1. Task1.e \in Expr
    BY <1>3, TaskFields
  <2> QED
    BY <1>1, <2>1, ExprFields
<1>5. maxStack' = maxStack
  BY <1>1 DEF SameStack
<1> HIDE DEF name, dest
<1>6. CodeGrows
  <2>1. CASE isLocal(name) /\ emit(<<x>>)
    <3>1. v \in Nat /\ v <= maxStack
      BY <1>3, <2>1, LocalRegister
    <3> HIDE DEF v
    <3>2. x \in Instruction /\ \A r \in Registers(x) : r \in Int /\ (r <= dest \/ r <= v \/ r <= 0)
      <4>1. x \in Instruction
        BY <1>3, <3>1, EncodeType DEF Ops
      <4> QED
        BY <1>3, <3>1, <4>1, RegisterBounds, RegistersAreNumbers
    <3> HIDE DEF x
    <3>3. \A r \in Registers(x) : InFrame(r)
      <4> TAKE r \in Registers(x)
      <4>1. r \in Int /\ (r <= dest \/ r <= maxStack + 1)
        BY <1>3, <3>1, <3>2
      <4>2. maxStack <= maxStack'
        BY <1>3, <1>5
      <4> QED
        BY <1>3, <4>1, <4>2, FitsLow
    <3> QED
      BY <2>1, <3>2, <3>3, OneGrows DEF Types
  <2>2. CASE addConstant(strConstant(name)) /\ emit(<<y>>)
    <3>1. k \in Nat
      BY <1>4, <2>2, StringIndex
    <3> HIDE DEF k
    <3>2. y \in Instruction /\ \A r \in Registers(y) : r <= dest
      BY <1>3, <3>1, EncodeType, RegisterBounds DEF Ops
    <3> HIDE DEF y
    <3> QED
      BY <1>3, <2>2, <3>2, LoadGrows DEF Types
  <2> QED
    BY <1>2, <2>1, <2>2
<1> QED
  BY <1>1, <1>6, LoadFrame

LEMMA BinaryFrame ==
  ASSUME Types, Types', HereFrame, Binary
  PROVE  HereFrame'
<1> DEFINE x == Task1.e.left
           dest == Task1.dest
           y == [t |-> "binRight", op |-> Task1.e.op, dest |-> dest, right |-> Task1.e.right]
<1>1. /\ At("expr") /\ Task1.e.kind = "bin" /\ Task1.e.op \in ArithOps
      /\ Then(<<ExprTask(x, dest), y>>) /\ OnlyTodo
  BY DEF Binary, AtExpr
<1>2. /\ todo # <<>> /\ Task1 \in Task /\ Task1.t = "expr" /\ dest \in Nat
      /\ After(Task1, currentStack) = currentStack /\ ~IsCall(Task1)
      /\ \A r : r <= dest => InFrame(r)
  BY <1>1, ExprFrame
<1>3. x \in Expr /\ Task1.e.right \in Expr
  <2>1. Task1.e \in Expr
    BY <1>2, TaskFields
  <2> QED
    BY <1>1, <2>1, ExprFields
<1>4. y \in Task /\ y.t = "binRight" /\ y.dest = dest
  BY <1>1, <1>2, <1>3, TaskTypes
<1> DEFINE e == currentStack
<1>5. StackMoves(e) /\ currentStack' = e
  BY <1>1, <1>2, QuietMoves
<1>6. e = After(y, currentStack')
  BY <1>4, <1>5 DEF After, Restores
<1> HIDE DEF x, dest, y, e
<1>7. InFrame(dest)
  BY <1>2
<1>8. /\ FlatTask(y) /\ Remembers(y, maxStack') /\ y.t \in Within
      /\ AtLevel(y, currentStack', maxStack', Len(locals'))
  BY <1>4 DEF FlatTask, Remembers, Within, AtLevel, Statements, DeclaringTask
<1>9. Pair(x, dest, y, e)
  BY <1>1, <1>2, <1>3, <1>4, <1>5, <1>6, <1>7, <1>8 DEF Pair
<1> QED
  BY <1>2, <1>9, FrameTwo

LEMMA BinaryRightFrame ==
  ASSUME Types, Types', HereFrame, BinaryRight
  PROVE  HereFrame'
<1> DEFINE x == Task1.right
           dest == Task1.dest
           right == IF currentStack = dest THEN currentStack + 1 ELSE currentStack
           y == [t |-> "binOp", op |-> Task1.op, dest |-> dest, right |-> right]
<1>1. /\ At("binRight") /\ Then(<<ExprTask(x, right), y>>) /\ bumpStack(right + 1)
      /\ UNCHANGED instructions /\ UNCHANGED locals
  BY DEF BinaryRight, SameRest
<1>2. /\ todo # <<>> /\ Task1 \in Task /\ Task1.t = "binRight" /\ dest \in Nat
      /\ After(Task1, currentStack) = currentStack /\ ~IsCall(Task1)
      /\ currentStack \in Nat /\ maxStack \in Nat
      /\ \A r : r <= dest => InFrame(r)
  BY <1>1, ExprFrame
<1>3. x \in Expr /\ Task1.op \in ArithOps
  BY <1>2, TaskFields
<1>4. right \in Nat /\ currentStack <= right
  BY <1>2
<1>5. y \in Task /\ y.t = "binOp" /\ y.dest = dest /\ y.right = right
  BY <1>2, <1>3, <1>4, TaskTypes
<1> HIDE DEF x, dest, right, y
<1> DEFINE e == right + 1
<1>6. /\ currentStack' = e /\ e \in Nat /\ maxStack' \in Nat /\ maxStack <= maxStack'
      /\ e <= maxStack'
  BY <1>1, <1>2, <1>4 DEF bumpStack, Larger
<1>7. e = After(y, currentStack')
  BY <1>5, <1>6 DEF After, Restores
<1>8. Remembers(y, maxStack') /\ right <= maxStack' + 1
  <2> DEFINE m == maxStack'
  <2>1. m \in Nat /\ right \in Nat /\ right + 1 <= m
    BY <1>4, <1>6
  <2> HIDE DEF m
  <2>2. right <= m + 1
    BY <2>1
  <2>3. y.right + 1 <= m
    BY <1>5, <2>1
  <2>4. Remembers(y, m)
    BY <1>5, <2>3 DEF Remembers
  <2> QED
    BY <2>2, <2>4 DEF m
<1>9. InFrame(right) /\ InFrame(dest)
  <2>1. dest <= dest /\ right \in Int
    BY <1>2, <1>4
  <2>2. InFrame(right)
    BY <1>8, <2>1, FitsNew
  <2> QED
    BY <1>2, <2>1, <2>2
<1>10. After(Task1, currentStack) <= e
  BY <1>2, <1>4
<1> HIDE DEF e
<1>11. StackMoves(e)
  <2>1. CodeGrows
    BY <1>1, CodeSame
  <2> QED
    BY <1>1, <1>2, <1>6, <1>10, <2>1, LargerMoves
<1>12. /\ FlatTask(y) /\ y.t \in Within /\ AtLevel(y, currentStack', maxStack', Len(locals'))
  BY <1>5 DEF FlatTask, Within, AtLevel, Statements, DeclaringTask
<1>13. Pair(x, right, y, e)
  BY <1>1, <1>2, <1>3, <1>4, <1>5, <1>7, <1>8, <1>9, <1>11, <1>12 DEF Pair
<1> QED
  BY <1>2, <1>13, FrameTwo

LEMMA BinaryOpFrame ==
  ASSUME Types, Types', HereFrame, BinaryOp
  PROVE  HereFrame'
<1> DEFINE dest == Task1.dest
           right == Task1.right
           x == encodeABC(Task1.op, dest, dest, right)
           y == encodeABC("MMBIN", dest, right, MM[Task1.op])
           seg == <<x, y>>
<1>1. At("binOp") /\ emit(seg) /\ SameStack /\ UNCHANGED locals /\ Then(<<>>)
  BY DEF BinaryOp, SameRest
<1>2. /\ todo # <<>> /\ Task1 \in Task /\ Task1.t = "binOp" /\ dest \in Nat /\ maxStack \in Nat
      /\ \A r : r <= dest => InFrame(r)
  BY <1>1, ExprFrame
<1>3. Remembers(Task1, maxStack)
  BY <1>1, RestFrame
<1>4. right \in Nat /\ right + 1 <= maxStack /\ Task1.op \in ArithOps
  BY <1>2, <1>3, TaskFields DEF Remembers
<1>5. Task1.op \in {"ADD", "SUB", "MUL", "DIV"} /\ MM[Task1.op] \in Nat
  BY <1>4 DEF ArithOps, MM
<1>6. maxStack' = maxStack
  BY <1>1 DEF SameStack
<1> HIDE DEF dest, right
<1>7. /\ x \in Instruction /\ y \in Instruction /\ Registers(y) = {}
      /\ \A r \in Registers(x) : r \in Int /\ (r <= dest \/ r <= right)
  <2>1. x \in Instruction /\ y \in Instruction
    BY <1>2, <1>4, <1>5, EncodeType DEF Ops
  <2> QED
    BY <1>2, <1>4, <1>5, <2>1, RegisterBounds, RegistersAreNumbers, NoRegisters
<1> HIDE DEF x, y
<1>8. \A r \in Registers(x) : InFrame(r)
  <2> TAKE r \in Registers(x)
  <2>1. r \in Int /\ (r <= dest \/ r <= maxStack + 1) /\ maxStack <= maxStack'
    BY <1>2, <1>4, <1>6, <1>7
  <2> QED
    BY <1>2, <2>1, FitsLow
<1>9. seg \in Seq(Instruction) /\ seg[1] = x /\ seg[2] = y
      /\ \A n \in 1..Len(seg) : n = 1 \/ n = 2
  BY <1>7
<1> HIDE DEF seg
<1>10. \A n \in 1..Len(seg) : \A r \in Registers(seg[n]) : InFrame(r)
  BY <1>7, <1>8, <1>9
<1>11. CodeGrows
  BY <1>1, <1>9, <1>10, EmitGrows DEF Types
<1> QED
  BY <1>1, <1>11, LoadFrame

LEMMA CallFrame ==
  ASSUME Types, Types', HereFrame, Call
  PROVE  HereFrame'
<1> DEFINE name == Task1.e.name
           args == Task1.e.args
           k == addConstantIndex(strConstant(name))
           dest == Task1.dest
           x == encodeABC("GETTABUP", dest, 0, k)
           y == [t |-> "callExpr", func |-> dest, inc |-> 0, args |-> args, n |-> Len(args),
                 saved |-> currentStack]
<1>1. /\ At("expr") /\ Task1.e.kind = "call" /\ addConstant(strConstant(name)) /\ emit(<<x>>)
      /\ Then(<<y>>) /\ setStack(dest + 1) /\ UNCHANGED maxStack /\ UNCHANGED locals
  BY DEF Call, AtExpr, SameRest
<1>2. /\ todo # <<>> /\ Task1 \in Task /\ Task1.t = "expr" /\ dest \in Nat
      /\ After(Task1, currentStack) = currentStack /\ ~IsCall(Task1)
      /\ currentStack \in Nat /\ maxStack \in Nat
      /\ \A r : r <= dest => InFrame(r)
  BY <1>1, ExprFrame
<1>3. name \in Names /\ args \in Seq(Expr) /\ Len(args) \in Nat
  <2>1. Task1.e \in Expr
    BY <1>2, TaskFields
  <2>2. name \in Names /\ args \in Seq(Expr)
    BY <1>1, <2>1, ExprFields
  <2> QED
    BY <2>2
<1> HIDE DEF name, args, dest
<1>4. k \in Nat
  BY <1>1, <1>3, StringIndex
<1> HIDE DEF k
<1>5. /\ y \in Task /\ y.t = "callExpr" /\ y.func = dest /\ y.inc = 0 /\ y.args = args
      /\ y.n = Len(args) /\ y.saved = currentStack
  BY <1>2, <1>3, TaskTypes
<1> HIDE DEF y
<1>6. x \in Instruction /\ \A r \in Registers(x) : r <= dest
  BY <1>2, <1>4, EncodeType, RegisterBounds DEF Ops
<1> HIDE DEF x
<1>7. CodeGrows
  BY <1>1, <1>2, <1>6, LoadGrows DEF Types
<1> DEFINE e == currentStack
<1>8. e = After(y, currentStack') /\ e = After(Task1, currentStack) /\ e \in Nat
  BY <1>2, <1>5 DEF After, Restores, Restored
<1>9. maxStack <= maxStack' /\ After(Task1, currentStack) <= e
  BY <1>1, <1>2
<1> HIDE DEF e
<1>10. StackMoves(e)
  BY <1>1, <1>2, <1>7, <1>8, <1>9, LargerMoves
<1>11. AtLevel(y, currentStack', maxStack', Len(locals'))
  <2>1. currentStack' = dest + 1 /\ dest + 1 + 0 + Len(args) >= dest + 1 + Len(args)
    BY <1>1, <1>2, <1>3 DEF setStack
  <2> QED
    BY <1>5, <2>1 DEF AtLevel, Statements, DeclaringTask
<1>12. FlatTask(y) /\ Remembers(y, maxStack') /\ y.t \in Within
  BY <1>5 DEF FlatTask, Remembers, Within
<1> QED
  BY <1>1, <1>2, <1>5, <1>8, <1>10, <1>11, <1>12, FrameOne

LEMMA CompareFrame ==
  ASSUME Types, Types', HereFrame, Compare
  PROVE  HereFrame'
<1> DEFINE dest == Task1.dest
           a == ExprTask(Task1.e.left, dest + 1)
           b == ExprTask(Task1.e.right, dest + 2)
           y == [t |-> "compare", op |-> Task1.e.op, dest |-> dest, saved |-> currentStack]
           N == <<a, b, y>>
           e == currentStack
<1>1. /\ At("expr") /\ Task1.e.kind = "bin" /\ Task1.e.op \in CompareOps
      /\ Then(N) /\ bumpStack(dest + 3) /\ UNCHANGED instructions /\ UNCHANGED locals
  BY DEF Compare, AtExpr, SameRest
<1>2. /\ todo # <<>> /\ Task1 \in Task /\ Task1.t = "expr" /\ dest \in Nat
      /\ After(Task1, currentStack) = currentStack /\ ~IsCall(Task1)
      /\ currentStack \in Nat /\ maxStack \in Nat
  BY <1>1, ExprFrame
<1>3. Task1.e.left \in Expr /\ Task1.e.right \in Expr
  <2>1. Task1.e \in Expr
    BY <1>2, TaskFields
  <2> QED
    BY <1>1, <2>1, ExprFields
<1>4. y \in Task /\ y.t = "compare" /\ y.dest = dest /\ y.saved = currentStack
  BY <1>1, <1>2, TaskTypes
<1>5. dest + 1 \in Nat /\ dest + 2 \in Nat
  BY <1>2
<1>6. /\ a \in Task /\ a.t = "expr" /\ a.dest = dest + 1 /\ ~Restores(a) /\ FlatTask(a)
      /\ Remembers(a, maxStack') /\ AtLevel(a, currentStack', maxStack', Len(locals'))
  BY <1>3, <1>5, ExprTaskFacts
<1>7. /\ b \in Task /\ b.t = "expr" /\ b.dest = dest + 2 /\ ~Restores(b) /\ FlatTask(b)
      /\ Remembers(b, maxStack') /\ AtLevel(b, currentStack', maxStack', Len(locals'))
  BY <1>3, <1>5, ExprTaskFacts
<1> HIDE DEF dest, a, b, y
<1>8. /\ N \in Seq(Task) /\ N # <<>> /\ Len(N) = 3 /\ N[1] = a /\ N[2] = b /\ N[3] = y
      /\ (\A n \in 1..Len(N) : n = 1 \/ n = 2 \/ n = 3) /\ (\A n \in 1..Len(N)-1 : n = 1 \/ n = 2)
  BY <1>4, <1>6, <1>7
<1> HIDE DEF N
<1>9. maxStack <= maxStack' /\ dest + 3 <= maxStack' /\ maxStack' \in Nat
  BY <1>1, <1>2 DEF bumpStack, Larger
<1>10. e = After(y, currentStack') /\ e = After(Task1, currentStack) /\ e \in Nat
  BY <1>2, <1>4 DEF After, Restores, Restored
<1>11. After(Task1, currentStack) <= e
  BY <1>2
<1> HIDE DEF e
<1>12. StackMoves(e)
  <2>1. CodeGrows
    BY <1>1, CodeSame
  <2> QED
    BY <1>1, <1>2, <1>9, <1>10, <1>11, <2>1, LargerMoves
<1>13. Straight(N) /\ e = End(N, currentStack')
  BY <1>6, <1>7, <1>8, <1>10 DEF Straight, End
<1>14. Ordered(N)
  <2>1. FlatTask(y)
    BY <1>4 DEF FlatTask
  <2>2. \A k \in 1..Len(N) : FlatTask(N[k])
    BY <1>6, <1>7, <1>8, <2>1
  <2>3. \A i \in 1..Len(N), j \in 1..Len(N) : i < j => i = 1 \/ i = 2
    BY <1>8
  <2>4. \A i \in 1..Len(N), j \in 1..Len(N) : i < j => N[i].t = "expr"
    BY <1>6, <1>7, <1>8, <2>3
  <2>5. ASSUME NEW i \in 1..Len(N), NEW j \in 1..Len(N), i < j
        PROVE  /\ N[i].t \notin Within => N[j].t \in Statements
               /\ N[i].t = "funcEnd" => N[j].t = "stmt"
               /\ N[i].t = "stmt" /\ Nests(N[j]) => Bare[N[i].s]
    <3>1. N[i].t = "expr"
      BY <2>4, <2>5
    <3> QED
      BY <3>1 DEF Within
  <2> HIDE DEF N
  <2> QED
    BY <2>2, <2>5 DEF Ordered
<1>15. NewTasks(Task1, N)
  BY <1>4, <1>6, <1>7, <1>8, <1>14 DEF NewTasks, Within
<1>16. InFrame(dest + 1) /\ InFrame(dest + 2)
  <2> DEFINE m == maxStack'
  <2>1. m \in Nat /\ dest \in Nat /\ dest + 3 <= m
    BY <1>2, <1>9
  <2> HIDE DEF m
  <2>2. /\ dest + 1 \in Int /\ dest + 1 <= m + 1
        /\ dest + 2 \in Int /\ dest + 2 <= m + 1
    BY <2>1
  <2> QED
    BY <2>2, FitsNew DEF m
<1>17. TaskPlaced(N, 1) /\ TaskPlaced(N, 2)
  BY <1>6, <1>7, <1>8, <1>16 DEF TaskPlaced
<1>18. TaskPlaced(N, 3)
  <2>1. Remembers(y, maxStack') /\ AtLevel(y, currentStack', maxStack', Len(locals'))
    BY <1>4, <1>9 DEF Remembers, AtLevel, Statements, DeclaringTask
  <2> QED
    BY <1>4, <1>8, <2>1 DEF TaskPlaced
<1>19. \A n \in 1..Len(N) : TaskPlaced(N, n)
  BY <1>8, <1>17, <1>18
<1>20. CallGoesOn(N)
  BY <1>2 DEF CallGoesOn
<1>21. /\ After(Task1, currentStack) <= e /\ (e <= maxStack' \/ e = After(Task1, currentStack))
       /\ maxStack <= maxStack' /\ LocalsKept(e)
  BY <1>12 DEF StackMoves
<1>22. \A r \in Named(instructions') : r \in Named(instructions) \/ InFrame(r)
  BY <1>12 DEF StackMoves, CodeGrows
<1> QED
  BY <1>1, <1>2, <1>8, <1>13, <1>15, <1>19, <1>20, <1>21, <1>22, FrameKept

LEMMA CompareOpFrame ==
  ASSUME Types, Types', HereFrame, CompareOp
  PROVE  HereFrame'
<1> DEFINE dest == Task1.dest
           l == dest + 1
           m == dest + 2
           x1 == encodeABC("LOADFALSE", dest, 0, 0)
           x2 == CompareInstruction(Task1.op, l, m)
           x3 == encodeIsJ(1)
           x4 == encodeABC("LOADTRUE", dest, 0, 0)
           seg == <<x1, x2, x3, x4>>
           e == Task1.saved
<1>1. /\ At("compare") /\ emit(seg) /\ setStack(e) /\ Then(<<>>)
      /\ UNCHANGED maxStack /\ UNCHANGED locals
  BY DEF CompareOp, SameRest
<1>2. /\ todo # <<>> /\ Task1 \in Task /\ Task1.t = "compare" /\ Remembers(Task1, maxStack)
      /\ maxStack \in Nat /\ currentStack \in Nat
  BY <1>1, RestFrame
<1>3. dest \in Nat /\ e \in Nat /\ Task1.op \in CompareOps /\ dest + 3 <= maxStack
  BY <1>2, TaskFields DEF Remembers
<1>4. l \in Nat /\ m \in Nat /\ l <= maxStack /\ m <= maxStack /\ dest <= maxStack
  BY <1>2, <1>3
<1>5. e = After(Task1, currentStack) /\ ~IsCall(Task1)
  BY <1>2 DEF After, Restores, Restored, IsCall
<1>6. currentStack' = e /\ maxStack' = maxStack
  BY <1>1 DEF setStack
<1> HIDE DEF dest, l, m, e
<1>7. /\ x1 \in Instruction /\ x3 \in Instruction /\ x4 \in Instruction
      /\ Registers(x3) = {}
      /\ \A r \in Registers(x1) : r <= dest
      /\ \A q \in Registers(x4) : q <= dest
  BY <1>3, EncodeType, RegisterBounds, NoRegisters DEF Ops
<1>8. x2 \in Instruction /\ \A r \in Registers(x2) : r <= l \/ r <= m
  <2>1. \E op \in {"EQ", "LT", "LE"}, k \in {0, 1} :
          x2 = encodeABCK(op, l, m, 0, k) \/ x2 = encodeABCK(op, m, l, 0, k)
    BY <1>3 DEF CompareInstruction, CompareOps
  <2>2. x2 \in Instruction
    BY <1>3, <1>4, CompareType
  <2> HIDE DEF x2
  <2> QED
    BY <1>4, <2>1, <2>2, RegisterBounds
<1> HIDE DEF x1, x2, x3, x4
<1>9. /\ seg \in Seq(Instruction) /\ seg[1] = x1 /\ seg[2] = x2 /\ seg[3] = x3 /\ seg[4] = x4
      /\ \A n \in 1..Len(seg) : n = 1 \/ n = 2 \/ n = 3 \/ n = 4
  BY <1>7, <1>8
<1> HIDE DEF seg
<1>10. \A x \in Instruction : \A r \in Registers(x) : r \in Int
  BY RegistersAreNumbers
<1>11. \A r \in Int : r <= maxStack => InFrame(r)
  <2> TAKE r \in Int
  <2>1. r <= maxStack => r <= maxStack + 1
    BY <1>2
  <2>2. maxStack <= maxStack'
    BY <1>2, <1>6
  <2> QED
    BY <2>1, <2>2, FitsLow
<1>12. \A r \in Int : r <= dest \/ r <= l \/ r <= m => r <= maxStack
  BY <1>2, <1>3, <1>4
<1>13. /\ \A r \in Registers(x1) : InFrame(r)
       /\ \A r \in Registers(x2) : InFrame(r)
       /\ \A r \in Registers(x3) : InFrame(r)
       /\ \A r \in Registers(x4) : InFrame(r)
  BY <1>7, <1>8, <1>10, <1>11, <1>12
<1>14. \A n \in 1..Len(seg) : \A r \in Registers(seg[n]) : InFrame(r)
  BY <1>9, <1>13
<1>15. CodeGrows
  BY <1>1, <1>9, <1>14, EmitGrows DEF Types
<1>16. maxStack <= maxStack' /\ After(Task1, currentStack) <= e
  BY <1>2, <1>3, <1>5, <1>6
<1>17. StackMoves(e)
  BY <1>1, <1>2, <1>3, <1>5, <1>15, <1>16, LargerMoves
<1> QED
  BY <1>1, <1>2, <1>5, <1>6, <1>17, FrameNone

----------------------------------------------------------------------------
(* The actions: declarations.                                              *)

(* A declaration is the last thing a generator does before the statements  *)
(* that follow it, so nothing in todo takes its local's register back.     *)
LEMMA DeclaredAlone ==
  ASSUME Types, HereFrame, todo # <<>>, DeclaringTask(Task1)
  PROVE  \A k \in 1..Len(todo) : ~Restores(todo[k])
<1>1. todo \in Seq(Task) /\ Len(todo) \in Nat \ {0} /\ Task1 = todo[1] /\ 1 \in 1..Len(todo)
      /\ Task1 \in Task
  BY TailFacts, HeadType DEF Types, TodoType, Task1
<1>2. Ordered(todo)
  BY DEF HereFrame, FrameOK
<1>3. Task1.t \in {"stmt", "funcEnd"} /\ (Task1.t = "stmt" => ~Bare[Task1.s])
  <2>1. CASE Task1.t = "stmt"
    <3>1. Task1.s \in Stmt
      BY <1>1, <2>1, TaskFields
    <3> QED
      BY <2>1, <3>1, FlatFacts DEF DeclaringTask
  <2> QED
    BY <2>1 DEF DeclaringTask
<1>4. ASSUME NEW k \in 1..Len(todo) PROVE ~Restores(todo[k])
  <2>1. CASE k = 1
    BY <1>1, <1>3, <2>1 DEF Restores
  <2>2. CASE 1 < k
    <3>1. /\ todo[1].t \notin Within => todo[k].t \in Statements
          /\ todo[1].t = "funcEnd" => todo[k].t = "stmt"
          /\ todo[1].t = "stmt" /\ Nests(todo[k]) => Bare[todo[1].s]
      BY <1>1, <1>2, <2>2 DEF Ordered
    <3>2. todo[k].t = "stmt"
      BY <1>1, <1>3, <3>1 DEF Nests, Statements, Within
    <3> QED
      BY <3>2 DEF Restores
  <2> QED
    BY <1>1, <2>1, <2>2
<1> QED
  BY <1>4

LEMMA DeclareMoves ==
  ASSUME Types, Types', Tables, HereFrame, todo # <<>>, DeclaringTask(Task1),
         NEW x \in Names, addLocal(x), CodeGrows
  PROVE  /\ StackMoves(currentStack') /\ maxStack <= maxStack' /\ maxStack' \in Nat
         /\ addLocalIndex(x) \in Nat /\ addLocalIndex(x) <= maxStack'
<1>1. /\ currentStack \in Nat /\ maxStack \in Nat /\ Len(locals) \in Nat
      /\ Len(locals) <= maxStack /\ AtLevel(Task1, currentStack, maxStack, Len(locals))
      /\ locals \in Seq(Names)
  BY HeadFrame DEF Types, LocalsType
<1>2. ~Restores(Task1) /\ \A k \in 1..Len(todo) : ~Restores(todo[k])
  BY DeclaredAlone DEF DeclaringTask, Restores
<1>3. /\ Task1.t \in Statements \cup {"funcEnd"}
      /\ currentStack <= maxStack /\ Len(locals) <= currentStack
  BY <1>1 DEF DeclaringTask, AtLevel, Statements
<1>4. After(Task1, currentStack) = currentStack
  BY <1>2 DEF After
<1>5. CASE isLocal(x)
  <2>1. UNCHANGED <<locals, currentStack, maxStack>> /\ addLocalIndex(x) = localIndex[x]
    BY <1>5 DEF addLocal, addLocalIndex
  <2>2. localIndex[x] \in Nat /\ localIndex[x] <= maxStack
    BY <1>5, LocalRegister
  <2>3. StackMoves(currentStack')
    BY <1>1, <1>3, <1>4, <2>1, SameMoves DEF SameStack
  <2> QED
    BY <1>1, <2>1, <2>2, <2>3
<1>6. CASE ~isLocal(x)
  <2>1. /\ locals' = Append(locals, x) /\ currentStack' = currentStack + 1
        /\ maxStack' = Larger(maxStack, currentStack + 1) /\ addLocalIndex(x) = Len(locals)
    BY <1>6 DEF addLocal, addLocalIndex
  <2>2. Len(locals') = Len(locals) + 1
    BY <1>1, <2>1
  <2>3. /\ maxStack <= maxStack' /\ maxStack' \in Nat /\ currentStack' <= maxStack'
        /\ currentStack + 1 <= maxStack'
    BY <1>1, <2>1 DEF Larger
  <2>4. Len(locals') <= maxStack' /\ Len(locals) <= maxStack'
    BY <1>1, <1>3, <2>2, <2>3
  <2>5. LocalsKept(currentStack')
    BY <1>1, <1>2, <2>1, <2>2, <2>4 DEF LocalsKept
  <2>6. After(Task1, currentStack) <= currentStack'
    BY <1>1, <1>4, <2>1
  <2> QED
    BY <1>1, <2>1, <2>3, <2>4, <2>5, <2>6 DEF StackMoves
<1> QED
  BY <1>5, <1>6

LEMMA VarDeclFrame ==
  ASSUME Types, Types', Tables, HereFrame, VarDecl
  PROVE  HereFrame'
<1> DEFINE name == Task1.s.name
           x == Task1.s.expr
           r == addLocalIndex(name)
<1>1. AtStmt("decl") /\ addLocal(name) /\ Then(<<ExprTask(x, r)>>) /\ UNCHANGED instructions
  BY DEF VarDecl
<1>2. /\ todo # <<>> /\ Task1.t = "stmt" /\ Task1.s \in Stmt /\ Task1.s.kind = "decl"
      /\ ~IsCall(Task1)
  BY <1>1, StmtFrame
<1>3. x \in Expr /\ name \in Names
  BY <1>2, StmtFields
<1>4. DeclaringTask(Task1)
  BY <1>2 DEF DeclaringTask, Declares
<1>5. CodeGrows
  BY <1>1, CodeSame
<1> HIDE DEF name, x
<1>6. StackMoves(currentStack') /\ maxStack' \in Nat /\ r \in Nat /\ r <= maxStack'
  BY <1>1, <1>2, <1>3, <1>4, <1>5, DeclareMoves
<1> HIDE DEF r
<1>7. InFrame(r)
  <2> DEFINE m == maxStack'
  <2>1. m \in Nat /\ r \in Nat /\ r <= m
    BY <1>6
  <2> HIDE DEF m
  <2>2. r \in Int /\ r <= m + 1
    BY <2>1
  <2> QED
    BY <2>2, FitsNew DEF m
<1> QED
  BY <1>1, <1>2, <1>3, <1>6, <1>7, FrameExpr

LEMMA FuncEndFrame ==
  ASSUME Types, Types', Tables, HereFrame, FuncEnd
  PROVE  HereFrame'
<1> DEFINE name == Task1.name
           reg == addLocalIndex(name)
           k == addConstantIndex(strConstant(name))
           x == encodeABx("CLOSURE", reg, Len(functions))
           y == encodeABC("SETTABUP", 0, k, reg)
           seg == <<x, y>>
<1>1. /\ At("funcEnd") /\ addLocal(name) /\ addConstant(strConstant(name)) /\ emit(seg)
      /\ Then(<<>>)
  BY DEF FuncEnd
<1>2. /\ todo # <<>> /\ Task1.t = "funcEnd" /\ Task1 \in Task
  BY <1>1, RestFrame
<1>3. name \in Names /\ ~IsCall(Task1) /\ DeclaringTask(Task1)
  BY <1>2, TaskFields DEF IsCall, DeclaringTask
<1>4. k \in Nat
  BY <1>1, <1>3, StringIndex
<1>5. Len(functions) \in Nat
  BY DEF Types, CodeType
<1> HIDE DEF name, k
<1>6. reg \in Nat /\ reg <= maxStack' /\ maxStack' \in Nat
  <2>1. CASE isLocal(name)
    <3>1. reg = localIndex[name] /\ maxStack' = maxStack
      BY <1>1, <2>1 DEF addLocalIndex, addLocal
    <3>2. maxStack' \in Nat
      BY DEF Types, StackType
    <3> QED
      BY <1>2, <2>1, <3>1, <3>2, LocalRegister
  <2>2. CASE ~isLocal(name)
    <3>1. reg = Len(locals) /\ maxStack' = Larger(maxStack, currentStack + 1)
      BY <1>1, <2>2 DEF addLocalIndex, addLocal
    <3>2. Len(locals) \in Nat /\ Len(locals) <= maxStack /\ maxStack \in Nat /\ currentStack \in Nat
      BY <1>1, RestFrame
    <3> QED
      BY <3>1, <3>2 DEF Larger
  <2> QED
    BY <2>1, <2>2
<1> HIDE DEF reg
<1>7. /\ x \in Instruction /\ y \in Instruction
      /\ \A r \in Registers(x) : r \in Int /\ r <= reg
      /\ \A r \in Registers(y) : r \in Int /\ r <= reg
  <2>1. x \in Instruction /\ y \in Instruction
    BY <1>4, <1>5, <1>6, EncodeType DEF Ops
  <2>2. \A r \in Registers(x) : r <= reg
    BY <1>5, <1>6, WideRegisters
  <2>3. \A r \in Registers(y) : r <= reg
    BY <1>4, <1>6, RegisterBounds
  <2> QED
    BY <2>1, <2>2, <2>3, RegistersAreNumbers
<1> HIDE DEF x, y
<1>8. seg \in Seq(Instruction) /\ seg[1] = x /\ seg[2] = y
      /\ \A n \in 1..Len(seg) : n = 1 \/ n = 2
  BY <1>7
<1> HIDE DEF seg
<1>9. \A r \in Int : r <= reg => InFrame(r)
  <2> TAKE r \in Int
  <2> DEFINE m == maxStack'
  <2>1. m \in Nat /\ reg \in Nat /\ reg <= m
    BY <1>6
  <2> HIDE DEF m
  <2>2. r <= reg => r <= m + 1
    BY <2>1
  <2> QED
    BY <2>2, FitsNew DEF m
<1>10. \A n \in 1..Len(seg) : \A r \in Registers(seg[n]) : InFrame(r)
  BY <1>7, <1>8, <1>9
<1>11. CodeGrows
  BY <1>1, <1>8, <1>10, EmitGrows DEF Types
<1>12. StackMoves(currentStack')
  BY <1>1, <1>2, <1>3, <1>11, DeclareMoves
<1> QED
  BY <1>1, <1>2, <1>3, <1>12, FrameNone

----------------------------------------------------------------------------
(* The steps that begin and end a generator.                               *)

(* A list that differs only in tasks that neither restore currentStack nor *)
(* are calls has the same levels and the same cover.                       *)
LEMMA SameLevels ==
  ASSUME NEW T, NEW U, Len(T) \in Nat, Len(U) = Len(T),
         \A j \in 1..Len(T) : U[j] = T[j] \/ ~( \/ Restores(U[j]) \/ Restores(T[j])
                                                \/ IsCall(U[j]) \/ IsCall(T[j])),
         NEW c, NEW max, NEW k \in 0..Len(T)
  PROVE  /\ \A v : Level(U, c, k, v) <=> Level(T, c, k, v)
         /\ \A r : Covered(T, c, max, k, r) => Covered(U, c, max, k, r)
<1>1. ASSUME NEW m \in 0..Len(T), NEW v PROVE Level(U, c, m, v) <=> Level(T, c, m, v)
  <2>1. \A j \in 1..m-1 : /\ Restores(U[j]) <=> Restores(T[j])
                          /\ Restores(T[j]) => U[j] = T[j]
    <3> TAKE j \in 1..m-1
    <3>1. j \in 1..Len(T)
      OBVIOUS
    <3> QED
      BY <3>1
  <2>2. \A j \in 1..m-1, i \in Int : i \in j+1..m-1 => i \in 1..m-1
    OBVIOUS
  <2> DEFINE Last(S, j) == /\ Restores(S[j]) /\ v = Restored(S[j])
                           /\ \A i \in j+1..m-1 : ~Restores(S[i])
  <2>3. ASSUME NEW j \in 1..m-1 PROVE Last(U, j) <=> Last(T, j)
    <3>1. \A i \in j+1..m-1 : Restores(U[i]) <=> Restores(T[i])
      BY <2>1, <2>2
    <3>2. Restores(T[j]) => Restored(U[j]) = Restored(T[j])
      BY <2>1
    <3>3. Restores(U[j]) <=> Restores(T[j])
      BY <2>1
    <3> QED
      BY <3>1, <3>2, <3>3, Zenon
  <2>4. (\A j \in 1..m-1 : ~Restores(U[j])) <=> (\A j \in 1..m-1 : ~Restores(T[j]))
    BY <2>1
  <2>5. /\ Level(U, c, m, v) <=> \/ v = c /\ \A j \in 1..m-1 : ~Restores(U[j])
                                \/ \E j \in 1..m-1 : Last(U, j)
        /\ Level(T, c, m, v) <=> \/ v = c /\ \A j \in 1..m-1 : ~Restores(T[j])
                                \/ \E j \in 1..m-1 : Last(T, j)
    BY Zenon DEF Level
  <2> HIDE DEF Last
  <2> QED
    BY <2>3, <2>4, <2>5, Zenon
<1>2. ASSUME NEW r, Covered(T, c, max, k, r) PROVE Covered(U, c, max, k, r)
  <2>1. ASSUME NEW j \in k+1..Len(T), IsCall(T[j]), NEW v \in Nat, Level(T, c, j, v),
               r < Counts(T[j], v)
        PROVE  Covered(U, c, max, k, r)
    <3>1. j \in 1..Len(T) /\ j \in 0..Len(T) /\ j \in k+1..Len(U)
      OBVIOUS
    <3>2. U[j] = T[j] /\ Level(U, c, j, v)
      BY <1>1, <2>1, <3>1
    <3> QED
      BY <2>1, <3>1, <3>2 DEF Covered
  <2> QED
    BY <1>2, <2>1 DEF Covered
<1> QED
  BY <1>1, <1>2

(* The statements of a function, before any of them is compiled.           *)
LEMMA StartFrame ==
  ASSUME NEW ss \in Seq(Stmt), AllOf(Flat, ss), NEW code, \A r : r \notin Named(code),
         NEW m \in Nat
  PROVE  FrameOK(code, generateStatements(ss), m, m, m)
<1> DEFINE T == generateStatements(ss)
<1>1. /\ T \in Seq(Task) /\ Len(T) = Len(ss) /\ Len(T) \in Nat
      /\ \A n \in 1..Len(T) : T[n] = StmtTask(ss[n]) /\ ss[n] \in Stmt /\ Flat[ss[n]]
  BY StatementsType DEF generateStatements, AllOf
<1> HIDE DEF T
<1>2. ASSUME NEW n \in 1..Len(T)
      PROVE  T[n].t = "stmt" /\ Flat[T[n].s] /\ FlatTask(T[n]) /\ ~Restores(T[n])
  <2>1. T[n].t = "stmt" /\ T[n].s = ss[n]
    <3>1. T[n] = StmtTask(ss[n])
      BY <1>1
    <3> QED
      BY <3>1 DEF StmtTask
  <2>2. Flat[T[n].s]
    BY <1>1, <2>1
  <2>3. FlatTask(T[n])
    BY <2>1, <2>2, Zenon DEF FlatTask
  <2>4. ~Restores(T[n])
    BY <2>1 DEF Restores
  <2> QED
    BY <2>1, <2>2, <2>3, <2>4
<1>3. ASSUME NEW n \in 1..Len(T), NEW v, Level(T, m, n, v) PROVE v = m
  <2>1. Straight(T)
    BY <1>1, <1>2 DEF Straight
  <2> QED
    BY <1>1, <1>3, <2>1, StraightLevels
<1>4. Ordered(T)
  BY <1>2 DEF Ordered, Statements, Nests
<1>5. \A n \in 1..Len(T) : Remembers(T[n], m) /\ T[n].t \notin {"expr", "binRight", "binOp"}
  BY <1>2 DEF Remembers
<1>6. ASSUME NEW n \in 1..Len(T), NEW v \in Nat, Level(T, m, n, v) PROVE AtLevel(T[n], v, m, m)
  <2>1. v = m /\ m <= m
    BY <1>3, <1>6
  <2> QED
    BY <1>2, <2>1 DEF AtLevel
<1>7. m <= m
  OBVIOUS
<1> QED
  BY <1>4, <1>5, <1>6, <1>7 DEF FrameOK, T

(* A declared function waits for its name's register.                      *)
LEMMA SuspendedFrame ==
  ASSUME Types, HereFrame, FuncDecl, NEW x \in Task, x.t = "funcEnd"
  PROVE  FrameOK(instructions, <<x>> \o Tail(todo), currentStack, maxStack, Len(locals))
<1> DEFINE T == todo
           U == <<x>> \o Tail(todo)
           c == currentStack
           m == maxStack
           l == Len(locals)
<1>1. AtStmt("func")
  BY DEF FuncDecl
<1>2. /\ T # <<>> /\ Task1.t = "stmt" /\ Task1.s \in Stmt /\ Declares(Task1.s)
      /\ c \in Nat /\ m \in Nat /\ c <= m /\ l <= c /\ l <= m
  BY <1>1, StmtFrame DEF Declares
<1>3. /\ T \in Seq(Task) /\ Len(T) \in Nat \ {0} /\ Task1 = T[1] /\ Len(U) = Len(T)
      /\ U[1] = x /\ \A k \in 2..Len(T) : U[k] = T[k]
  <2>1. /\ T \in Seq(Task) /\ Len(T) \in Nat \ {0} /\ Task1 = T[1]
        /\ Tail(T) \in Seq(Task) /\ Len(Tail(T)) = Len(T) - 1
        /\ \A k \in 1..Len(T)-1 : Tail(T)[k] = T[k + 1]
    BY <1>2, TailFacts DEF Types, TodoType, Task1
  <2> DEFINE R == Tail(T)
  <2>2. /\ Len(U) = 1 + Len(R) /\ U[1] = x
        /\ \A k \in 2..Len(R)+1 : U[k] = R[k - 1]
    BY <2>1
  <2> HIDE DEF U
  <2>3. \A k \in 2..Len(T) : U[k] = T[k]
    <3> TAKE k \in 2..Len(T)
    <3>1. k - 1 \in 1..Len(T)-1 /\ k \in 2..Len(R)+1 /\ (k - 1) + 1 = k
      BY <2>1
    <3> QED
      BY <2>1, <2>2, <3>1
  <2> QED
    BY <2>1, <2>2, <2>3
<1>4. FrameOK(instructions, T, c, m, l)
  BY DEF HereFrame
<1> HIDE DEF T, U, c, m, l
<1>5. \A k \in 1..Len(T) : k = 1 \/ k \in 2..Len(T)
  BY <1>3
<1>6. ~Restores(T[1]) /\ ~IsCall(T[1]) /\ ~Restores(x) /\ ~IsCall(x)
  BY <1>2, <1>3 DEF Restores, IsCall
<1>7. \A k \in 0..Len(T) : /\ \A v : Level(U, c, k, v) <=> Level(T, c, k, v)
                           /\ \A r : Covered(T, c, m, k, r) => Covered(U, c, m, k, r)
  <2>1. \A j \in 1..Len(T) : U[j] = T[j] \/ ~( \/ Restores(U[j]) \/ Restores(T[j])
                                               \/ IsCall(U[j]) \/ IsCall(T[j]))
    BY <1>3, <1>5, <1>6
  <2> QED
    BY <1>3, <2>1, SameLevels
<1>8. Ordered(T)
  BY <1>4 DEF FrameOK
<1>9. Ordered(U)
  <2>1. FlatTask(x)
    BY DEF FlatTask
  <2>2. \A k \in 1..Len(U) : FlatTask(U[k])
    BY <1>3, <1>5, <1>8, <2>1 DEF Ordered
  <2>3. ASSUME NEW j \in 2..Len(T) PROVE T[j].t = "stmt"
    <3>1. 1 \in 1..Len(T) /\ j \in 1..Len(T) /\ 1 < j
      BY <1>3
    <3>2. T[j].t \in Statements /\ (Nests(T[j]) => Bare[Task1.s])
      BY <1>2, <1>3, <1>8, <3>1 DEF Ordered, Within
    <3>3. ~Bare[Task1.s]
      BY <1>2, FlatFacts
    <3> QED
      BY <3>2, <3>3 DEF Statements, Nests
  <2>4. ASSUME NEW i \in 1..Len(U), NEW j \in 1..Len(U), i < j
        PROVE  /\ U[i].t \notin Within => U[j].t \in Statements
               /\ U[i].t = "funcEnd" => U[j].t = "stmt"
               /\ U[i].t = "stmt" /\ Nests(U[j]) => Bare[U[i].s]
    <3>1. j \in 2..Len(T)
      BY <1>3, <2>4
    <3>2. U[j].t = "stmt"
      BY <1>3, <2>3, <3>1
    <3> QED
      BY <3>2 DEF Statements, Nests
  <2> QED
    BY <2>2, <2>4 DEF Ordered
<1>10. \A k \in 1..Len(U) : Remembers(U[k], m)
  <2>1. Remembers(x, m)
    BY DEF Remembers
  <2>2. \A k \in 1..Len(T) : Remembers(T[k], m)
    BY <1>4 DEF FrameOK
  <2> QED
    BY <1>3, <1>5, <2>1, <2>2
<1>11. ASSUME NEW k \in 1..Len(U), NEW v \in Nat, Level(U, c, k, v)
       PROVE  AtLevel(U[k], v, m, l)
  <2>1. k \in 1..Len(T) /\ k \in 0..Len(T) /\ Level(T, c, k, v)
    BY <1>3, <1>7, <1>11
  <2>2. CASE k \in 2..Len(T)
    <3>1. AtLevel(T[k], v, m, l)
      BY <1>4, <2>1 DEF FrameOK
    <3> QED
      BY <1>3, <2>2, <3>1
  <2>3. CASE k = 1
    <3>1. v = c
      BY <2>1, <2>3 DEF Level
    <3>2. AtLevel(x, c, m, l)
      BY <1>2 DEF AtLevel
    <3> QED
      BY <1>3, <2>3, <3>1, <3>2
  <2> QED
    BY <1>5, <2>1, <2>2, <2>3
<1>12. ASSUME NEW k \in 1..Len(U), U[k].t \in {"expr", "binRight", "binOp"}
       PROVE  Covered(U, c, m, k, U[k].dest)
  <2>1. k \in 2..Len(T) /\ k \in 1..Len(T) /\ k \in 0..Len(T)
    BY <1>3, <1>5, <1>12
  <2>2. U[k] = T[k]
    BY <1>3, <2>1
  <2>3. Covered(T, c, m, k, T[k].dest)
    BY <1>4, <1>12, <2>1, <2>2 DEF FrameOK
  <2> QED
    BY <1>7, <2>1, <2>2, <2>3
<1>13. \A r \in Named(instructions) : Covered(U, c, m, 0, r)
  <2>1. \A r \in Named(instructions) : Covered(T, c, m, 0, r)
    BY <1>4 DEF FrameOK
  <2>2. 0 \in 0..Len(T)
    BY <1>3
  <2> QED
    BY <1>7, <2>1, <2>2
<1>14. l <= m
  BY <1>2
<1>15. FrameOK(instructions, U, c, m, l)
  BY <1>9, <1>10, <1>11, <1>12, <1>13, <1>14 DEF FrameOK
<1> QED
  BY <1>15 DEF U, c, m, l

----------------------------------------------------------------------------
(* Every step keeps the frames.                                            *)

LEMMA WorkingFrame ==
  ASSUME Types, Types', Tables, HereFrame, Working
  PROVE  HereFrame'
<1>1. ASSUME \/ VarDecl \/ AssignLocal \/ AssignGlobal \/ SetGlobal \/ If \/ IfTest
             \/ IfThenEnd \/ IfElseEnd
      PROVE  HereFrame'
  BY <1>1, VarDeclFrame, AssignLocalFrame, AssignGlobalFrame, SetGlobalFrame, IfFrame,
     IfTestFrame, IfThenEndFrame, EndsFrame
<1>2. ASSUME \/ While \/ WhileTest \/ WhileEnd \/ Return \/ EmitReturn \/ Block
             \/ ExprStmtCall \/ CallStmt \/ ExprStmtOther \/ FuncEnd
      PROVE  HereFrame'
  BY <1>2, WhileFrame, WhileTestFrame, EndsFrame, ReturnFrame, EmitReturnFrame, BlockFrame,
     ExprStmtCallFrame, CallStmtFrame, ExprStmtOtherFrame, FuncEndFrame
<1>3. ASSUME \/ IntLiteral \/ FloatLiteral \/ BoolLiteral \/ Variable \/ Binary
             \/ BinaryRight \/ BinaryOp \/ Call \/ CallExpr \/ Compare \/ CompareOp
      PROVE  HereFrame'
  BY <1>3, IntLiteralFrame, FloatLiteralFrame, BoolLiteralFrame, VariableFrame, BinaryFrame,
     BinaryRightFrame, BinaryOpFrame, CallFrame, CallExprFrame, CompareFrame, CompareOpFrame
<1> QED
  BY <1>1, <1>2, <1>3 DEF Working

LEMMA ProgramStays ==
  ASSUME Next
  PROVE  program' = program
<1>1. ASSUME \/ VarDecl \/ AssignLocal \/ AssignGlobal \/ If \/ While \/ Return \/ Block
             \/ ExprStmtOther \/ ExprStmtCall \/ SetGlobal \/ IfTest \/ IfThenEnd
      PROVE  program' = program
  BY <1>1 DEF VarDecl, AssignLocal, AssignGlobal, If, While, Return, Block, ExprStmtOther,
              ExprStmtCall, SetGlobal, IfTest, IfThenEnd, OnlyTodo, SameRest
<1>2. ASSUME \/ IntLiteral \/ FloatLiteral \/ BoolLiteral \/ Variable \/ Binary \/ Call
             \/ Compare \/ IfElseEnd \/ WhileTest \/ WhileEnd
      PROVE  program' = program
  BY <1>2 DEF IntLiteral, FloatLiteral, BoolLiteral, Variable, Binary, Call, Compare,
              IfElseEnd, WhileTest, WhileEnd, OnlyTodo, SameRest
<1>3. ASSUME \/ EmitReturn \/ CallStmt \/ BinaryRight \/ BinaryOp \/ CallExpr \/ CompareOp
             \/ FuncDecl \/ EndFunction \/ FuncEnd \/ EndMain
      PROVE  program' = program
  BY <1>3 DEF EmitReturn, CallStmt, BinaryRight, BinaryOp, CallExpr, CompareOp, FuncDecl,
              EndFunction, FuncEnd, EndMain, SameRest
<1> QED
  BY <1>1, <1>2, <1>3 DEF Next

OuterFrame == \A k \in 1..Len(outer) : GeneratorFrame(outer[k])
ProtosFrame == \A p \in 1..Len(protos) : FrameFits(protos[p])

LEMMA FuncDeclFrame ==
  ASSUME Types, Types', HereFrame, OuterFrame, FuncDecl
  PROVE  HereFrame' /\ OuterFrame'
<1> DEFINE x == [t |-> "funcEnd", name |-> Task1.s.name, params |-> Len(Task1.s.params)]
           U == <<x>> \o Tail(todo)
           g == [instructions |-> instructions, constants |-> constants,
                 constantIndex |-> constantIndex, locals |-> locals, localIndex |-> localIndex,
                 currentStack |-> currentStack, maxStack |-> maxStack,
                 functions |-> functions, todo |-> U]
           n == Len(Task1.s.params)
           ss == Task1.s.body
<1>1. /\ AtStmt("func") /\ outer' = Append(outer, g)
      /\ instructions' = <<>> /\ Len(locals') = n /\ currentStack' = n /\ maxStack' = n
      /\ todo' = generateStatements(ss)
  BY DEF FuncDecl
<1>2. /\ Task1.s \in Stmt /\ Task1.s.kind = "func" /\ Flat[Task1.s]
  BY <1>1, StmtFrame
<1>3. /\ Task1.s.name \in Names /\ Task1.s.params \in Seq(Names) /\ ss \in Seq(Stmt)
      /\ n \in Nat
  <2>1. Task1.s.name \in Names /\ Task1.s.params \in Seq(Names) /\ ss \in Seq(Stmt)
    BY <1>2, StmtFields
  <2> QED
    BY <2>1
<1>4. AllOf(Flat, ss)
  BY <1>2, FlatFacts
<1>5. x \in Task /\ x.t = "funcEnd"
  BY <1>3, TaskTypes
<1> HIDE DEF x, n, ss
<1>6. FrameOK(instructions, U, currentStack, maxStack, Len(locals))
  BY <1>5, SuspendedFrame
<1>7. GeneratorFrame(g)
  BY <1>6 DEF GeneratorFrame
<1> HIDE DEF g, U
<1>8. OuterFrame'
  <2> DEFINE S == {outer[k] : k \in 1..Len(outer)} \cup {g}
  <2>1. outer \in Seq(S) /\ g \in S
    <3>1. outer \in Seq({outer[k] : k \in 1..Len(outer)})
      BY DEF Types, OuterType, IsSequence
    <3> QED
      BY <3>1
  <2> HIDE DEF S
  <2>2. /\ Len(outer') = Len(outer) + 1 /\ Len(outer) \in Nat
        /\ \A k \in 1..Len(outer) : outer'[k] = outer[k]
        /\ outer'[Len(outer) + 1] = g
    BY <1>1, <2>1, AppendFacts
  <2>3. \A k \in 1..Len(outer') : k \in 1..Len(outer) \/ k = Len(outer) + 1
    BY <2>2
  <2> QED
    BY <1>7, <2>2, <2>3 DEF OuterFrame
<1>9. HereFrame'
  <2>1. \A r : r \notin Named(<<>>)
    BY DEF Named
  <2>2. FrameOK(<<>>, generateStatements(ss), n, n, n)
    BY <1>3, <1>4, <2>1, StartFrame
  <2> QED
    BY <1>1, <2>2 DEF HereFrame
<1> QED
  BY <1>8, <1>9

LEMMA FinishedFrame ==
  ASSUME Types, HereFrame, ProtosFrame, todo = <<>>, protos' = Append(protos, Finished)
  PROVE  ProtosFrame'
<1> DEFINE x == encodeABC("RETURN0", 0, 0, 0)
           code == instructions \o <<x>>
<1>1. x \in Instruction /\ Registers(x) = {}
  BY EncodeType, NoRegisters DEF Ops
<1>2. instructions \in Seq(Instruction) /\ maxStack \in Nat /\ protos \in Seq(Proto)
  BY DEF Types, CodeType, StackType, ProtosType
<1> HIDE DEF x
<1>3. code \in Seq(Instruction) /\ Append(instructions, x) = code
  BY <1>1, <1>2
<1>4. \A r \in Named(code) : r \in Named(instructions)
  <2>1. <<x>> \in Seq(Instruction) /\ \A n \in 1..Len(<<x>>) : <<x>>[n] = x
    BY <1>1
  <2> QED
    BY <1>1, <1>2, <2>1, NamedConcat
<1> HIDE DEF code
<1>5. \A r \in Named(instructions) : r < maxStack + STACK_EXTRA
  <2>1. \A r \in Named(instructions) : Covered(todo, currentStack, maxStack, 0, r)
    BY DEF HereFrame, FrameOK
  <2>2. Len(todo) = 0
    OBVIOUS
  <2> QED
    BY <2>1, <2>2 DEF Covered
<1>6. \A n \in 1..Len(code) : \A r \in Registers(code[n]) : r < maxStack + STACK_EXTRA
  <2>1. \A n \in 1..Len(code) : \A r \in Registers(code[n]) : r \in Named(code)
    BY <1>3, NamedFacts
  <2> QED
    BY <1>4, <1>5, <2>1
<1>7. Finished.code = code /\ Finished.maxStack = maxStack
  BY <1>3 DEF Finished, x
<1>8. FrameFits(Finished)
  BY <1>6, <1>7 DEF FrameFits
<1>9. /\ Len(protos') = Len(protos) + 1 /\ Len(protos) \in Nat
      /\ \A p \in 1..Len(protos) : protos'[p] = protos[p]
      /\ protos'[Len(protos) + 1] = Finished
  BY <1>2
<1>10. \A p \in 1..Len(protos') : p \in 1..Len(protos) \/ p = Len(protos) + 1
  BY <1>9
<1> QED
  BY <1>8, <1>9, <1>10 DEF ProtosFrame

LEMMA EndFunctionFrame ==
  ASSUME Types, HereFrame, OuterFrame, ProtosFrame, EndFunction
  PROVE  HereFrame' /\ OuterFrame' /\ ProtosFrame'
<1>1. /\ outer # <<>> /\ todo = <<>> /\ protos' = Append(protos, Finished)
      /\ outer' = SubSeq(outer, 1, Len(outer) - 1)
      /\ instructions' = outer[Len(outer)].instructions /\ todo' = outer[Len(outer)].todo
      /\ currentStack' = outer[Len(outer)].currentStack
      /\ maxStack' = outer[Len(outer)].maxStack /\ locals' = outer[Len(outer)].locals
  BY DEF EndFunction, isMain
<1> DEFINE S == {outer[n] : n \in 1..Len(outer)}
<1>2. outer \in Seq(S)
  BY DEF Types, OuterType, IsSequence
<1> HIDE DEF S
<1>3. /\ Len(outer') = Len(outer) - 1
      /\ \A n \in 1..Len(outer) - 1 : outer'[n] = outer[n]
      /\ Len(outer) \in Nat /\ Len(outer) \in 1..Len(outer)
  <2>1. /\ Len(outer') = Len(outer) - 1 /\ Len(outer) \in Nat
        /\ \A n \in 1..Len(outer) - 1 : outer'[n] = outer[n]
    BY <1>1, <1>2, FrontFacts
  <2>2. Len(outer) # 0
    BY <1>1, <1>2
  <2> QED
    BY <2>1, <2>2
<1>4. OuterFrame'
  BY <1>3 DEF OuterFrame
<1>5. GeneratorFrame(outer[Len(outer)])
  BY <1>3 DEF OuterFrame
<1>6. HereFrame'
  BY <1>1, <1>5 DEF GeneratorFrame, HereFrame
<1> QED
  BY <1>1, <1>4, <1>6, FinishedFrame

LEMMA InitFrames == Init => Frames
<1> SUFFICES ASSUME Init, AllOf(Flat, program) PROVE HereFrame /\ OuterFrame /\ ProtosFrame
  BY DEF Frames, OuterFrame, ProtosFrame
<1> DEFINE x == encodeABx("VARARGPREP", 0, 0)
<1>1. /\ program \in Seq(Stmt) /\ instructions = <<x>> /\ Len(locals) = 0
      /\ currentStack = 0 /\ maxStack = 0 /\ todo = generateStatements(program)
      /\ Len(outer) = 0 /\ Len(protos) = 0
  BY ProgramsAssumption DEF Init
<1>2. Registers(x) = {}
  BY NoRegisters
<1> HIDE DEF x
<1>3. \A r : r \notin Named(<<x>>)
  BY <1>2 DEF Named
<1>4. HereFrame
  BY <1>1, <1>3, StartFrame DEF HereFrame
<1> QED
  BY <1>1, <1>4 DEF OuterFrame, ProtosFrame

LEMMA NextFrames == Types /\ Types' /\ Tables /\ Frames /\ [Next]_vars => Frames'
<1> SUFFICES ASSUME Types, Types', Tables, Frames, [Next]_vars, AllOf(Flat, program')
             PROVE  HereFrame' /\ OuterFrame' /\ ProtosFrame'
  BY DEF Frames, OuterFrame, ProtosFrame
<1>1. program' = program
  BY ProgramStays DEF vars
<1>2. HereFrame /\ OuterFrame /\ ProtosFrame
  <2>1. AllOf(Flat, program)
    BY <1>1, Zenon
  <2> QED
    BY <2>1, Zenon DEF Frames, OuterFrame, ProtosFrame
<1>3. CASE Working
  <2>1. HereFrame'
    BY <1>2, <1>3, WorkingFrame
  <2>2. outer' = outer /\ protos' = protos
    BY <1>3, WorkingLeaves
  <2> QED
    BY <1>2, <2>1, <2>2 DEF OuterFrame, ProtosFrame
<1>4. CASE FuncDecl
  <2>1. protos' = protos
    BY <1>4 DEF FuncDecl
  <2> QED
    BY <1>2, <1>4, <2>1, FuncDeclFrame DEF ProtosFrame
<1>5. CASE EndFunction
  BY <1>2, <1>5, EndFunctionFrame
<1>6. CASE EndMain
  <2>1. /\ todo = <<>> /\ protos' = Append(protos, Finished) /\ outer' = outer
        /\ UNCHANGED <<instructions, todo, currentStack, maxStack, locals>>
    BY <1>6 DEF EndMain, genVars
  <2>2. ProtosFrame'
    BY <1>2, <2>1, FinishedFrame
  <2> QED
    BY <1>2, <2>1, <2>2 DEF HereFrame, OuterFrame
<1>7. CASE UNCHANGED vars
  BY <1>2, <1>7 DEF HereFrame, OuterFrame, ProtosFrame, vars, genVars
<1> QED
  BY <1>3, <1>4, <1>5, <1>6, <1>7 DEF Next, Working

LEMMA FramesAlways == Spec => []Frames
<1>1. Spec => []Types
  BY InitTypes, NextTypes, PTL DEF Spec
<1>2. Spec => []Tables
  BY <1>1, InitTables, NextTables, PTL DEF Spec
<1> QED
  BY <1>1, <1>2, InitFrames, NextFrames, PTL DEF Spec

(* The registers a function's code names are in the frame it asks for      *)
(* (maxStack and the two that writeFunction adds), for every program that  *)
(* declares nothing inside an if, while or block.                          *)
THEOREM FramesFitAlways == Spec => []FramesFit
<1>1. Frames => FramesFit
  BY Zenon DEF Frames, FramesFit
<1> QED
  BY <1>1, FramesAlways, PTL

(* What a chunk's functions promise the writer and the machine: they are a *)
(* tree, and each fits its frame.                                          *)
THEOREM PrototypesAreSound == Spec => []PrototypesSound
<1>1. Tree /\ FramesFit => PrototypesSound
  BY DEF PrototypesSound
<1> QED
  BY <1>1, FunctionsAreTree, FramesFitAlways, PTL
============================================================================
