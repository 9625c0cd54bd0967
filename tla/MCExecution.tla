---------------------------- MODULE MCExecution ----------------------------
(***************************************************************************)
(* Compiled programs on the machine, and the heap that the machine keeps:  *)
(* two parts that have nothing in common but the machine, checked in one   *)
(* run, one or the other.  Heaps have the main thread and three more       *)
(* objects, of the kinds named.                                            *)
(***************************************************************************)
EXTENDS MCPipeline, LuaHeap

CONSTANTS o1, o2, o3

Of(x, y, z) == Main :> "thread" @@ o1 :> x @@ o2 :> y @@ o3 :> z
MCKinds == {Of("table", "leaf", "upval"), Of("udata", "closure", "upval"),
            Of("weakk", "leaf", "upval"), Of("weakv", "str", "upval"),
            Of("allweak", "leaf", "upval"), Of("leaf", "str", "str"),
            Of("thread", "closure", "upval")}
MCModes(kind) == IF kind[o1] \in {"table", "weakk"} THEN {"inc", "genminor"} ELSE {"inc"}
MCFinalizable(kind) == {o \in Obj : kind[o] \in {"leaf", "udata", "weakv"}}
MCMayFail(kind) == kind[o1] = "table"
MCSameText(s, t) == TRUE

(* What moves is the heap if there is no program, else the program.        *)
NoProgram == <<BlockS(<<>>)>>
Executed == TamePrograms \cup {NoProgram}
ExecutedStmt == AnyStmt \cup StmtsOf({NoProgram})
MCExecuted == Executed
MCExecutedStmt == ExecutedStmt
MCInit ==
  /\ PipelineInit /\ HeapInit
  /\ program # NoProgram => g.kind = Of("leaf", "str", "str")
StateClosed == closing /\ agenda = <<>> /\ UNCHANGED heapVars
MCNext ==
  \/ program = NoProgram /\ (HeapNext \/ StateClosed) /\ UNCHANGED pipelineVars
  \/ program # NoProgram /\ PipelineNext /\ UNCHANGED heapVars
MCSpec == MCInit /\ [][MCNext]_<<pipelineVars, heapVars>>
=============================================================================
