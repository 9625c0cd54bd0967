------------------------------ MODULE Pipeline ------------------------------
(***************************************************************************)
(* CangjieLua.compileToBytecode and executeBytecode (src/src/              *)
(* cangjie_lua.cj) from the AST on: the generator runs to its end, the     *)
(* chunk is loaded and called, and the value on top of the stack is the    *)
(* program's.                                                              *)
(***************************************************************************)
EXTENDS CodeGen

CONSTANTS LongNames, MAXSTACK, Fuel

VARIABLES stack, top, frames, env, outputs, status

VM == INSTANCE LuaVM WITH Globals <- Names
Source == INSTANCE SourceSemantics WITH SourceGlobals <- Names

vmVars == <<stack, top, frames, env, outputs, status>>
pipelineVars == <<vars, vmVars>>

PipelineInit == Init /\ VM!VMInit

Generate == Next /\ UNCHANGED vmVars

(* executeBytecode: the chunk exists.                                      *)
Execute == /\ outcome = "chunk"
           /\ VM!VMNext
           /\ UNCHANGED <<program, genVars, outer, outcome>>

(* extractRuntimeValue and lua_close.                                      *)
Done == status \in {"ok", "error"} \/ outcome = "exception"
Stopped == Done /\ UNCHANGED pipelineVars

PipelineNext == Generate \/ Execute \/ Stopped
PipelineSpec == PipelineInit /\ [][PipelineNext]_pipelineVars
                /\ WF_pipelineVars(Generate \/ Execute)

Result == VM!RuntimeValue(stack[top - 1])

----------------------------------------------------------------------------
(* The compiled program prints what the source program says, in the same   *)
(* order, fails exactly when it does, and returns the same value.          *)
RunsAsSource ==
  status \in {"ok", "error"} =>
    LET m == Source!Meaning(program, Fuel)
    IN /\ outputs = m.outputs
       /\ status = m.status
       /\ status = "ok" => Result = m.result
=============================================================================
