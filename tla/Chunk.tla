------------------------------- MODULE Chunk -------------------------------
(***************************************************************************)
(* The chunk between the two: when the generator is done, writeFunction    *)
(* and writeSubFunction (src/src/codegen/code_generator.cj) turn the tree  *)
(* of functions into bytes, and lundump.c turns them into prototypes.      *)
(*                                                                         *)
(* The writer's pending calls are in writing, the next one first; loading  *)
(* has the functions the reader is in, the innermost last.  A byte is      *)
(* tagged with what it is part of: a number, or the j-th byte of an        *)
(* instruction, of a float, of a name or of the header, none of which      *)
(* anyone looks into.                                                      *)
(***************************************************************************)
EXTENDS CodeGen

CONSTANT NameLength   \* name -> bytes
ASSUME NameLengthAssumption == NameLength \in [Names -> Nat \ {0}]

VARIABLES
  phase,    \* "generating", "writing", "loading", "loaded", "exception" or "error"
  buffer,
  writing,
  offset,   \* bytes read
  loading,
  loaded    \* the main function, once it is read

chunkVars == <<phase, buffer, writing, offset, loading, loaded>>
Nothing == <<>>

ChunkInit ==
  /\ Init
  /\ phase = "generating" /\ buffer = <<>> /\ writing = <<>>
  /\ offset = 0 /\ loading = <<>> /\ loaded = Nothing

GenerateChunk == Next /\ UNCHANGED chunkVars

----------------------------------------------------------------------------
(* Encodings: codegen/chunk_writer.cj, and lundump.c on the reading side.  *)

Byte(n) == <<"byte", n>>
Part(what, x, size) == [j \in 1..size |-> <<what, x, j>>]

(* Groups of 7 bits, the highest first; all but the last with bit 8 set.   *)
Groups[n \in Nat] == IF n < 128 THEN <<n>> ELSE Append(Groups[n \div 128], n % 128)
VarInt(n) ==
  LET g == Groups[n]
  IN [j \in 1..Len(g) |-> Byte(IF j < Len(g) THEN g[j] + 128 ELSE g[j])]

(* A slip: zigzag without the - 1.                                         *)
codedEven(n) == IF n >= 0 THEN 2 * n ELSE -(2 * n)

(* writeLuaInteger and loadInteger; ~x is -x - 1.                          *)
coded(n) == IF n >= 0 THEN 2 * n ELSE -(2 * n) - 1
decoded(x) == IF x % 2 = 1 THEN -(x \div 2) - 1 ELSE x \div 2

(* A slip: the position of the last byte, not of the next one.             *)
PaddingOfLast(at, align) ==
  LET padding == align - ((at - 1) % align) IN IF padding < align THEN padding ELSE 0

(* writeAlign and loadAlign.                                               *)
Padding(at, align) ==
  LET padding == align - (at % align) IN IF padding < align THEN padding ELSE 0
Zeros(n) == [j \in 1..n |-> Byte(0)]

Header == Part("header", "lua", 40)

----------------------------------------------------------------------------
(* Writing.                                                                *)

SameReader == UNCHANGED <<vars, offset, loading, loaded>>
Write(bytes) == buffer' = buffer \o bytes
Writing(t) == phase = "writing" /\ writing # <<>> /\ Head(writing).t = t
ThenWrite(tasks) == writing' = tasks \o Tail(writing)
Throw == phase' = "exception" /\ UNCHANGED <<buffer, writing>>

FunctionTask(p, n, vararg) == [t |-> "function", p |-> p, numParams |-> n, vararg |-> vararg]

(* generate's header, and the call of writeFunction.                       *)
WriteHeader ==
  /\ phase = "generating" /\ outcome # "generating"
  /\ phase' = "writing"
  /\ Write(Append(Header, Byte(1)))
  /\ writing' = <<FunctionTask(Len(protos), 0, 1)>>
  /\ SameReader

(* UInt8(n).                                                               *)
FitsByte(n) == n < ArgSize

FunctionHead(task) ==
  LET f == protos[task.p]
  IN VarInt(0) \o VarInt(0)
       \o <<Byte(task.numParams), Byte(task.vararg), Byte(f.maxStack + STACK_EXTRA)>>
       \o VarInt(Len(f.code))
CodeBytes(code) ==
  [j \in 1..4 * Len(code) |-> <<"code", code[(j + 3) \div 4], 1 + ((j + 3) % 4)>>]
(* A function up to its constants, from the given offset.                  *)
FunctionBytes(task, at) ==
  LET f == protos[task.p]
      head == FunctionHead(task)
  IN head \o Zeros(Padding(at + Len(head), 4)) \o CodeBytes(f.code) \o VarInt(Len(f.constants))

WriteFunction ==
  /\ Writing("function")
  /\ LET task == Head(writing)
     IN IF ~FitsByte(task.numParams) \/ ~FitsByte(protos[task.p].maxStack + STACK_EXTRA) THEN Throw
        ELSE /\ Write(FunctionBytes(task, Len(buffer)))
             /\ ThenWrite(<<[t |-> "constants", p |-> task.p, left |-> protos[task.p].constants]>>)
             /\ UNCHANGED phase
  /\ SameReader

ConstantBytes(k) ==
  CASE k.kind = "int" -> <<Byte(3)>> \o VarInt(coded(k.int))
    [] k.kind = "flt" -> <<Byte(19)>> \o Part("flt", <<k.num, k.den>>, 8)
    [] k.kind = "str" -> <<Byte(4)>> \o VarInt(NameLength[k.str] + 1)
                           \o Part("chr", k.str, NameLength[k.str]) \o <<Byte(0)>>

WriteConstant ==
  /\ Writing("constants") /\ Head(writing).left # <<>>
  /\ LET k == Head(Head(writing).left)
     IN IF k.kind = "int" /\ ~WritesInt(k.int) THEN Throw
        ELSE /\ Write(ConstantBytes(k))
             /\ ThenWrite(<<[Head(writing) EXCEPT !.left = Tail(@)]>>)
             /\ UNCHANGED phase
  /\ SameReader

(* The upvalue _ENV, main's own or that of the enclosing function; and the *)
(* number of functions, which are next.                                    *)
UpvalueBytes(p) ==
  VarInt(1) \o <<Byte(IF p = Len(protos) THEN 1 ELSE 0), Byte(0), Byte(0)>>
    \o VarInt(Len(protos[p].functions))
ChildTask(p, j) ==
  LET c == protos[p].functions[j] IN FunctionTask(c.proto, c.numParams, 0)
FunctionTasks(p) == [j \in 1..Len(protos[p].functions) |-> ChildTask(p, j)]

WriteUpvalues ==
  /\ Writing("constants") /\ Head(writing).left = <<>>
  /\ LET p == Head(writing).p
     IN /\ Write(UpvalueBytes(p))
        /\ ThenWrite(Append(FunctionTasks(p), [t |-> "end", p |-> p]))
  /\ UNCHANGED phase /\ SameReader

(* A slip: one count of debug information too many.                        *)
NoDebugFive == Zeros(5)

(* lineinfo, abslineinfo, locvars and upvalue names: none.                 *)
NoDebug == VarInt(0) \o VarInt(0) \o VarInt(0) \o VarInt(0)
NoSource == VarInt(0) \o VarInt(0)

WriteEnd ==
  /\ Writing("end")
  /\ Write(NoSource \o NoDebug)
  /\ ThenWrite(<<>>)
  /\ UNCHANGED phase /\ SameReader

HandOver ==
  /\ phase = "writing" /\ writing = <<>>
  /\ phase' = "loading"
  /\ UNCHANGED <<buffer, writing>> /\ SameReader

----------------------------------------------------------------------------
(* Reading.  A read gives [ok, val, at]: ok is FALSE after the end of the  *)
(* chunk, or at a byte that is no number where a number is read.           *)

loadByte(o) ==
  IF o < Len(buffer) /\ buffer[o + 1][1] = "byte"
  THEN [ok |-> TRUE, val |-> buffer[o + 1][2], at |-> o + 1]
  ELSE [ok |-> FALSE, val |-> 0, at |-> o]
(* At o, after the groups whose value is x.                                *)
loadVarint[xo \in Nat \X Nat] ==
  LET x == xo[1]
      o == xo[2]
      b == loadByte(o)
  IN IF ~b.ok THEN b
     ELSE IF b.val < 128 THEN [ok |-> TRUE, val |-> 128 * x + b.val, at |-> b.at]
     ELSE loadVarint[<<128 * x + b.val - 128, o + 1>>]
loadInt(o) == loadVarint[<<0, o>>]
Ok(reads) == \A r \in reads : r.ok

(* loadBlock of n things of the given size, each with its own bytes.       *)
IsPart(what, o, size) ==
  /\ o + size <= Len(buffer)
  /\ buffer[o + 1][1] = what
  /\ SubSeq(buffer, o + 1, o + size) = Part(what, buffer[o + 1][2], size)
IsZero(o, n) == o + n <= Len(buffer) /\ SubSeq(buffer, o + 1, o + n) = Zeros(n)

SameWriter == UNCHANGED <<vars, buffer, writing>>
Fail == phase' = "error" /\ UNCHANGED <<offset, loading, loaded>>
Innermost == loading[Len(loading)]
Loading(stage) == phase = "loading" /\ loading # <<>> /\ Innermost.stage = stage
WithInnermost(f) == loading' = [loading EXCEPT ![Len(loading)] = f]
NewFunction == [stage |-> "function"]

checkHeader ==
  /\ phase = "loading" /\ offset = 0
  /\ IF Len(buffer) > 40 /\ SubSeq(buffer, 1, 40) = Header /\ buffer[41] = Byte(1)
     THEN offset' = 41 /\ loading' = <<NewFunction>> /\ UNCHANGED <<phase, loaded>>
     ELSE Fail
  /\ SameWriter

(* The head of loadFunction, loadCode, and the count of loadConstants.     *)
LoadFunction ==
  /\ Loading("function")
  /\ LET linedefined == loadInt(offset)
         lastlinedefined == loadInt(linedefined.at)
         numparams == loadByte(lastlinedefined.at)
         flag == loadByte(numparams.at)
         maxstacksize == loadByte(flag.at)
         sizecode == loadInt(maxstacksize.at)
         n == sizecode.val
         start == sizecode.at + Padding(sizecode.at, 4)
         sizek == loadInt(start + 4 * n)
     IN IF /\ Ok({linedefined, lastlinedefined, numparams, flag, maxstacksize, sizecode})
           /\ start <= Len(buffer)
           /\ \A j \in 0..n-1 : IsPart("code", start + 4 * j, 4)
           /\ sizek.ok
        THEN /\ WithInnermost(
                  [stage |-> "constants", left |-> sizek.val,
                   f |-> [numParams |-> numparams.val, vararg |-> flag.val,
                          maxStack |-> maxstacksize.val,
                          code |-> [j \in 1..n |-> buffer[start + 4 * j - 3][2]],
                          constants |-> <<>>, functions |-> <<>>]])
             /\ offset' = sizek.at
             /\ UNCHANGED <<phase, loaded>>
        ELSE Fail
  /\ SameWriter

(* One round of loadConstants, which goes on with constant k at at.        *)
LoadConstant ==
  /\ Loading("constants") /\ Innermost.left > 0
  /\ LET tag == loadByte(offset)
         num == loadInt(offset + 1)
         Accept(k, at) ==
           /\ WithInnermost([Innermost EXCEPT !.left = @ - 1,
                                              !.f.constants = Append(@, k)])
           /\ offset' = at
           /\ UNCHANGED <<phase, loaded>>
         isInt == tag.ok /\ tag.val = 3 /\ num.ok
         isFlt == tag.ok /\ tag.val = 19 /\ IsPart("flt", offset + 1, 8)
         isStr == /\ tag.ok /\ tag.val = 4 /\ num.ok
                  /\ num.val > 1 /\ IsPart("chr", num.at, num.val - 1)
                  /\ IsZero(num.at + num.val - 1, 1)
     IN \/ isInt /\ Accept(intConstant(decoded(num.val)), num.at)
        \/ /\ isFlt
           /\ LET x == buffer[offset + 2][2] IN Accept(fltConstant(x[1], x[2]), offset + 9)
        \/ isStr /\ Accept(strConstant(buffer[num.at + 1][2]), num.at + num.val)
        \/ ~(isInt \/ isFlt \/ isStr) /\ Fail
  /\ SameWriter

(* loadUpvalues, and the count of loadProtos.  luaU_undump refuses a main   *)
(* function without one upvalue; here no function may have another number. *)
LoadUpvalues ==
  /\ Loading("constants") /\ Innermost.left = 0
  /\ LET sizeupvalues == loadInt(offset)
         instack == loadByte(sizeupvalues.at)
         idx == loadByte(instack.at)
         kind == loadByte(idx.at)
         sizep == loadInt(kind.at)
     IN IF Ok({sizeupvalues, instack, idx, kind, sizep}) /\ sizeupvalues.val = 1
        THEN /\ WithInnermost([Innermost EXCEPT !.stage = "protos", !.left = sizep.val])
             /\ offset' = sizep.at
             /\ UNCHANGED <<phase, loaded>>
        ELSE Fail
  /\ SameWriter

LoadProto ==
  /\ Loading("protos") /\ Innermost.left > 0
  /\ loading' = Append(loading, NewFunction)
  /\ UNCHANGED <<phase, offset, loaded>> /\ SameWriter

(* The source, which is no string, and loadDebug, which has nothing.       *)
LoadEnd ==
  /\ Loading("protos") /\ Innermost.left = 0
  /\ LET size == loadInt(offset)
         idx == loadInt(size.at)
         sizelineinfo == loadInt(idx.at)
         sizeabslineinfo == loadInt(sizelineinfo.at)
         sizelocvars == loadInt(sizeabslineinfo.at)
         sizeupvalues == loadInt(sizelocvars.at)
         reads == {size, idx, sizelineinfo, sizeabslineinfo, sizelocvars, sizeupvalues}
         up == loading[Len(loading) - 1]
     IN IF Ok(reads) /\ \A r \in reads : r.val = 0
        THEN /\ offset' = sizeupvalues.at
             /\ IF Len(loading) = 1
                THEN /\ loaded' = Innermost.f /\ loading' = <<>> /\ phase' = "loaded"
                ELSE /\ loading' = Append(SubSeq(loading, 1, Len(loading) - 2),
                          [up EXCEPT !.left = @ - 1,
                                     !.f.functions = Append(@, Innermost.f)])
                     /\ UNCHANGED <<phase, loaded>>
        ELSE Fail
  /\ SameWriter

----------------------------------------------------------------------------
WriteNext == WriteHeader \/ WriteFunction \/ WriteConstant \/ WriteUpvalues
               \/ WriteEnd \/ HandOver
LoadNext == checkHeader \/ LoadFunction \/ LoadConstant \/ LoadUpvalues
              \/ LoadProto \/ LoadEnd
ChunkNext == GenerateChunk \/ WriteNext \/ LoadNext

ChunkSpec == ChunkInit /\ [][ChunkNext]_<<vars, chunkVars>>
               /\ WF_<<vars, chunkVars>>(ChunkNext)

----------------------------------------------------------------------------
(* The functions as lua_load should find them.                             *)
Loadable[pn \in (1..Len(protos)) \X Nat] ==
  LET p == pn[1]
      fs == protos[p].functions
  IN [numParams |-> pn[2], vararg |-> IF p = Len(protos) THEN 1 ELSE 0,
      maxStack |-> protos[p].maxStack + STACK_EXTRA, code |-> protos[p].code,
      constants |-> protos[p].constants,
      functions |-> [j \in 1..Len(fs) |-> Loadable[<<fs[j].proto, fs[j].numParams>>]]]

Sent == IF outcome = "chunk" THEN Loadable[<<Len(protos), 0>>] ELSE Nothing

T == INSTANCE Transfer WITH Nothing <- Nothing, sent <- Sent, received <- loaded

(* What the generator hands over is loaded, whole and unchanged, and       *)
(* what it cannot write is not loaded: writeFunction, writeSubFunction and *)
(* ChunkWriter agree with lundump.c on every encoding and every count.     *)
Transferred == T!Spec

(* The reader takes the whole chunk: it refuses nothing, and nothing       *)
(* follows the main function; and instructions are aligned in it, wherever *)
(* their function is.                                                      *)
EverythingRead ==
  /\ phase # "error"
  /\ phase = "loaded" => offset = Len(buffer)
  /\ \A o \in 1..Len(buffer) :
       buffer[o][1] = "code" /\ buffer[o][3] = 1 => (o - 1) % 4 = 0
============================================================================
