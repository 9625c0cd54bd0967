# CangjieLua: a verification project

CangjieLua compiles a small Cangjie-like language to Lua 5.5 bytecode and runs
it in the Lua virtual machine, which it carries along in C. This directory holds
TLA+ models of the compiler, of its test runner and of the machine, TLC
configurations that check them on small instances, and theorems about them
that TLAPS proves for every value of the constants.

    cd tla
    tlc -config MCCodeGen.cfg MCCodeGen       # any .cfg with the module below
    tlapm CodeGenPrototypes.tla               # any module with theorems

## 1. The system

`CangjieLua.run` (src/src/cangjie_lua.cj) is a sequential pipeline; each stage
finishes before the next starts.

    source --Lexer--> tokens --Parser--> AST --CodeGenerator--> chunk (bytes)
           --lua_load--> prototypes --lua_pcall--> value on the stack --> RuntimeValue

| Component | State | Operations | Correct when |
|---|---|---|---|
| Lexer (lexer/) | position, line, current byte, first error | tokenize and its readers | lexemes are the longest ones, each with its line; it ends |
| Parser (parser/) | position, first error, variable and return types | recursive descent, types of conditions | it accepts the grammar and no more; the first error is the one reported; it ends |
| Code generator (codegen/code_generator.cj) | instructions, constants and locals with their indexes, stack depths, nested functions | generate and one branch per AST node | the code does what the AST says; it is well formed; its tables agree |
| Instruction encoding (codegen/bytecode.cj) | none | encodeABC, ABx, AsBx, IsJ, ABCK | the machine decodes what was encoded |
| Chunk writer (codegen/chunk_writer.cj) | byte buffer | varints, integers, strings, alignment | undump reads back what was written; every loop ends |
| Test runner, capture (tester.cj, runtime/) | counters, a static list of outputs | run a source, compare, count | a test passes exactly when it does what its comments say |
| FFI (luavm/ffi.cj) | a lua_State pointer | one C call per method | a state is closed once and not used afterwards |
| Lua machine (lvm.c and what it calls) | stack, frames, upvalues | one case per opcode | generated and compiled code do what they mean |
| Calls and coroutines (ldo.c, lfunc.c, lcorolib.c) | CallInfos, the stack of C, counters, variables to be closed | call, return, throw, resume, yield, close | an error reaches the innermost protected call; what longjmp drops is put right |
| Collector (lgc.c) | colours, ages, gray lists, lists of objects | mark, sweep, barriers, finalizers | nothing in use is freed; only garbage is finalized |
| Tables (ltable.c) | array part, hash part with collisions | get, set, resize, next, length | a table is a mapping; a traversal gives each field once |
| Metatables (lvm.c, ltm.c) | a cache of absent metamethods | index, assign, compare, call | the cache never hides a metamethod |
| Numbers (lobject.c, lvm.c) | none | arithmetic, comparison, conversion, for | exact at the borders of integers and floats |
| Libraries (lstrlib.c, ltablib.c, lutf8lib.c) | the match of a pattern, an array | match, gsub, sort, move, pack, utf8 | no index out of the data; the results are what the manual says |
| Scanner (llex.c) | position, line | read a token | lines are counted; brackets and escapes are read |
| Lua compiler (lparser.c, lcode.c) | registers, jumps, blocks, gotos, line information | one function per production | what the manual allows compiles, and does what it means |

What is hard. Nothing runs in parallel, nothing is persisted, and no message
is lost. The compiler's difficulty lies in **long sequences of legal calls**:
jumps recorded in one call and patched many calls later; registers and depths
saved, changed and restored around calls that change them; two indexes that must
agree with two lists in each of several generators alive at once; a chunk whose
instructions mean something only in pairs, to a machine that checks nothing. The
machine adds **interleavings of a sequential kind**: the collector between any
two steps of a program, coroutines that leave C frames behind, errors that cut
through close methods, a traversal whose table changes under it. And there are
**limits** everywhere: operands of 8 and 17 bits, a frame size in one byte, the
least integer, the last node of a table, the stack. The full list is under
"hazards" in PROJECT.json, each at its line, with the properties that catch it.

## 2. The modules

| Module | What it is |
|---|---|
| Ast | the AST's constructors (parser/ast.cj), and the sub-nodes of a set of programs |
| CodeGen | the code generator, one action per branch of its functions |
| CodeGenProperties | what it guarantees |
| CodeGenShape, CodeGenPrototypes | the theorems about it |
| LuaValues, LuaVM | values, and the machine on the instructions the generator emits |
| SourceSemantics | what a program means, from the AST alone: the abstract specification |
| Pipeline | generate, load, run, read the result: composes CodeGen and LuaVM |
| Chunk | the encodings of a binary chunk, the chunk writer and lundump.c with one buffer between them: extends CodeGen |
| ChunkFacts | the theorems about it: a chunk is read as it was written |
| Transfer | what a chunk promises: the abstract specification of Chunk |
| Lexer, Parser | lexer.cj, one step a turn of nextToken's loop; parser.cj, recursive descent |
| Grammar | the grammar in the head of parser.cj: the abstract specification of Parser |
| Frontend | the lexer and then the parser on a text |
| FrontendFacts | theorems about Lexer, Parser and Frontend |
| Tester | the test runner, run of cangjie_lua.cj and the capture of outputs |
| TesterFacts | the theorems about it |
| LuaGC, LuaHeap | lgc.c; a program and the collector at work on one heap |
| LuaTable, Mapping | ltable.c; what a table is to a program: the abstract specification of LuaTable |
| TableFacts | the theorems about tables |
| Calls, CallsFacts | ldo.c, lfunc.c, lstate.c, lcorolib.c: calls, errors, coroutines, variables to be closed; the theorems about it |
| Metatables, MetatableFacts | indexing and the cache of absent metamethods; a theorem about it |
| Numbers, Patterns, DataLibrary, LuaLexer | numbers; pattern matching; the table library, pack and unpack; the scanner, UTF-8 and %q |
| LuaCode, LuaParser | lcode.c and lparser.c |
| LuaMachine, LuaMeaning | the machine on their code; what a Lua program means: the abstract specification |
| MCFrontend, MCExecution, MCMachine | two components each in one run: Frontend and Tester, Pipeline and LuaHeap, LuaTable and Calls |
| other MC... | programs and constants for TLC; the syntax trees of MCCodeGen serve MCChunk and MCPipeline too |

### The compiler: CodeGen

The generator is a recursive descent over the AST. A state of CodeGen is a
point in that recursion: the fields of the CodeGenerator object at work
(`instructions`, `constants`, `constantIndex`, `locals`, `localIndex`,
`currentStack`, `maxStack`, `functions`), and `todo`, the calls still to make
with the local variables each needs when it goes on. An action runs the code
from one recursive call to the next, with everything it changes on the way.
So `generateIfStmt` is `If` (up to the condition), `IfTest` (TEST, an empty JMP,
then the branch), `IfThenEnd` (patch, and the else branch if there is one) and
`IfElseEnd`. `FuncDecl` suspends the generator in `outer` and starts a fresh
one; `EndFunction` files it in `protos`, and `FuncEnd` goes on in the parent.
`EndMain` is the end of `generate`; `outcome` becomes "exception" where
writing throws.

Instructions are records of the fields that the formats carry. Operands wrap at
8 and 17 bits as the masks in bytecode.cj make them (`ArgSize`, `BxSize`).
Constants are looked up by the text of their value, as in the code; for floats
the text is modelled by what it keeps, `FloatScale` decimals.

Operators commented as slips, here and in the other modules (`PatchedPast`,
`RecoverPointsFirst`, ...), are mistakes one could make in the definition
they follow. No action uses them; with a slip in the place of its definition,
TLC reports the property that PROJECT.json pairs it with.

### The machine under generated code: LuaVM, SourceSemantics, Pipeline

One action per opcode the generator emits, on one stack with frames as windows
into it: a write outside a frame therefore damages its neighbours, as in the
machine. Calls follow luaD_precall (missing arguments become nil, the frame
needs room below `MAXSTACK`), returns luaD_poscall and the fast path of
OP_RETURN0; main's VARARGPREP moves the function above its hidden arguments;
errors unwind to lua_pcall. Conditional jumps read the JMP that follows them
without checking that it is one. `index` reads LOADKX's operand as Ax, as the
machine does, not as Bx, as it was written.

SourceSemantics evaluates the AST without registers: locals belong to a function,
other names are globals, functions are called by global name, operands go left
to right. It is what src/README.md (6.3, 11) tells a user. `fuel` bounds calls
and loop rounds; running out of it counts as an error, which is what unbounded
recursion ends in on the machine too (a stack overflow).

### The chunk: Chunk, Transfer

`writeFunction` and `writeSubFunction` are a walk whose pending calls are in
`writing`, one action per part of a function (head and code, a constant,
upvalues, end); then lundump.c, one action per function of it, with the
functions being read in `loading`. The buffer holds bytes that are
numbers, as numbers, and bytes nobody looks into (of instructions, floats,
names, the header) tagged with what they belong to. A reader out of step
therefore notices: a tagged byte where it wants a number is an error, where
Lua would take whatever it finds. loadVarint's limits and the list of saved
strings are not modelled: a generated chunk never refers to a saved string.

Transfer says what this is for: the tree of functions sent is received, whole,
unchanged and once, and if none is sent none is received.

### The front end: Lexer, Parser, Grammar, Frontend

The parser keeps the calls still to make in `todo` and what they returned in
`vals`; an action runs a function up to its first call. Where the code reports a
line, `error` has the place of the token whose line it is. Grammar reads a list
of tokens in every way the rules in the head of parser.cj allow, an else always with
its branch; which conditions are Bool, scope by scope, MCFrontend says of the
tree (`WellTyped`). What the lexer should give is said by
Type (which texts are lexemes) and Cut (a text is cut into the longest ones),
without a word of how it reads.

### The test runner: Tester

Tests run in a row. What a source does is given with it (where it ends, what it
prints, its value or message), so the model is about what the runner makes of
it: the static capture, which an exception leaves switched on, the three ways
out of executeBytecode, the counters, the catch around a file. Floats are
counted in EPSILON and integers in ones; `Float64` rounds an integer beyond
`Exact` (2^53) to one that a Float64 has, as the code does before it compares.

### The machine by itself

*LuaGC, LuaHeap.* `g` is the part of global_State that lgc.c works on; its
functions are operators from `g` to `g`. LuaHeap lets a program hold, make,
store and load objects, and the collector take a step between any two of the
program's, in incremental and generational mode, with emergency collections,
finalizers, resurrection and lua_close.

*LuaTable.* Node by node, with the chains of collisions, `lastfree`, the hint of
the length, dead keys, and failing allocations in the middle of a resize. Loops
of ltable.c are functions over nodes or indexes that call themselves: `chain` of
getgeneric, `upto` and `below` of the two loops that insert again, `search` of
the two that halve, `double`. That they have values, which needs the chains to end, is
part of what is proved.

*Calls.* All threads share the stack of C: `cs`, activations of C functions, each
with the place where it waits; setjmp is an activation "try", and longjmp cuts
`cs` there. A thread has its CallInfos and the levels of its stack. What
programs do is left open: a Lua function calls anything, captures locals,
declares variables to be closed, returns or fails at any time, within the
features a program uses.

*Metatables.* An access that its first look does not settle goes from one object
to the next, one turn of the loop a step; every path that stores a field is an
action, for each must clear the cache.

*Numbers, Patterns, DataLibrary, LuaLexer.* Calculations, as operators that do
what the C functions do, with integers of `NBITS` bits that wrap and floats
that round. Each is compared to a definition of what it is for.

*LuaCode, LuaParser, LuaMachine, LuaMeaning.* The Lua compiler is one operator
per C function, from a state of the compiler to the next, down to register
allocation, jump lists, peephole changes and line information; LuaMachine runs
the code, with open upvalues, varargs and values to be closed. LuaMeaning knows
of none of that: a variable is a cell.

## 3. What the runs check

| Run | Instance | Shows |
|---|---|---|
| codegen | 1,166 programs, 40,288 states | types, tables, the shape of code and of the tree of functions, the frame, termination |
| chunk | 30 programs | chunks are loaded as they were sent, aligned, and read to their end |
| front | 46,835 texts of up to six characters, 15,280 lists of tokens | longest lexemes, the grammar, the first error, the end |
| | or 10,125 pairs of tests | verdicts, counters, captured outputs, that all are run |
| execution | 896 programs | they print, fail and return as SourceSemantics says |
| | or seven heaps of a main thread and three objects | nothing dangles, the heap passes lua_checkmemory, only garbage is finalized |
| machine | keys 1..3 and two strings that collide | a table implements Mapping; traversal, length, assertions |
| | or nine programs, two threads, 87,220 states | assertions, counters of calls, what a frame leaves behind, no protected call is skipped |
| library | two tables, and all small inputs of each calculation | the cache, the libraries, numbers, text |
| luacompiler | families of programs, 5,829 states | legal programs compile and do what they mean; lines are found |
| alias, frame, mixed, grammar, verdicts | one or two programs, a list of tokens, three tests | the findings below |

Where a run has an "or", it is of two components that share no state: the one or
the other moves, chosen in the initial state, and the other rests.

The properties are stated above their definitions. Those of *codegen* are in
CodeGenProperties: `TypeOK`; `TablesAgree` (each index finds exactly what its
list holds); `CodeInv` (pairs of instructions stay together; each jump, patched
or not, lands in the code or just behind it and never between a pair; a jump
that waits to be patched is where the pending call remembers it); `ControlStays`;
`PrototypesSound` (functions form a tree, and registers lie in the frame if
no declaration is in an inner block); `EmittedStays`; `Terminates`.

`AcceptsGrammar` (MCFrontend) compares the parser with the grammar and with the
typing of conditions, scope by scope, for every list whose elses have their branches;
the typing for lists whose names are one thing each. What it leaves out is
`AcceptsLegal`, which is false (grammar, below). `VerdictsRight` says of every
test what its comments ask for, by src/README.md 10.2 and 10.3 and the comments
of tester.cj, numbers compared exactly but for EPSILON; it is silent on the
kinds of tests the runner misjudges (`Excepted`), which `SummaryRight` counts too.
`CollectorAssertions`, `TableAssertions` and `CallAssertions` are asserts of the
C code, recorded where the model takes the step they guard; their comments say
which.

**Findings.** Five runs show that the code does not do what it says of itself:

| Run | Input | What happens |
|---|---|---|
| alias | `b = a + b` | computes a + a (tests/73 notes it) |
| frame | four `if`s that declare a variable each | a register outside the frame |
| mixed | `3 < (t or 2.0)`, `3 <= (t or 2.0)` | isSCnumber (lcode.c 1305) calls the *other* operand a float: `__lt` gets 3.0, where the comment at 1630 says what isfloat is of |
| grammar | an `else` with no branch (parser.cj 218); a condition that is Bool only by a variable of that name in another scope (118) | accepted, against src/README.md 107 and 116 |
| verdicts | an exception where any error is expected (tester.cj 323); a returned NaN (251), an integer beyond 2^53 that is the expected one only as a Float64 (240) | the first fails, the others pass, against the comments at 110 and 236 and src/README.md 10.3 |

MCPipeline keeps programs for the other divergences met on the way: give the
Programs and the INVARIANT of MCFrame.cfg their names to reproduce them.
`ArgumentPrograms` (`add(2 * 3, 4)` as an expression: 4 is not where CALL takes
it), `FloatPrograms` (0.0000001 and 0.0000002 are one constant), `LeakPrograms`
(254 times `a = a - 1`: the frame size overflows UInt8 and run throws),
`LongNamePrograms` (a function whose name is longer than 40 bytes is never
found), `ManyConstants` (with `BxSize` 2, LOADKX reads the wrong one), `ManyNames`,
`ComparePrograms`, `CallPrograms`. `ManyNames` shows the hazard of operands of 8
bits (code_generator.cj 402) with ArgSize 16; no run has it, nor a NUL in a source
text: nothing in the repository says what the code should do there.

In the machine the models met two harmless oddities. forlimit (lvm.c 181) lets a
loop with a NaN limit and a negative step run down to the least integer;
`NumbersExact` leaves that limit out. An error inside the iterator of gmatch
leaves its match depth decremented, so that calling the iterator again breaks
the assertion at lstrlib.c 772. And testobjref of ltests.c is stricter than
lgc.c: a touched open upvalue of age OLD1 may refer to a new object; LuaHeap
exempts it.

### Register hazards

`Tame` in MCPipeline describes the programs for which the generator's register
discipline is sound, which is a result in itself:

  - an arithmetic expression assigned to a local must not read that local on
    the right of its leftmost operand (alias);
  - in a nested call, only the last argument may be arithmetic;
  - a comparison or a call assigned to a local, or leftmost in what is
    assigned, needs the registers above that local, so it must be the last one
    declared;
  - variables are declared once, and not in an inner block (frame).

### Bounds

| Run | Bounds | Why they are enough |
|---|---|---|
| codegen, execution, chunk | ArgSize 256, FloatScale 10^6 | the code's own |
| | BxSize 2 (codegen), 131072 | 2 reaches LOADKX with three constants; else the code's own |
| | IntLimit 10^6 | stands for 2^62; some programs exceed it, TLC's integers have 32 bits |
| | MAXSTACK 40, Fuel 16 | every program needs less but the one that recurses for ever |
| | expressions of depth two | each register hazard comes from one parent handing a register to one child |
| | names of 1, 45, 126, 127 bytes | a length takes one or two bytes, a name is short or long |
| front | six characters; every list one token away from four programs | the longest lexeme with something behind it; every place an error can be |
| | two tests | the capture is what one test leaves to the next |
| | Exact 4, Unit 4 | Exact is 2^53; 5 is the first integer Float64 does not have |
| execution | MaxStack 2, SweepMax 1 | the program must lose objects; every sweep can be interrupted |
| machine | MaxInteger 3, arrays of 0 and 2 | the largest integer is a key; keys move between the parts |
| | ErrorSpace 6, MaxCCalls 3, ErrCCalls 5; per program the smallest stack that lets its features meet | full stacks and C stack overflow happen inside handlers and close methods |
| library | NBITS 5, three bits of mantissa, MAXTAGLOOP 3 | integers no float equals, floats beyond all integers, chains that reach the limit |
| luacompiler | MAXARG_C 15, MAXINDEXRK 2, MAXARG_Bx 63, MAXARG_vC 3, LIMLINEDIFF 3, MAXIWTHABS 4, MAXVARS 20, MAXUPVAL 10 | every limit of an operand and of line information is reached by a family of programs |
| | MaxOut 12, MaxSteps 300 | no program of the run needs as much |

CHECK_DEADLOCK is off where the system really stops: a generator, a chunk, a
parse or a list of tests that is done; a table program that has nothing left to do;
a program of Calls that has left main; each calculation and each compiled program
(library, luacompiler). It is on in execution: the machine never meets an
instruction it cannot run, and a program and its collector are stuck only when
the state has been closed.

### Fairness

The generator, the writer and reader, the front end and the runner are
sequential and nothing blocks them: a step that can be taken is taken. That is
weak fairness of the whole next-state action, and no more is assumed of any
single step. `Terminates`, `FrontEnds`, `AllRun` and Transfer's `Arrives` need it
only to exclude a program that stops for no reason.

## 4. What is proved

For all values of the constants that satisfy the ASSUMEs of the module (nodes
have the shape of their kind; operand sizes are positive; EPSILON is less than
1; statements are finite trees; letters, digits and the bytes the lexer asks for
by name are different; the main thread is no coroutine, and a program's
methods are functions; a table's keys are integers, strings and floats that are
no integers, every positive integer is one, strings and floats have hash values,
and sizes and random numbers are natural numbers):

| Theorem | Statement | Module |
|---|---|---|
| TypeCorrect | Spec => []TypeOK | CodeGenShape |
| TablesCorrect | Spec => []TablesAgree | CodeGenShape |
| CodeCorrect | Spec => []CodeInv | CodeGenShape |
| ControlStaysAlways | Spec => []ControlStays | CodeGenShape |
| EmittedStaysAlways | Spec => EmittedStays | CodeGenShape |
| FunctionsAreTree | Spec => []Tree | CodeGenPrototypes |
| FramesFitAlways | Spec => []FramesFit | CodeGenPrototypes |
| PrototypesAreSound | Spec => []PrototypesSound | CodeGenPrototypes |
| IntegersSurvive | for each integer, coded is a natural number and decoded undoes it | ChunkFacts |
| PaddingAligns | padding is below 4 and leads to a multiple of 4 | ChunkFacts |
| EveryChunkRead | ChunkSpec => []EverythingRead | ChunkFacts |
| ChunkTransfers | ChunkSpec => T!Safety: Chunk implements Transfer, but for its liveness | ChunkFacts |
| LexemesAreLongest | FrontSpec => []LongestLexemes | FrontendFacts |
| FirstErrorStays, FrontErrorStays | Spec => ErrorStays, FrontSpec => ErrorStays | FrontendFacts |
| VerdictsAreRight | TesterSpec => []VerdictsRight | TesterFacts |
| OutputsStayAlways | TesterSpec => OutputsStay | TesterFacts |
| CacheIsSound | Spec => []CacheSound | MetatableFacts |
| TableSound | TableSpec => []TableInv | TableFacts |
| TableAsserts | TableSpec => []TableAssertions | TableFacts |
| LengthRight | TableSpec => []LengthIsBorder | TableFacts |
| TableMaps | TableSpec => IsMapping: LuaTable implements Mapping | TableFacts |
| TraversalRight | TableSpec => []TraversalComplete | TableFacts |
| StackIsSound | Spec => []CallsInv | CallsFacts |
| CallsAreCounted | Spec => []CallsCounted | CallsFacts |
| JumpsLeadToSetjmps | Spec => []JumpsLead | CallsFacts |

**Types.** TypeOK is inductive because it speaks of the suspended generators as
of the working one: `EndFunction` makes a suspended generator the working one,
and `protos` is filled from it. The proof takes it apart into conjuncts that
name the variables (`Types`), one lemma per group of actions (statements,
branches, expressions, functions). What needs care is `todo`: a step may use the
fields of its task only because `Task` says which fields a task of that kind
has, and the tasks it schedules are typed because the sub-nodes of a node are
nodes (ExprAssumption, StmtAssumption).

**Tables.** TablesAgree is inductive with the types. Two lemmas carry the proof,
that adding a constant and adding a local keep their index exact; and
`paramIndex` of a parameter list is exact even with repeated names, since it
finds the last one. Every action adds a constant, adds a local or leaves both.

**Shape of the code.** ControlStays alone is far from inductive: it says nothing
of code that is not finished. CodeInv is the strengthening. (1) Jumps land on
*entries*: positions in the code, or just behind it, that do not separate a
pair. (2) Appending a well-formed segment keeps them entries (ConcatWellFormed),
and RETURN0, which ends every function, turns the position behind the code into
one in it (FinishedClosed). (3) The position that a pending patch remembers
holds a JMP whatever has been emitted since, so a patch replaces a jump by a
jump, to the end of the code, which is an entry (PatchWellFormed). CodeInv says
this of the working, the suspended and the finished functions, and of the tasks
that remember positions. Each action is of one of four kinds: it emits nothing,
emits a well-formed segment, patches, or changes the generator. EmittedStays,
an action property, follows from CodeInv's third part: what a patch overwrites
is a JMP. Steps that change the generator at work change the length of `outer`,
so the property does not speak of them.

**The tree of functions.** Tree speaks of a compilation that has ended. Its
strengthening, `Forest`, speaks of all of it: each finished function is recorded
in exactly one list of functions, of a finished generator or of one at work,
except the one that has just ended, whose recording (`funcEnd`) is the first
task of the generator taken up again; each list holds only functions finished
before. When the main function ends there is no generator left, and all lists
are those of finished functions.

**Frames.** That registers lie in the frame is not inductive either, for the
generator hands out a register before maxStack counts it: those of a call's
arguments are counted when the call itself is emitted. The invariant, `Frames`,
therefore says that a register is `Covered`: counted by now, or the rest of a
call that is still in `todo` will count it. What that rest counts depends on
currentStack when it is taken up, and this on the tasks before it; `Level` says
what is known of it: only tasks that restore currentStack lower it, to a value
they remember. The hypothesis of FramesFit, that nothing is declared in an inner
block, is what makes a restored depth count all locals (`Ordered`: behind a
declaration in `todo` nothing restores). The proof treats the step of an action
once and for all, in FrameKept: the first task of `todo` is replaced by others,
which ask less of the registers. Then each action has to show five facts about
numbers. FlatAssumption only says that the two recursive functions that say what
"in an inner block" means have values, as they do for finite trees; TLC
evaluates it.

**The chunk.** IntegersSurvive is why `writeVarInt`, whose loop does not end on
a negative number, is safe to call with an integer constant; PaddingAligns is what
writer and reader rely on, who compute the padding each for themselves.
EveryChunkRead and ChunkTransfers are about the whole way from the generator to
the prototypes, for every program, every nesting of functions, and any length of
names and of code. Their inductive invariant, ChunkInv, is CodeGen's types and its
forest of functions, that `outcome` is right about what a chunk can hold, and one
statement for each phase. The heart of it is a *log* of the writer: for each of
its steps what was left to do (W) and how long the buffer was (A). A step of the
writer makes a log one longer (WriteStep, LogGrows); every task that was ever left
to do has been begun or is left still. So when nothing is left the whole tree has
been written and everything in it fits (AllWritten), and the writer throws an
exception only where `outcome` says so, which it does before a byte is written
(Unwritable). While reading, the log stands still, and the reader is behind a
prefix of it: the tasks left to do then are what the functions in `loading` still
wait for, from the innermost outwards, and what each has is what the log says of
it (ReadSoFar). Hence the next step in the log is of the kind the innermost
function is to read, and it reads it: one lemma for each part of a function. Each
finds its bytes in the buffer wherever they are, numbers as varints of any length
and instructions behind as much padding as the writer put there. That a varint is
read back, for all numbers (GroupsRead), and that the recursive functions of the
model have values, are inductions over numbers, by the least number for which it
is not so (LeastNat); and Recursion says once for all which recursive functions
exist. TLC cannot enumerate logs, so ChunkInv is not an invariant of a run; TLC
checks what it implies, EverythingRead and the refinement.

**Lexemes.** LongestLexemes speaks of what has been read at the end. Its
strengthening, LexInv, speaks of every place in between: the text up to `place`
can be cut into lexemes, each the longest there is where it begins, and the
tokens given so far are theirs, in order, each with the line on which it begins.
A place cuts the text in one way only, since the longest lexeme is one; so
the tokens are too. Type says what a lexeme is of the text itself, the code
looks at one byte at a time: TypeFacts translates, and its part that the six
kinds of lexemes exclude each other is where the alphabet matters. Then one lemma
for each kind says that what the code reads is the longest lexeme there: the
loop of readNumber goes past a second point, so a number with two points is
refused where the second begins, after the token of the first part, which
the code does not give. Then each branch of nextToken keeps LexInv. No induction
over the text is needed, as `After` and `Before` name the ends of the loops, and
that they have one follows from LeastNat.

**First error.** Each action of the parser either keeps an error or sets the
first one; the guards that make it so are in many places, and each is a step of
the proof.

**Verdicts.** The inductive invariant relates the capture to the test that runs
(`OwnList`: what is being printed goes to the list of this test, whatever the one
before left behind), the point of the run to what may have happened, and the
counters to the tests that have finished. What the code
compares through Float64 is compared with what the numbers are; `RoundedPair` is
where the two may differ. Tests that throw, return NaN or meet such a pair are
excepted in the property itself: there it would be false (the run verdicts).

**Cache.** Only two kinds of steps can harm the cache, one that stores a field
and one that remembers an absence. A store clears the cache of its table or is
of a field that is not cached; and what is remembered absent has been looked up
in the state at hand (MissedIsAbsent).

**Lua tables.** What a program reads from a table follows from a hash part that
is in order, and what that means is the invariant. `Chains` says it of the links
alone: each node has a place such that a link leads exactly one place down, no two
nodes have the same, only nodes with keys are linked, and between a key's place
and that of its main position no chain ends. So getgeneric ends (Recursion: its
function has values because places get smaller) and finds a key exactly if it
is there. insertkey keeps that in all its three cases (ChainsPut, ChainsMove,
ChainsExtend); the second gives two nodes new places, those of the node that has to
move and of the free one. `HashOK` adds what nodes hold: keys are there once, a dead
key comes after the live one it was (DeadLast: a string is collected and made again
while its old node is in the chain, and a traversal must find the live one),
free nodes are below lastfree, and the common empty node is never linked.

From there the asserts need counting: a rehash must leave room for the new key.
computesizes says how many keys the array takes, and RehashFits that the rest fits
the hash part; SurjectionBound counts fields by the nodes they are in. A resize
moves the fields in two loops, and either allocation may fail: ResizeMoves
and ResizeFails say that the fields are the same afterwards. So an assignment changes one
field or none (SetIs), which is Mapping's step. The border comes from HalvedIs
(binary search between something and nothing ends at a border of what it searches)
and DoubleNext, where the largest integer bounds the doubling. A traversal is
complete because what is due is always what lies ahead (`Ahead`): the assignments it
permits and the collector leave every key, dead or not, where it was (SameIndex).

**Calls.** CallsCounted alone is not inductive: after a longjmp the counter of
unyieldable calls is what the setjmp had saved, so every setjmp in the stack of
C must have saved the right number (`Saved`). For a longjmp to find it, the
threads' chains of setjmps must lead to those on the stack, in order (`Jumps`);
for it to cut nothing of another thread, each thread must have one piece of the
stack of C, and none that waits be called again (`Crossed`, `Convex`). All
of this rests on who may call whom (`Linked`, `Tried`), which each step must
keep. Two steps are delicate. A yield leaves everything above the
setjmp of its coroutine: it may, because nny is 0, and so, by `Counts`, no
unyieldable call is there (YieldFacts). lua_closethread resets the counter of a
thread whose calls are still on the stack, before the longjmp that drops them:
the counts speak only of what is above such a reset (`Counting`, `Past`). What
an activation goes on with is its CallInfo, so the invariant also says that it
is still there and apart from those of the activations below (`Depth`, `Apart`,
`Based`), and that threads on the stack are awake (`Awake`). The proof has one
lemma per step of ldo.c, lcorolib.c and lvm.c, and holds for all programs,
numbers of coroutines and sizes of both stacks. CallsAreCounted and
JumpsLeadToSetjmps, the first part of NothingOutlivesItsFrame, follow from it.

**Only model-checked.** Liveness: `Terminates`, `FrontEnds`, `AllRun`, and that a
chunk arrives (`Arrives`, the rest of `Transferred`). Modules whose definitions are recursive:
`RunsAsSource` (SourceSemantics), the grammar, the collector,
numbers, patterns, the libraries and the Lua compiler with `RunsAsMeant`; a
recursive operator is out of the prover's reach, and so is induction over data.
Of Calls: `CallAssertions`, NoProtectedCallSkipped and the levels in
NothingOutlivesItsFrame, which need an invariant of the stack of Lua that
CallsInv does not have yet.

## 5. What is not modelled

  - The FFI as a component of its own (its calls are steps of Pipeline, Tester
    and Chunk), the two data types of errors/, and the documentation site.
  - Of the generator: `functionNames`, written and never read; bit positions of
    operands; jumps of more than 2^24 instructions.
  - Of generated programs' numbers: floats are fractions, without rounding, -0,
    NaN and infinity, and lua_Integer does not wrap (Numbers has all that, for
    the machine). No program of the execution run divides by zero, and no float literal
    is beyond Int64, where generateExpr throws (code_generator.cj 377).
  - Of the libraries: that sums of sizes do not overflow; lengths have no bound here.
  - Of Tester: the comments are given, not parsed; a directory that cannot be
    read, which only prints a message.
  - Of Calls: hooks, values and results (only counts and levels), reallocation of
    the stack, the protected parser, errors outside every protected call.
  - Of the collector: sizes and debts; when a step runs is left open.
  - Of the Lua compiler and its machine: messages, debug names, the limit of
    nested C calls, pow and xor; arithmetic is in halves, shifts beyond 15 bits
    give 0, metamethods are symbolic, and programs whose order of evaluation
    the manual leaves undefined are not written.
  - I/O, os, debug and package libraries, and lauxlib.c but for what the above use.

## 6. What could come next

1. *Calls.* Beyond CallsInv, the levels of each thread's stack: that the frames of
   its CallInfos follow each other, that open upvalues and variables to be closed
   lie in them, and errfunc is the handler of the innermost protected call. With
   it, NothingOutlivesItsFrame, NoProtectedCallSkipped and CallAssertions.
2. *The machine under generated code.* Under CodeInv, LuaVM's program counter
   stays in the code of the running function, and the frames form a stack.
