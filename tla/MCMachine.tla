------------------------------ MODULE MCMachine ------------------------------
(***************************************************************************)
(* Two parts of the Lua machine that have nothing in common, checked in    *)
(* one run, one or the other: a table with integer and string keys that    *)
(* collide, and calls.                                                     *)
(***************************************************************************)
EXTENDS LuaTable, Calls

CONSTANTS x, empty, a, b, main, c1

MCValues == {x}
MCHash(k) == CASE k[2] = a -> 0 [] k[2] = b -> 4
MCKeys == {<<"int", i>> : i \in {1, 2, 3}} \cup {<<"str", a>>, <<"str", b>>}

Plan(uses, methods, stack) == [uses |-> uses, methods |-> methods, stack |-> stack]
(* What is mixed in one program: the pairs of features whose interplay the *)
(* properties are about.  The stack is as small as each mix allows.        *)
Plans == {
  Plan({"pcall", "yield", "resume", "variable", "fail"}, {"lua"}, 11),
  Plan({"xpcall", "variable", "fail", "lua"}, {"lua", "error"}, 9),
  Plan({"xpcall", "yield", "resume", "fail"}, {"lua"}, 9),
  Plan({"tbc", "callback", "pcall", "yield", "resume", "fail"}, {"lua"}, 11),
  Plan({"meta", "tail", "yield", "cont", "yieldk", "resume", "error"}, {"lua", "yield"}, 9),
  Plan({"pcall", "variable", "yield", "resume"}, {"yield", "error"}, 11),
  Plan({"memory", "pcall", "variable", "upvalue"}, {"lua", "error"}, 11),
  Plan({"wrap", "close", "variable", "yield", "fail"}, {"lua"}, 9),
  Plan({"pcall", "close", "variable", "resume"}, {"lua"}, 9)}

NoPlan == Plan({}, {}, 0)
MCPrograms == Plans \cup {NoPlan}

(* What moves is the table if the program is none, else the program.       *)
MCInit ==
  \/ /\ TableInit
     /\ Init /\ program = NoPlan
  \/ /\ t = luaH_new /\ fields = [k \in Keys |-> Empty] /\ iter = Resting
     /\ Init /\ program # NoPlan
MCNext ==
  \/ program = NoPlan /\ TableNext /\ UNCHANGED vars
  \/ program # NoPlan /\ Next /\ UNCHANGED tableVars
MCSpec == MCInit /\ [][MCNext]_<<tableVars, vars>>
=============================================================================
