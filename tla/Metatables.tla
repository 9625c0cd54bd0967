----------------------------- MODULE Metatables -----------------------------
(***************************************************************************)
(* Indexing, assignment and the metamethods of tables: luaV_finishget and  *)
(* luaV_finishset of src/luavm/src/lvm.c, ltm.c, the assignments of        *)
(* ltable.c and the functions of lapi.c that read and write fields.        *)
(*                                                                         *)
(* flags[t] caches which metamethods the table t is known not to have, so  *)
(* that t, as a metatable, need not be searched.  Everything that adds a   *)
(* field must clear it.  The bits of metamethods that a program does not   *)
(* use are left out.                                                       *)
(*                                                                         *)
(* An access that its first look does not settle goes from one object to   *)
(* the next (access.op is "get" or "set"), one turn of the loop a step.    *)
(***************************************************************************)
EXTENDS Integers, FiniteSets

CONSTANTS Tables, Function, Other,   \* values: Other is no table and has the
          Nil,                       \* metatable of its type
          Null,                      \* no metatable
          Programs,                  \* each the fields that a program uses
          MAXTAGLOOP

Cached == {"__index", "__newindex", "__gc", "__mode", "__len", "__eq"}     \* maskflags
Keys == UNION Programs
Values == Tables \cup {Function, Other}
Objects == Tables \cup {Other}

ASSUME MetatableAssumption ==
  /\ Function \notin Tables /\ Other \notin Tables /\ Nil \notin Values /\ Null \notin Tables
  /\ MAXTAGLOOP \in Nat

VARIABLES fields, flags, metatable, access, program
vars == <<fields, flags, metatable, access, program>>

Idle == [op |-> "idle"]
Done(result) == [op |-> "done", result |-> result]
Free == access.op = "idle"

Init ==
  /\ program \in Programs
  /\ fields = [t \in Tables |-> [k \in Keys |-> Nil]]
  /\ flags = [t \in Tables |-> Cached \cap program]     \* luaH_new
  /\ metatable = [o \in Objects |-> Null]
  /\ access = Idle
----------------------------------------------------------------------------
(* The metamethod of a metatable: looked for only where it may be; when it *)
(* is not there, that is remembered.                                       *)
notm(tm) == tm = Nil
checknoTM(mt, e) == mt = Null \/ e \in flags[mt]
Field(t, k) == IF k \in program THEN fields[t][k] ELSE Nil
fasttm(mt, e) == IF checknoTM(mt, e) THEN Nil ELSE Field(mt, e)
Missed(mt, e) == IF e \in program /\ ~checknoTM(mt, e) /\ notm(fields[mt][e]) THEN {mt} ELSE {}
Remember(mts, e) == flags' = [t \in Tables |-> IF t \in mts THEN flags[t] \cup {e} ELSE flags[t]]
gettmbyobj(o, e) == IF o = Function \/ metatable[o] = Null THEN Nil ELSE Field(metatable[o], e)
Method(o, e) == IF o \in Tables THEN fasttm(metatable[o], e) ELSE gettmbyobj(o, e)
Looked(o, e) == Remember(IF o \in Tables THEN Missed(metatable[o], e) ELSE {}, e)

Return ==               \* the result is taken
  /\ access.op = "done"
  /\ access' = Idle
  /\ UNCHANGED <<fields, flags, metatable, program>>
Call(tm, o) == <<"call", tm, o>>        \* what the metamethod does is left open
Error == <<"error">>
TooLong == <<"loop">>

----------------------------------------------------------------------------
(* Reading (OP_GETFIELD and the like, lua_gettable and the like).          *)

HasField(o, k) == o \in Tables /\ fields[o][k] # Nil
Get(o, k) ==
  /\ Free
  /\ access' = IF HasField(o, k) THEN Done(fields[o][k])
               ELSE [op |-> "get", o |-> o, k |-> k, v |-> Nil, loop |-> 0]
  /\ UNCHANGED <<fields, flags, metatable, program>>

(* One turn of luaV_finishget or luaV_finishset: it ends with a result, or *)
(* goes on with the metamethod, which is an object itself.                 *)
Next1(tm) == [access EXCEPT !.o = tm, !.loop = @ + 1]
(* Mutant: a metamethod that is a table is not looked at itself.           *)
luaV_finishgetSkips ==
  /\ access.op = "get"
  /\ LET o == access.o
         tm == Method(o, "__index")
     IN IF access.loop = MAXTAGLOOP THEN access' = Done(TooLong) /\ UNCHANGED flags
        ELSE /\ Looked(o, "__index")
             /\ access' = CASE notm(tm) /\ o \in Tables -> Done(Nil)
                            [] notm(tm) /\ o \notin Tables -> Done(Error)
                            [] tm = Function -> Done(Call(tm, o))
                            [] OTHER -> Next1(tm)
  /\ UNCHANGED <<fields, metatable, program>>
luaV_finishget ==
  /\ access.op = "get"
  /\ LET o == access.o
         tm == Method(o, "__index")
     IN IF access.loop = MAXTAGLOOP THEN access' = Done(TooLong) /\ UNCHANGED flags
        ELSE /\ Looked(o, "__index")
             /\ access' = CASE notm(tm) /\ o \in Tables -> Done(Nil)
                            [] notm(tm) /\ o \notin Tables -> Done(Error)
                            [] tm = Function -> Done(Call(tm, o))
                            [] OTHER -> IF HasField(tm, access.k) THEN Done(fields[tm][access.k]) ELSE Next1(tm)
  /\ UNCHANGED <<fields, metatable, program>>

----------------------------------------------------------------------------
(* Assignment.  pset settles it when the field has a value already; for a  *)
(* short string also when there is no __newindex, and the value is nil or  *)
(* the new key has room; for an integer when the array has its place.      *)

IntKeys == {"n"}
Store(t, k, v) == fields' = [fields EXCEPT ![t][k] = v]
invalidateTMcache(t) == flags' = [flags EXCEPT ![t] = {}]
NoNewindex(t) == checknoTM(metatable[t], "__newindex")
(* Mutant: a place in the array is used at once, __newindex or not.        *)
psetsFast(t, k, v, room) == HasField(t, k) \/ (IF k \in IntKeys THEN room ELSE NoNewindex(t) /\ (room \/ v = Nil))
psets(t, k, v, room) == HasField(t, k) \/ (NoNewindex(t) /\ IF k \in IntKeys THEN room ELSE room \/ v = Nil)
(* Mutant: a new field does not clear the cache.                           *)
psetCached(t, k, v) == IF HasField(t, k) \/ v # Nil THEN Store(t, k, v) /\ UNCHANGED flags ELSE UNCHANGED <<fields, flags>>
pset(t, k, v) ==
  IF HasField(t, k) \/ k \in IntKeys THEN Store(t, k, v) /\ UNCHANGED flags
  ELSE IF v = Nil THEN UNCHANGED <<fields, flags>>
  ELSE Store(t, k, v) /\ invalidateTMcache(t)

Set(o, k, v, room) ==
  /\ Free
  /\ IF o \in Tables /\ psets(o, k, v, room)
     THEN access' = Done(Nil) /\ pset(o, k, v)
     ELSE access' = [op |-> "set", o |-> o, k |-> k, v |-> v, loop |-> 0] /\ UNCHANGED <<fields, flags>>
  /\ UNCHANGED <<metatable, program>>

Cleared(o, missed) ==
  [t \in Tables |-> IF t = o THEN {} ELSE IF t \in missed THEN flags[t] \cup {"__newindex"} ELSE flags[t]]
luaV_finishset(room) ==
  /\ access.op = "set"
  /\ LET o == access.o
         tm == Method(o, "__newindex")
         End(result) == access' = Done(result) /\ UNCHANGED <<fields, flags>>
     IN IF access.loop = MAXTAGLOOP THEN End(TooLong)
        ELSE IF notm(tm)
        THEN IF o \in Tables
             THEN /\ access' = Done(Nil)
                  /\ Store(o, access.k, access.v)
                  /\ flags' = Cleared(o, Missed(metatable[o], "__newindex"))
             ELSE End(Error)
        ELSE IF tm = Function THEN End(Call(tm, o))
        ELSE IF tm \in Tables /\ psets(tm, access.k, access.v, room)
        THEN access' = Done(Nil) /\ pset(tm, access.k, access.v)
        ELSE access' = Next1(tm) /\ UNCHANGED <<fields, flags>>
  /\ UNCHANGED <<metatable, program>>

(* lua_rawset; lua_rawseti has nothing to clear.                           *)
RawSet(t, k, v) ==
  /\ Free
  /\ Store(t, k, v)
  /\ IF k \in IntKeys THEN UNCHANGED flags ELSE invalidateTMcache(t)
  /\ UNCHANGED <<metatable, access, program>>

----------------------------------------------------------------------------
(* Other users of metamethods.                                             *)

(* The new metatable is asked for a finalizer (luaC_checkfinalizer).       *)
SetMetatable(o, mt) ==
  /\ Free
  /\ metatable' = [metatable EXCEPT ![o] = mt]
  /\ IF o \in Tables THEN Remember(Missed(mt, "__gc"), "__gc") ELSE UNCHANGED flags
  /\ UNCHANGED <<fields, access, program>>
Protected(o) == metatable[o] # Null /\ Field(metatable[o], "__metatable") # Nil
luaB_setmetatable(t, mt) == ~Protected(t) /\ SetMetatable(t, mt)

(* Two tables: the metamethod of the second when the first has none.       *)
luaV_equalobj(t1, t2) ==
  /\ Free
  /\ t1 # t2
  /\ LET tm1 == fasttm(metatable[t1], "__eq")
         tm2 == fasttm(metatable[t2], "__eq")
         tm == IF notm(tm1) THEN tm2 ELSE tm1
     IN /\ access' = Done(IF notm(tm) THEN Nil ELSE Call(tm, t1))
        /\ Remember(Missed(metatable[t1], "__eq") \cup (IF notm(tm1) THEN Missed(metatable[t2], "__eq") ELSE {}), "__eq")
  /\ UNCHANGED <<fields, metatable, program>>
luaV_objlen(t) ==
  /\ Free
  /\ LET tm == fasttm(metatable[t], "__len")
     IN access' = Done(IF notm(tm) THEN Nil ELSE Call(tm, t))
  /\ Remember(Missed(metatable[t], "__len"), "__len")
  /\ UNCHANGED <<fields, metatable, program>>

(* The collector reads __mode, and clears fields of weak tables.           *)
getmode(t) ==
  /\ Free
  /\ Remember(Missed(metatable[t], "__mode"), "__mode")
  /\ UNCHANGED <<fields, metatable, access, program>>
Clear(t, k) ==
  /\ Free
  /\ fields[t][k] \in Tables \cup {Function}
  /\ Store(t, k, Nil)
  /\ UNCHANGED <<flags, metatable, access, program>>

Fits(k, v) ==       \* what programs put in a field
  CASE v = Nil -> TRUE
    [] k \in {"__index", "__newindex"} -> v # Other
    [] k \in {"x", "n"} -> v = Other
    [] OTHER -> v = Function
Assignments == {a \in program \X (Values \cup {Nil}) : Fits(a[1], a[2])}

Next ==
  \/ \E o \in Objects, k \in program : Get(o, k)
  \/ luaV_finishget \/ Return
  \/ \E o \in Objects, a \in Assignments, room \in BOOLEAN : Set(o, a[1], a[2], room)
  \/ \E room \in BOOLEAN : luaV_finishset(room)
  \/ \E t \in Tables, a \in Assignments : RawSet(t, a[1], a[2])
  \/ \E o \in Objects, mt \in Tables \cup {Null} : SetMetatable(o, mt)
  \/ \E t \in Tables, mt \in Tables \cup {Null} : luaB_setmetatable(t, mt)
  \/ \E t1, t2 \in Tables : luaV_equalobj(t1, t2)
  \/ \E t \in Tables : luaV_objlen(t) \/ getmode(t) \/ \E k \in program : Clear(t, k)
Spec == Init /\ [][Next]_vars

----------------------------------------------------------------------------
(* What the cache says is absent is absent: whatever was assigned, by what *)
(* path, the next access finds its metamethod.                             *)
CacheSound == \A t \in Tables : \A e \in flags[t] \cap Keys : fields[t][e] = Nil

----------------------------------------------------------------------------
(* What indexing and assignment mean, of objects that have no cache.       *)

Meta(o, e) == IF o = Function \/ metatable[o] = Null THEN Nil ELSE Field(metatable[o], e)
Far == Cardinality(Objects) + 1

(* The value of o[k]: a chain of metamethods longer than there are objects *)
(* never ends.                                                             *)
Index(o, k) ==
  LET index[x \in Values, n \in 0..Far] ==
        IF HasField(x, k) THEN fields[x][k]
        ELSE LET tm == Meta(x, "__index")
             IN CASE tm = Nil -> IF x \in Tables THEN Nil ELSE Error
                  [] tm = Function -> Call(tm, x)
                  [] OTHER -> IF n = 0 THEN TooLong ELSE index[tm, n - 1]
  IN index[o, Far]
(* Where o[k] = v goes: to a table, or to a call.                          *)
Target(o, k) ==
  LET target[x \in Values, n \in 0..Far] ==
        IF HasField(x, k) THEN <<"table", x>>
        ELSE LET tm == Meta(x, "__newindex")
             IN CASE tm = Nil -> IF x \in Tables THEN <<"table", x>> ELSE Error
                  [] tm = Function -> Call(tm, x)
                  [] OTHER -> IF n = 0 THEN TooLong ELSE target[tm, n - 1]
  IN target[o, Far]

Answer == IF access.op = "get" THEN Index(access.o, access.k) ELSE access.result
LooksUp ==
  access.op = "get" \/ (Free /\ access'.op = "get") =>
    IF Free THEN Answer' = Index(access'.o, access'.k) ELSE Answer' = Answer

Arrives(o, k, v) ==
  LET at == Target(o, k)
  IN IF at[1] = "table" THEN fields' = [fields EXCEPT ![at[2]][k] = v]
     ELSE access'.result = at /\ fields' = fields
Assigned ==
  /\ access.op = "set" =>
       IF access'.op = "set" THEN Target(access.o, access.k) = Target(access'.o, access'.k)
       ELSE Arrives(access.o, access.k, access.v)
  /\ \A o \in Objects, a \in Assignments, room \in BOOLEAN :
       Set(o, a[1], a[2], room) /\ access'.op = "done" => Arrives(o, a[1], a[2])
(* Every turn of the search leaves the answer as it was, and the last one  *)
(* returns it.  An assignment ends in the table, or the call, that the     *)
(* metamethods lead to, on the fast path and on the long one.              *)
AccessIsAsMeant == [][LooksUp /\ Assigned]_vars
=============================================================================
