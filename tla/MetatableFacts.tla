--------------------------- MODULE MetatableFacts ---------------------------
(***************************************************************************)
(* The cache of absent metamethods is sound, however many tables there are *)
(* and whatever programs do with them.  Only two kinds of steps can harm   *)
(* it: one that stores a field, and one that remembers an absence.         *)
(***************************************************************************)
EXTENDS Metatables, TLAPS

Stored == Values \cup {Nil}
FieldsOK == fields \in [Tables -> [Keys -> Stored]]
FlagsOK == flags \in [Tables -> SUBSET Cached]
MetatableOK == metatable \in [Objects -> Tables \cup {Null}]
AccessOK ==
  access.op = "set" => access \in [op : {"set"}, o : Values, k : program, v : Stored, loop : Nat]
Types == program \in Programs /\ FieldsOK /\ FlagsOK /\ MetatableOK /\ AccessOK
CacheInv == Types /\ CacheSound

(* The fields that a program uses are keys.                                *)
LEMMA ProgramKeys == ASSUME program \in Programs PROVE program \subseteq Keys
  BY DEF Keys

(* Remembering the absence of absent fields keeps the cache sound.         *)
LEMMA RememberKeeps ==
  ASSUME CacheInv, UNCHANGED fields, NEW e \in Cached, NEW mts \in SUBSET Tables,
         \A t \in mts : fields[t][e] = Nil,
         flags' = [t \in Tables |-> IF t \in mts THEN flags[t] \cup {e} ELSE flags[t]]
  PROVE  CacheSound' /\ FieldsOK' /\ FlagsOK'
  BY DEF CacheInv, Types, FieldsOK, FlagsOK, CacheSound, Stored

(* What fasttm misses is absent.                                           *)
LEMMA MissedIsAbsent ==
  ASSUME CacheInv, NEW mt \in Tables \cup {Null}, NEW e
  PROVE  Missed(mt, e) \in SUBSET Tables /\ \A t \in Missed(mt, e) : fields[t][e] = Nil
  BY DEF Missed, checknoTM, notm

LEMMA RememberMissed ==
  ASSUME CacheInv, UNCHANGED fields, NEW e \in Cached, NEW mt \in Tables \cup {Null}, Remember(Missed(mt, e), e)
  PROVE  CacheSound' /\ FieldsOK' /\ FlagsOK'
  BY MissedIsAbsent, RememberKeeps DEF Remember

(* A store keeps it sound if the field is not, or no longer, cached.       *)
LEMMA StoreKeeps ==
  ASSUME CacheInv, NEW t \in Tables, NEW k \in program, NEW v \in Stored, Store(t, k, v),
         FlagsOK', \A u \in Tables \ {t} : flags'[u] = flags[u],
         flags'[t] \subseteq flags[t], k \notin flags'[t]
  PROVE  CacheSound' /\ FieldsOK'
<1>1. k \in Keys
  BY ProgramKeys DEF CacheInv, Types
<1>2. fields \in [Tables -> [Keys -> Stored]]
  BY DEF CacheInv, Types, FieldsOK
<1>3. fields' = [fields EXCEPT ![t][k] = v]
  BY DEF Store
<1>4. FieldsOK'
  BY <1>1, <1>2, <1>3 DEF FieldsOK, Stored, Values
<1>5. ASSUME NEW u \in Tables, NEW e \in flags'[u] \cap Keys
      PROVE  fields'[u][e] = Nil
  <2>1. e \in flags[u] /\ fields[u][e] = Nil
    BY <1>5 DEF CacheInv, CacheSound
  <2>2. u # t \/ e # k
    OBVIOUS
  <2> QED
    BY <1>1, <1>2, <1>3, <2>1, <2>2
<1> QED
  BY <1>4, <1>5 DEF CacheSound

(* Only the key of the array is assigned to without clearing the cache,    *)
(* and a field that has a value is not cached.                             *)
LEMMA FieldNotCached ==
  ASSUME CacheInv, NEW t \in Tables, NEW k \in program, HasField(t, k) \/ k \in IntKeys
  PROVE  k \notin flags[t]
<1>1. CASE k \in IntKeys
  BY <1>1 DEF IntKeys, CacheInv, Types, FlagsOK, Cached
<1>2. CASE HasField(t, k)
  BY <1>2, ProgramKeys DEF CacheInv, Types, CacheSound, HasField
<1> QED
  BY <1>1, <1>2

LEMMA PsetKeeps ==
  ASSUME CacheInv, NEW t \in Tables, NEW k \in program, NEW v \in Stored, pset(t, k, v)
  PROVE  CacheSound' /\ FieldsOK' /\ FlagsOK'
<1> USE DEF CacheInv, Types
<1>1. CASE HasField(t, k) \/ k \in IntKeys
  <2>1. Store(t, k, v) /\ UNCHANGED flags
    BY <1>1 DEF pset
  <2> QED
    BY <1>1, <2>1, FieldNotCached, StoreKeeps DEF FlagsOK
<1>2. CASE ~(HasField(t, k) \/ k \in IntKeys) /\ v = Nil
  <2>1. UNCHANGED <<fields, flags>>
    BY <1>2 DEF pset
  <2> QED
    BY <2>1 DEF FlagsOK, FieldsOK, CacheSound
<1>3. CASE ~(HasField(t, k) \/ k \in IntKeys) /\ v # Nil
  <2>1. Store(t, k, v) /\ flags' = [flags EXCEPT ![t] = {}]
    BY <1>3 DEF pset, invalidateTMcache
  <2>2. FlagsOK' /\ flags'[t] = {} /\ \A u \in Tables \ {t} : flags'[u] = flags[u]
    BY <2>1 DEF FlagsOK
  <2> QED
    BY <2>1, <2>2, StoreKeeps
<1> QED
  BY <1>1, <1>2, <1>3

(* A step of the search keeps its place among the values.                  *)
LEMMA FieldIsValue ==
  ASSUME CacheInv, NEW mt \in Tables, NEW e PROVE Field(mt, e) \in Stored
  BY ProgramKeys DEF Field, CacheInv, Types, FieldsOK, Stored

LEMMA MethodIsValue ==
  ASSUME CacheInv, NEW o \in Values, NEW e PROVE Method(o, e) \in Stored
<1>1. o \in Tables => metatable[o] \in Tables \cup {Null}
  BY DEF CacheInv, Types, MetatableOK, Objects
<1>2. o \notin Tables /\ o # Function => metatable[o] \in Tables \cup {Null}
  BY DEF CacheInv, Types, MetatableOK, Objects, Values
<1> QED
  BY <1>1, <1>2, FieldIsValue DEF Method, fasttm, checknoTM, gettmbyobj, Stored

LEMMA MetaOfObject ==
  ASSUME CacheInv, NEW o \in Tables PROVE metatable[o] \in Tables \cup {Null}
  BY DEF CacheInv, Types, MetatableOK, Objects

(* A step that changes neither fields nor flags leaves the cache as it is. *)
LEMMA CacheUnchanged ==
  ASSUME CacheInv, UNCHANGED <<fields, flags>> PROVE CacheSound' /\ FieldsOK' /\ FlagsOK'
  BY DEF CacheInv, Types, FieldsOK, FlagsOK, CacheSound

LEMMA LooksUpKeeps ==
  ASSUME CacheInv, UNCHANGED fields, NEW o, NEW e \in Cached, Looked(o, e)
  PROVE  CacheSound' /\ FieldsOK' /\ FlagsOK'
<1>1. CASE o \in Tables
  BY <1>1, MetaOfObject, RememberMissed DEF Looked
<1>2. CASE o \notin Tables
  <2>1. flags' = flags
    BY <1>2 DEF Looked, Remember, CacheInv, Types, FlagsOK
  <2> QED
    BY <2>1, CacheUnchanged
<1> QED
  BY <1>1, <1>2

LEMMA SearchIsTyped ==
  ASSUME CacheInv, access.op = "set", NEW tm \in Values, access' = Next1(tm), UNCHANGED program
  PROVE  AccessOK'
<1>1. access \in [op : {"set"}, o : Values, k : program, v : Stored, loop : Nat]
  BY DEF CacheInv, Types, AccessOK
<1>2. access' = [op |-> "set", o |-> tm, k |-> access.k, v |-> access.v, loop |-> access.loop + 1]
  BY <1>1 DEF Next1
<1>3. access.loop + 1 \in Nat /\ access.k \in program /\ access.v \in Stored
  BY <1>1
<1> QED
  BY <1>2, <1>3 DEF AccessOK, Stored, Values

(* The steps, in the order of the model.                                   *)
LEMMA GetKeeps ==
  ASSUME CacheInv, NEW o \in Objects, NEW k \in program, Get(o, k) PROVE CacheInv'
<1>1. access'.op # "set"
  BY DEF Get, Done
<1> QED
  BY <1>1, CacheUnchanged DEF Get, CacheInv, Types, MetatableOK, AccessOK

LEMMA FinishGetKeeps ==
  ASSUME CacheInv, luaV_finishget PROVE CacheInv'
<1> DEFINE tm == Method(access.o, "__index")
<1>1. access'.op # "set"
  <2>1. CASE access.loop = MAXTAGLOOP
    BY <2>1 DEF luaV_finishget, Done
  <2>2. CASE access.loop # MAXTAGLOOP
    <3>1. Next1(tm).op = "get"
      BY DEF luaV_finishget, Next1
    <3> QED
      BY <2>2, <3>1 DEF luaV_finishget, Done
  <2> QED
    BY <2>1, <2>2
<1>2. UNCHANGED flags \/ Looked(access.o, "__index")
  BY DEF luaV_finishget
<1>3. CacheSound' /\ FieldsOK' /\ FlagsOK'
  BY <1>2, CacheUnchanged, LooksUpKeeps DEF luaV_finishget, Cached
<1> QED
  BY <1>1, <1>3 DEF luaV_finishget, CacheInv, Types, MetatableOK, AccessOK

LEMMA SetKeeps ==
  ASSUME CacheInv, NEW o \in Objects, NEW k \in program, NEW v \in Stored, NEW room, Set(o, k, v, room)
  PROVE  CacheInv'
<1>1. CASE o \in Tables /\ psets(o, k, v, room)
  <2>1. pset(o, k, v) /\ access'.op # "set"
    BY <1>1 DEF Set, Done
  <2> QED
    BY <1>1, <2>1, PsetKeeps DEF Set, CacheInv, Types, MetatableOK, AccessOK
<1>2. CASE ~(o \in Tables /\ psets(o, k, v, room))
  <2>1. AccessOK'
    BY <1>2 DEF Set, AccessOK, Objects, Values
  <2> QED
    BY <1>2, <2>1, CacheUnchanged DEF Set, CacheInv, Types, MetatableOK
<1> QED
  BY <1>1, <1>2

LEMMA FinishSetKeeps ==
  ASSUME CacheInv, NEW room, luaV_finishset(room) PROVE CacheInv'
<1> DEFINE o == access.o
           tm == Method(o, "__newindex")
<1>1. o \in Values /\ access.k \in program /\ access.v \in Stored
  BY DEF luaV_finishset, CacheInv, Types, AccessOK
<1>2. CacheSound' /\ FieldsOK' /\ FlagsOK' /\ AccessOK'
  <2>1. CASE access.loop # MAXTAGLOOP /\ notm(tm) /\ o \in Tables
    <3> DEFINE remembered == Missed(metatable[o], "__newindex")
               before(t) == IF t \in remembered THEN flags[t] \cup {"__newindex"} ELSE flags[t]
    <3>1. access' = Done(Nil) /\ Store(o, access.k, access.v)
          /\ flags' = Cleared(o, remembered)
      BY <2>1 DEF luaV_finishset
    <3>2. remembered \in SUBSET Tables /\ \A t \in remembered : fields[t]["__newindex"] = Nil
      BY <2>1, MetaOfObject, MissedIsAbsent
    <3>3. FlagsOK'
      BY <3>1, <3>2 DEF CacheInv, Types, FlagsOK, Cached, Cleared
    <3>4. fields \in [Tables -> [Keys -> Stored]] /\ access.k \in Keys
      BY <1>1, ProgramKeys DEF CacheInv, Types, FieldsOK
    <3>5. fields' = [fields EXCEPT ![o][access.k] = access.v]
      BY <3>1 DEF Store
    <3>6. FieldsOK'
      BY <1>1, <3>4, <3>5 DEF FieldsOK, Stored, Values
    <3>7. ASSUME NEW t \in Tables, NEW e \in flags'[t] \cap Keys PROVE fields'[t][e] = Nil
      <4>1. t # o /\ e \in before(t)
        BY <3>1, <3>7 DEF Cleared
      <4>2. fields[t][e] = Nil
        BY <3>2, <4>1, <3>7 DEF CacheInv, CacheSound
      <4> QED
        BY <3>4, <3>5, <4>1, <4>2
    <3> QED
      BY <3>1, <3>3, <3>6, <3>7 DEF CacheSound, AccessOK, Done
  <2>2. CASE tm \in Tables /\ psets(tm, access.k, access.v, room) /\ access.loop # MAXTAGLOOP /\ ~notm(tm) /\ tm # Function
    <3>1. access' = Done(Nil) /\ pset(tm, access.k, access.v)
      BY <2>2 DEF luaV_finishset
    <3> QED
      BY <1>1, <2>2, <3>1, PsetKeeps DEF AccessOK, Done
  <2>3. CASE access.loop # MAXTAGLOOP /\ ~notm(tm) /\ tm # Function /\ ~(tm \in Tables /\ psets(tm, access.k, access.v, room))
    <3>1. access' = Next1(tm) /\ UNCHANGED <<fields, flags>>
      BY <2>3 DEF luaV_finishset
    <3>2. tm \in Values
      BY <1>1, <2>3, MethodIsValue DEF notm, Stored
    <3> QED
      BY <3>1, <3>2, CacheUnchanged, SearchIsTyped DEF luaV_finishset
  <2>4. CASE access.loop = MAXTAGLOOP \/ (notm(tm) /\ o \notin Tables) \/ (~notm(tm) /\ tm = Function)
    <3>1. UNCHANGED <<fields, flags>> /\ access'.op # "set"
      BY <2>4 DEF luaV_finishset, Done
    <3> QED
      BY <3>1, CacheUnchanged DEF AccessOK
  <2> QED
    BY <2>1, <2>2, <2>3, <2>4
<1> QED
  BY <1>2 DEF luaV_finishset, CacheInv, Types, MetatableOK

LEMMA RawSetKeeps ==
  ASSUME CacheInv, NEW t \in Tables, NEW k \in program, NEW v \in Stored, RawSet(t, k, v)
  PROVE  CacheInv'
<1>1. CASE k \in IntKeys
  <2>1. UNCHANGED flags /\ FlagsOK' /\ Store(t, k, v)
    BY <1>1 DEF RawSet, CacheInv, Types, FlagsOK
  <2> QED
    BY <1>1, <2>1, FieldNotCached, StoreKeeps DEF RawSet, CacheInv, Types, MetatableOK, AccessOK
<1>2. CASE k \notin IntKeys
  <2>1. Store(t, k, v) /\ flags' = [flags EXCEPT ![t] = {}]
    BY <1>2 DEF RawSet, invalidateTMcache
  <2>2. FlagsOK' /\ flags'[t] = {} /\ \A u \in Tables \ {t} : flags'[u] = flags[u]
    BY <2>1 DEF CacheInv, Types, FlagsOK
  <2> QED
    BY <2>1, <2>2, StoreKeeps DEF RawSet, CacheInv, Types, MetatableOK, AccessOK
<1> QED
  BY <1>1, <1>2

LEMMA SetMetatableKeeps ==
  ASSUME CacheInv, NEW o \in Objects, NEW mt \in Tables \cup {Null}, SetMetatable(o, mt) PROVE CacheInv'
<1>1. UNCHANGED flags \/ Remember(Missed(mt, "__gc"), "__gc")
  BY DEF SetMetatable
<1>2. CacheSound' /\ FieldsOK' /\ FlagsOK'
  BY <1>1, CacheUnchanged, RememberMissed DEF SetMetatable, Cached
<1> QED
  BY <1>2 DEF SetMetatable, CacheInv, Types, MetatableOK, AccessOK

LEMMA EqualKeeps ==
  ASSUME CacheInv, NEW t1 \in Tables, NEW t2 \in Tables, luaV_equalobj(t1, t2) PROVE CacheInv'
<1> DEFINE missed == Missed(metatable[t1], "__eq") \cup
             (IF notm(fasttm(metatable[t1], "__eq")) THEN Missed(metatable[t2], "__eq") ELSE {})
<1>1. missed \in SUBSET Tables /\ \A t \in missed : fields[t]["__eq"] = Nil
  BY MetaOfObject, MissedIsAbsent
<1>2. Remember(missed, "__eq") /\ access'.op # "set" /\ UNCHANGED <<fields, metatable, program>>
  BY DEF luaV_equalobj, Done
<1>3. CacheSound' /\ FieldsOK' /\ FlagsOK'
  BY <1>1, <1>2, RememberKeeps DEF Remember, Cached
<1> QED
  BY <1>2, <1>3 DEF CacheInv, Types, MetatableOK, AccessOK

LEMMA LengthKeeps ==
  ASSUME CacheInv, NEW t \in Tables, luaV_objlen(t) \/ getmode(t) PROVE CacheInv'
<1>1. CASE luaV_objlen(t)
  <2>1. CacheSound' /\ FieldsOK' /\ FlagsOK'
    BY <1>1, MetaOfObject, RememberMissed DEF luaV_objlen, Cached
  <2>2. access'.op # "set"
    BY <1>1 DEF luaV_objlen, Done
  <2> QED
    BY <1>1, <2>1, <2>2 DEF luaV_objlen, CacheInv, Types, MetatableOK, AccessOK
<1>2. CASE getmode(t)
  <2>1. CacheSound' /\ FieldsOK' /\ FlagsOK'
    BY <1>2, MetaOfObject, RememberMissed DEF getmode, Cached
  <2> QED
    BY <1>2, <2>1 DEF getmode, CacheInv, Types, MetatableOK, AccessOK
<1> QED
  BY <1>1, <1>2

LEMMA ClearKeeps ==
  ASSUME CacheInv, NEW t \in Tables, NEW k \in program, Clear(t, k) PROVE CacheInv'
<1>1. HasField(t, k)
  BY MetatableAssumption DEF Clear, HasField, Values
<1>2. Store(t, k, Nil) /\ UNCHANGED flags /\ FlagsOK'
  BY DEF Clear, CacheInv, Types, FlagsOK
<1>3. CacheSound' /\ FieldsOK'
  BY <1>1, <1>2, FieldNotCached, StoreKeeps DEF CacheInv, Types, FlagsOK, Stored
<1> QED
  BY <1>2, <1>3 DEF Clear, CacheInv, Types, MetatableOK, AccessOK

----------------------------------------------------------------------------
LEMMA CacheStep == CacheInv /\ [Next]_vars => CacheInv'
<1> SUFFICES ASSUME CacheInv, [Next]_vars PROVE CacheInv'
  OBVIOUS
<1>1. ASSUME NEW o \in Objects, NEW k \in program, Get(o, k) PROVE CacheInv'
  BY <1>1, GetKeeps
<1>2. CASE luaV_finishget
  BY <1>2, FinishGetKeeps
<1>3. CASE Return
  BY <1>3, CacheUnchanged DEF Return, Idle, CacheInv, Types, MetatableOK, AccessOK
<1>4. ASSUME NEW o \in Objects, NEW a \in Assignments, NEW room \in BOOLEAN, Set(o, a[1], a[2], room)
      PROVE  CacheInv'
  BY <1>4, SetKeeps DEF Assignments, Stored
<1>5. ASSUME NEW room \in BOOLEAN, luaV_finishset(room) PROVE CacheInv'
  BY <1>5, FinishSetKeeps
<1>6. ASSUME NEW t \in Tables, NEW a \in Assignments, RawSet(t, a[1], a[2]) PROVE CacheInv'
  BY <1>6, RawSetKeeps DEF Assignments, Stored
<1>7. ASSUME NEW o \in Objects, NEW mt \in Tables \cup {Null}, SetMetatable(o, mt) PROVE CacheInv'
  BY <1>7, SetMetatableKeeps
<1>8. ASSUME NEW t \in Tables, NEW mt \in Tables \cup {Null}, luaB_setmetatable(t, mt) PROVE CacheInv'
  BY <1>8, SetMetatableKeeps DEF luaB_setmetatable, Objects
<1>9. ASSUME NEW t1 \in Tables, NEW t2 \in Tables, luaV_equalobj(t1, t2) PROVE CacheInv'
  BY <1>9, EqualKeeps
<1>10. ASSUME NEW t \in Tables, luaV_objlen(t) \/ getmode(t) PROVE CacheInv'
  BY <1>10, LengthKeeps
<1>11. ASSUME NEW t \in Tables, NEW k \in program, Clear(t, k) PROVE CacheInv'
  BY <1>11, ClearKeeps
<1>12. CASE UNCHANGED vars
  BY <1>12, CacheUnchanged DEF vars, CacheInv, Types, MetatableOK, AccessOK
<1> QED
  BY <1>1, <1>2, <1>3, <1>4, <1>5, <1>6, <1>7, <1>8, <1>9, <1>10, <1>11, <1>12 DEF Next

LEMMA CacheInit == Init => CacheInv
  BY DEF Init, CacheInv, Types, FieldsOK, FlagsOK, MetatableOK, AccessOK, CacheSound, Stored, Idle

(* Whatever a program assigns, and by what path, a metamethod that flags   *)
(* says is absent is absent (the flags of ltable.c, lvm.c, ltm.c, lapi.c). *)
THEOREM CacheIsSound == Spec => []CacheSound
<1>1. CacheInv => CacheSound
  BY DEF CacheInv
<1> QED
  BY <1>1, CacheInit, CacheStep, PTL DEF Spec
=============================================================================
