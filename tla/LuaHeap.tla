------------------------------ MODULE LuaHeap ------------------------------
(***************************************************************************)
(* A program and the collector at work on one heap.  The program holds     *)
(* objects on the stack of the main thread, makes new ones and stores and  *)
(* loads references; between any two of its steps the collector may make   *)
(* one of its own (luaC_step runs when the debt is paid, which may be at   *)
(* any allocation).                                                        *)
(*                                                                         *)
(* agenda is what a call of the collector still has to do before the       *)
(* program goes on: states to reach (luaC_runtilstate), and what comes     *)
(* then.                                                                   *)
(***************************************************************************)
EXTENDS LuaGC, FiniteSets

CONSTANTS Kinds,      \* the kinds the objects may have: functions from Obj
          MaxStack,   \* objects the program holds at a time
          SweepMax,   \* GCSWEEPMAX
          Modes(_),        \* modes the program may choose, by kinds of objects
          Finalizable(_),  \* the objects, tables and userdata, that may get finalizers
          MayFail(_),      \* whether allocations may fail
          SameText(_, _)   \* whether two strings have the same text

VARIABLES agenda, finalizing, emergency, closing

heapVars == <<g, agenda, finalizing, emergency, closing>>

Zero == [o \in Obj |-> Null]
HeapInit ==
  /\ \E kind \in Kinds :
       g = [kind |-> kind, live |-> {Main}, stack |-> {},
            color |-> [o \in Obj |-> "w0"], age |-> [o \in Obj |-> "new"],
            finalized |-> [o \in Obj |-> FALSE], key |-> Zero, val |-> Zero, owner |-> Zero,
            allgc |-> <<Main>>, finobj |-> <<>>, tobefnz |-> <<>>,
            gray |-> <<>>, grayagain |-> <<>>, weak |-> <<>>, ephemeron |-> <<>>, allweak |-> <<>>,
            twups |-> <<>>, strcache |-> Null,
            gcstate |-> "pause", currentwhite |-> 0, gckind |-> "inc", sweepgc |-> Null,
            survival |-> Null, old1 |-> Null, reallyold |-> Null, firstold1 |-> Null,
            finobjsur |-> Null, finobjold1 |-> Null, finobjrold |-> Null,
            origweak |-> <<>>, origall |-> <<>>, changed |-> FALSE, kept |-> <<>>, asserts |-> TRUE]
  /\ agenda = <<>> /\ finalizing = Null /\ emergency = FALSE /\ closing = FALSE

Running == ~emergency /\ (agenda = <<>> \/ finalizing # Null)
Held(o) == o \in g.stack
Only(h) == g' = h /\ UNCHANGED <<agenda, finalizing, emergency, closing>>
Push(h, o) == [h EXCEPT !.stack = IF o \in Obj THEN @ \cup {o} ELSE @]

----------------------------------------------------------------------------
(* The program.                                                            *)

newobj(h, o) == [h EXCEPT !.live = @ \cup {o}, !.color[o] = white(h), !.allgc = <<o>> \o @]
Allocate(o) == o \notin g.live /\ g.kind[o] # "upval"
New(o) ==
  /\ Running /\ Allocate(o) /\ g.kind[o] # "str"
  /\ Only(Push(newobj(g, o), o))

(* A slip: a dead string is not looked at.                                 *)
internAnew(o) ==
  LET free == {p \in Obj \ g.live : g.kind[p] = "str"}
  IN CASE \E s \in g.live : g.kind[s] = "str" /\ SameText(s, o) /\ ~isdead(g, s) -> g
       [] free # {} -> newobj(g, CHOOSE p \in free : TRUE)
       [] OTHER -> makewhite(g, o)
(* A short string is made once; a dead one that is not yet freed is taken  *)
(* again.                                                                  *)
intern(o) ==
  LET same == {s \in g.live : g.kind[s] = "str" /\ SameText(s, o)}
      s == CHOOSE s \in same : TRUE
  IN IF same = {} THEN newobj(g, o) ELSE IF isdead(g, s) THEN makewhite(g, s) ELSE g
TextOf(h, o) == CHOOSE s \in h.live : h.kind[s] = "str" /\ SameText(s, o) /\ ~isdead(h, s)
(* From a C string: the cache is asked first.                              *)
luaS_new(o) == IF g.strcache # Null /\ SameText(g.strcache, o) THEN g
               ELSE LET h == intern(o) IN [h EXCEPT !.strcache = TextOf(h, o)]
NewString(o) ==
  /\ Running /\ g.kind[o] = "str"
  /\ \E h \in {intern(o), luaS_new(o)} : Only(Push(h, TextOf(h, o)))

Pop(o) == Running /\ Held(o) /\ o # finalizing /\ Only([g EXCEPT !.stack = @ \ {o}])

Load(o) ==
  /\ Running /\ Held(o)
  /\ \E v \in {g.key[o], IF g.kind[o] = "closure" /\ g.val[o] \in Obj /\ g.kind[g.val[o]] = "upval"
                         THEN Content(g, g.val[o]) ELSE g.val[o]} :
       v \in Obj /\ Only(Push(g, v))

(* Storing in a table: a new key, then the value.                          *)
setfield(h, t, k, v) ==
  LET h1 == [h EXCEPT !.key[t] = k, !.val[t] = v]
  IN barrierback(IF h.val[t] = Null THEN barrierback(h1, t, k) ELSE h1, t, v)
KeysOf(t) == {Plain} \cup (IF g.kind[t] \in {"weakk", "allweak"} THEN g.stack ELSE {})
StoreField(t) ==
  /\ Running /\ Held(t) /\ g.kind[t] \in Tables
  /\ \/ \E k \in KeysOf(t), v \in g.stack :
          /\ (g.val[t] = Null \/ g.key[t] = k)
          /\ Only(setfield(g, t, k, v))
     \/ g.val[t] # Null /\ Only(Emptied(g, t))
StoreUservalue(u) ==
  /\ Running /\ Held(u) /\ g.kind[u] = "udata"
  /\ \E v \in g.stack : Only(barrierback([g EXCEPT !.val[u] = v], u, v))
(* The upvalue of a closure: of a C closure it is the value, of a Lua      *)
(* closure an object that has it, open or not.                             *)
StoreUpvalue(c) ==
  /\ Running /\ Held(c) /\ g.kind[c] = "closure"
  /\ \E v \in g.stack :
       IF g.val[c] \in Obj /\ g.kind[g.val[c]] = "upval"
       THEN LET u == g.val[c]
                at == IF g.owner[u] = Null THEN u ELSE g.owner[u]
            IN Only(barrier([g EXCEPT !.val[at] = v], u, v))
       ELSE Only(barrier([g EXCEPT !.val[c] = v], c, v))

(* A coroutine: its stack, a closure made there, the end of a function.    *)
StoreStack(th) ==
  /\ Running /\ Held(th) /\ g.kind[th] = "thread"
  /\ \E v \in g.stack : Only([g EXCEPT !.val[th] = v])
newupval(h0, th, u) ==
  LET h == [newobj(h0, u) EXCEPT !.owner[u] = th]
  IN IF Contains(h.twups, th) THEN h ELSE [h EXCEPT !.twups = <<th>> \o @]
pushclosure(th, c) ==
  /\ Running /\ Held(th) /\ g.kind[th] = "thread" /\ g.kind[c] = "closure" /\ Allocate(c)
  /\ \E u \in Obj :
       /\ g.kind[u] = "upval"
       /\ IF OpenUpvals(g, th) = {} THEN u \notin g.live ELSE u \in OpenUpvals(g, th)
       /\ LET h1 == Push(newobj(g, c), c)
              h2 == IF u \in g.live THEN h1 ELSE newupval(h1, th, u)
          IN Only(barrier([h2 EXCEPT !.val[c] = u], c, u))
FunctionEnds(th) ==
  /\ Running /\ Held(th) /\ g.kind[th] = "thread" /\ g.val[th] # Null
  /\ Only([closeupval(g, th) EXCEPT !.val[th] = Null])

SetFinalizer(o) ==
  /\ Running /\ Held(o) /\ o \in Finalizable(g.kind)
  /\ ~g.finalized[o] /\ ~closing
  /\ Only(checkfinalizer(g, o))

----------------------------------------------------------------------------
(* The collector.                                                          *)

FinalizersWait(h) == h.tobefnz # <<>> /\ ~emergency

(* At once, but for the finalizers that run on the way.                    *)
Waits(h) == h.gcstate = "callfin" /\ FinalizersWait(h)
Step ==
  /\ Running /\ finalizing = Null /\ ~closing /\ g.gckind # "genminor"
  /\ ~Waits(g)
  /\ \E back \in {FALSE} \cup {g.gckind = "genmajor"} :
       /\ g' = singlestep(g, FALSE, back, SweepMax)
       /\ agenda' = IF back /\ g.gcstate = "enteratomic" THEN <<"in step">> ELSE agenda
  /\ UNCHANGED <<finalizing, emergency, closing>>

(* A whole young collection, and whether a major one follows.              *)
Young ==
  /\ Running /\ finalizing = Null /\ ~closing /\ g.gckind = "genminor"
  /\ \E major \in BOOLEAN :
       /\ g' = youngcollection(g, major)
       /\ agenda' = IF major THEN <<>> ELSE <<"finalizers">>
  /\ UNCHANGED <<finalizing, emergency, closing>>

(* What a full collection does at once, and what it has left to do.        *)
entergen == <<"pause", "propagate", "generational">>
FullStart(h) ==
  IF h.gckind = "genminor" THEN minor2inc(h, "inc")
  ELSE LET h1 == [h EXCEPT !.gckind = "inc"] IN IF keepinvariant(h1) THEN entersweep(h1) ELSE h1
FullRest(h) == CASE h.gckind = "genminor" -> entergen
                 [] h.gckind = "inc" -> <<"pause", "callfin", "pause">>
                 [] h.gckind = "genmajor" -> <<"pause", "callfin", "pause", "major">>
Collect ==
  /\ Running /\ finalizing = Null /\ ~closing
  /\ g' = FullStart(g) /\ agenda' = FullRest(g)
  /\ UNCHANGED <<finalizing, emergency, closing>>
(* An allocation fails: a full collection, in which no finalizer runs,     *)
(* wherever the program is.                                                *)
Emergency ==
  /\ Running /\ ~closing /\ MayFail(g.kind) /\ (agenda # <<>> => Head(agenda) # "in step")
  /\ g' = FullStart(g) /\ agenda' = FullRest(g) \o <<"end">> \o agenda /\ emergency' = TRUE
  /\ UNCHANGED <<finalizing, closing>>

ChangeMode(mode) ==
  /\ Running /\ finalizing = Null /\ ~closing
  /\ LET h == IF g.gckind = "genmajor" THEN [g EXCEPT !.gckind = "inc"] ELSE g
     IN \/ mode # h.gckind /\ mode = "inc" /\ g' = minor2inc(h, "inc") /\ UNCHANGED agenda
        \/ mode # h.gckind /\ mode = "genminor" /\ g' = h /\ agenda' = entergen
        \/ mode = h.gckind /\ g' = h /\ UNCHANGED agenda
  /\ UNCHANGED <<finalizing, emergency, closing>>

Reaching == {"pause", "propagate", "callfin"}
AtWork == agenda # <<>> /\ (finalizing = Null \/ emergency)
Do(what) == AtWork /\ Head(agenda) = what
Forget == agenda' = Tail(agenda)
RECURSIVE RunTo(_, _)
RunTo(h, state) ==
  IF h.gcstate = state \/ Waits(h) THEN h
  ELSE RunTo(singlestep(h, TRUE, FALSE, Cardinality(Obj) + 1), state)
runtilstate ==
  /\ AtWork /\ Head(agenda) \in Reaching
  /\ Waits(g) => g.gcstate = Head(agenda)
  /\ g' = RunTo(g, Head(agenda))
  /\ agenda' = IF g'.gcstate = Head(agenda) THEN Tail(agenda) ELSE agenda
  /\ UNCHANGED <<finalizing, emergency, closing>>
Generational ==
  /\ Do("generational")
  /\ g' = atomic2gen(atomic(g))
  /\ agenda' = (IF emergency THEN <<>> ELSE <<"finalizers">>) \o Tail(agenda)
  /\ UNCHANGED <<finalizing, emergency, closing>>
Major == /\ Do("major") /\ Forget /\ g' = [g EXCEPT !.gckind = "genmajor"]
         /\ UNCHANGED <<finalizing, emergency, closing>>
EndEmergency == Do("end") /\ Forget /\ emergency' = FALSE /\ UNCHANGED <<g, finalizing, closing>>
NoMoreFinalizers ==
  (Do("finalizers") \/ Do("in step")) /\ ~FinalizersWait(g) /\ Forget /\ UNCHANGED <<g, finalizing, emergency, closing>>

(* GCTM: a finalizer is called, with its object on the stack, and returns. *)
CallFinalizer ==
  /\ finalizing = Null /\ FinalizersWait(g)
  /\ IF agenda = <<>> THEN g.gcstate = "callfin" /\ g.gckind # "genminor"
     ELSE Do("finalizers") \/ Do("in step") \/ (Do("pause") /\ g.gcstate = "callfin")
  /\ LET o == Head(g.tobefnz) IN g' = Push(udata2finalize(g), o) /\ finalizing' = o
  /\ UNCHANGED <<agenda, emergency, closing>>
FinalizerReturns ==
  /\ Running /\ finalizing # Null /\ finalizing' = Null
  /\ UNCHANGED <<g, agenda, emergency, closing>>

(* lua_close: all objects with finalizers are finalized, all are freed.    *)
Close ==
  /\ Running /\ finalizing = Null /\ ~closing
  /\ LET h == IF g.gckind = "genminor" THEN minor2inc(g, "inc") ELSE [g EXCEPT !.gckind = "inc"]
     IN g' = separatetobefnz([h EXCEPT !.stack = {}], TRUE)
  /\ agenda' = <<"finalizers", "delete">> /\ closing' = TRUE
  /\ UNCHANGED <<finalizing, emergency>>
Delete ==
  /\ Do("delete") /\ Forget
  /\ LET all == SelectSeq(g.allgc, LAMBDA o : o # Main)
     IN g' = [freeall(g, all) EXCEPT !.allgc = <<Main>>, !.stack = {}]
  /\ UNCHANGED <<finalizing, emergency, closing>>

Mutator ==
  /\ \E o \in Obj \ {Main} :
       \/ New(o) \/ NewString(o) \/ Pop(o) \/ Load(o) \/ StoreField(o) \/ StoreUservalue(o)
       \/ StoreUpvalue(o) \/ StoreStack(o) \/ FunctionEnds(o) \/ SetFinalizer(o)
       \/ \E th \in Obj \ {Main} : pushclosure(th, o)
  /\ Cardinality(g'.stack) <= MaxStack
Collector ==
  \/ Step \/ Young \/ Collect \/ Emergency \/ \E mode \in Modes(g.kind) : ChangeMode(mode)
  \/ runtilstate \/ Generational \/ Major \/ EndEmergency \/ NoMoreFinalizers
  \/ CallFinalizer \/ FinalizerReturns \/ Close \/ Delete

HeapNext == (~(closing /\ agenda = <<>>) /\ Mutator) \/ Collector
HeapSpec == HeapInit /\ [][HeapNext]_heapVars

----------------------------------------------------------------------------
(***************************************************************************)
(* What the collector promises the program, and what its own checks ask of *)
(* the heap (lua_checkmemory in ltests.c).                                 *)
(***************************************************************************)

(* What an object refers to so that it must not be freed; the value of an  *)
(* ephemeron only if its key is there by other ways.                       *)
Strong(o, there) ==
  LET v == g.val[o]
  IN CASE o = Main -> g.stack
       [] g.kind[o] = "thread" -> {v} \cup OpenUpvals(g, o)
       [] g.kind[o] = "upval" -> {Content(g, o)}
       [] g.kind[o] = "weakv" -> {g.key[o]}
       [] g.kind[o] = "weakk" -> IF g.key[o] \in there \/ g.key[o] \notin Obj \/ g.kind[g.key[o]] = "str"
                                 THEN {v} ELSE {}
       [] g.kind[o] = "allweak" -> {}
       [] OTHER -> {g.key[o], v}
RECURSIVE ReachFrom(_)
ReachFrom(there) ==
  LET more == there \cup (Obj \cap UNION {Strong(o, there) : o \in there})
  IN IF more = there THEN there ELSE ReachFrom(more)
Reach == ReachFrom({Main})
Waiting == {g.tobefnz[j] : j \in 1..Len(g.tobefnz)}

(* Nothing the program can still get hold of is ever freed, nor what an    *)
(* object that waits for its finalizer needs: the whole of lgc.c, with the *)
(* barriers of its callers.  A weak table holds no freed object either.    *)
NothingDangles ==
  LET there == ReachFrom({Main} \cup Waiting)
  IN /\ there \subseteq g.live
     /\ \A t \in there : g.kind[t] \in Tables => ({g.key[t], g.val[t]} \cap Obj) \subseteq g.live
     /\ {g.strcache} \cap Obj \subseteq g.live \/ (closing /\ agenda = <<>>)

(* Only what the program has lost is given to finalizers, except when the  *)
(* state is closed (separatetobefnz, 1025-1046).                           *)
OnlyGarbageFinalized ==
  [][closing' \/ \A o \in Obj : Contains(g'.tobefnz, o) /\ ~Contains(g.tobefnz, o) => o \notin Reach]_heapVars

(* A finalizer is called once for each mark, when the state is closed for  *)
(* all that are still marked, and then everything is freed.                *)
MarkedAreListed ==
  /\ \A o \in Obj : g.finalized[o] <=> Contains(g.finobj, o) \/ Contains(g.tobefnz, o)
  /\ closing /\ agenda = <<>> => g.live = {Main} /\ g.finobj = <<>> /\ g.tobefnz = <<>>

(* No two live strings have the same text: they are compared by address.   *)
StringsUnique ==
  \A s, t \in g.live : s # t /\ g.kind[s] = "str" /\ g.kind[t] = "str" => ~SameText(s, t)

(* Assertions of lgc.c, where colours, ages and states are taken for       *)
(* granted: what turns black was not white (nw2black), what is linked to a *)
(* gray list was not gray (linkgclist), a barrier sees no dead object and  *)
(* comes in a state that has an invariant, what is freed is dead, ages do  *)
(* not skip (sweepgen, markold, correctgraylist), and the gray list is     *)
(* empty when the atomic step ends.                                        *)
CollectorAssertions == g.asserts

----------------------------------------------------------------------------
(* lua_checkmemory.                                                        *)

(* An upvalue that is open is gray and may refer to anything: its thread   *)
(* is gone through in every collection.  (ltests.c forgets that one of age *)
(* old1 may see a new object stored in its stack slot.)                    *)
AgeRank == [new |-> 0, survival |-> 1, old0 |-> 2, old1 |-> 3, old |-> 4, touched1 |-> 5, touched2 |-> 6]
testobjref(f, t) ==
  /\ ~isdead(g, t)
  /\ ~issweepphase(g) =>
       IF g.gckind # "genminor" THEN ~(g.color[f] = "black" /\ iswhite(g, t))
       ELSE /\ g.age[f] = "old" /\ g.color[f] = "black" => isold(g, t)
            /\ g.age[f] \in {"old1", "touched2"} /\ g.color[f] # "gray" => g.age[t] # "new"
Referents(o) ==
  CASE g.kind[o] = "thread" -> {}
    [] g.kind[o] = "upval" -> {Content(g, o)}
    [] OTHER -> {g.key[o], g.val[o]}
checkobject(o, maybedead, listage) ==
  IF isdead(g, o) THEN maybedead
  ELSE /\ g.gcstate = "pause" => iswhite(g, o)
       /\ g.gckind = "genminor" =>
            /\ AgeRank[g.age[o]] >= AgeRank[listage]
            /\ isold(g, o) => \/ g.color[o] = "black" \/ g.age[o] \in {"touched1", "old0"}
                              \/ g.kind[o] = "thread"
                              \/ (g.kind[o] = "upval" /\ g.owner[o] # Null)
            /\ g.age[o] = "touched1" => g.color[o] = "gray"
       /\ g.kind[o] = "str" => g.color[o] # "gray"
       /\ \A t \in Referents(o) \cap Obj : testobjref(o, t)

checkgraylists ==
  LET lists == g.gray \o g.grayagain \o g.weak \o g.allweak \o g.ephemeron
      should == {o \in g.live : g.kind[o] # "upval" /\ (g.color[o] = "gray" \/ g.age[o] = "touched2")}
  IN keepinvariant(g) =>
       /\ Len(lists) = Cardinality(ToSet(lists)) /\ ToSet(lists) = should
       /\ \A o \in should : (g.color[o] = "gray") # (g.age[o] = "touched2")
       /\ \A o \in g.live : g.kind[o] = "upval" /\ g.color[o] = "gray" => g.owner[o] # Null

checklist(list, maybedead, survival, old, reallyold) ==
  LET Each(from, to, dead, age) ==
        \A o \in ToSet(Between(list, from, to)) : checkobject(o, dead, age)
  IN /\ Each(HeadOf(list), survival, maybedead, "new") /\ Each(survival, old, FALSE, "survival")
     /\ Each(old, reallyold, FALSE, "old1") /\ Each(reallyold, Null, FALSE, "old")

(* Whenever the program runs, the heap is as lua_checkmemory wants it: no  *)
(* black object refers to a white one, or in generational mode no old one  *)
(* to a young one; what is gray is in one gray list; each list has its     *)
(* ages in order.  Always, an object marked for finalization is in one of  *)
(* their two lists, and no two live strings are equal (internshrstr).      *)
CheckMemory ==
  /\ MarkedAreListed /\ StringsUnique
  /\ Running /\ ~closing =>
       /\ keepinvariant(g) => ~iswhite(g, Main)
       /\ g.sweepgc = Null \/ issweepphase(g)
       /\ checkgraylists
       /\ checklist(g.allgc, g.gcstate = "swpallgc", g.survival, g.old1, g.reallyold)
       /\ checklist(g.finobj, FALSE, g.finobjsur, g.finobjold1, g.finobjrold)
       /\ \A o \in Waiting : checkobject(o, FALSE, "new")
=============================================================================
