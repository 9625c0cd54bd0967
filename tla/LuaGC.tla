------------------------------- MODULE LuaGC -------------------------------
(***************************************************************************)
(* The garbage collector of the Lua machine, src/luavm/src/lgc.c.  g is    *)
(* the part of global_State it works on, with what it keeps in each object *)
(* and the references between objects; its functions are operators from g  *)
(* to g.  Sizes and debts are left out: what depends on them (when a step  *)
(* runs, whether a collection was worth it) is left to the modules that    *)
(* use this one.                                                           *)
(*                                                                         *)
(* Kinds of objects: "str", "leaf" (userdata without user values),         *)
(* "udata" (with one), "closure" (one upvalue), "upval", "thread" (one     *)
(* stack slot), and the tables "table", "weakv", "weakk", "allweak", with  *)
(* one node: key and val; an entry is empty when val is Null, and then     *)
(* key is Null too, for a dead key is never followed.                      *)
(***************************************************************************)
EXTENDS Integers, Sequences, SequencesExt

CONSTANTS Obj,     \* places for objects
          Main,    \* the main thread, one of them
          Null,    \* no object
          Plain    \* a value that is not collectable

VARIABLE g

Head_ == "head"
Whites == {"w0", "w1"}
Tables == {"table", "weakv", "weakk", "allweak"}
Sweeping == {"swpallgc", "swpfinobj", "swptobefnz", "swpend"}
GrayLists == {"gray", "grayagain", "weak", "ephemeron", "allweak"}

white(h) == IF h.currentwhite = 0 THEN "w0" ELSE "w1"
otherwhite(h) == IF h.currentwhite = 0 THEN "w1" ELSE "w0"
iswhite(h, o) == h.color[o] \in Whites
isdead(h, o) == h.color[o] = otherwhite(h)
isold(h, o) == h.age[o] \notin {"new", "survival"}
issweepphase(h) == h.gcstate \in Sweeping
keepinvariant(h) == h.gcstate \in {"propagate", "enteratomic", "atomic"}

Assert_(h, holds) == [h EXCEPT !.asserts = @ /\ holds]
Paint(h, o, c) == [h EXCEPT !.color[o] = c]
Age(h, o, a) == [h EXCEPT !.age[o] = a]
nw2black(h, o) == Paint(Assert_(h, ~iswhite(h, o)), o, "black")
makewhite(h, o) == Paint(h, o, white(h))
linkgclist(h, o, list) == [Paint(Assert_(h, h.color[o] # "gray"), o, "gray")
                             EXCEPT ![list] = <<o>> \o @]
Removed(list, o) == SelectSeq(list, LAMBDA p : p # o)

OpenUpvals(h, th) == {u \in Obj : h.owner[u] = th}
(* The value of an upvalue lives in the stack while it is open.            *)
Content(h, u) == IF h.owner[u] = Null THEN h.val[u] ELSE h.val[h.owner[u]]

----------------------------------------------------------------------------
(* Mark.                                                                   *)

RECURSIVE reallymarkobject(_, _)
mark(h, o) == IF o \in Obj /\ iswhite(h, o) THEN reallymarkobject(h, o) ELSE h
reallymarkobject(h, o) ==
  CASE h.kind[o] \in {"str", "leaf"} -> Paint(h, o, "black")
    [] h.kind[o] = "upval" ->
         mark(Paint(h, o, IF h.owner[o] = Null THEN "black" ELSE "gray"), Content(h, o))
    [] OTHER -> linkgclist(h, o, "gray")
markall(h, os) == FoldLeft(mark, h, os)

iscleared(h, o) == o \in Obj /\ h.kind[o] # "str" /\ iswhite(h, o)
(* Strings are values: looking at one marks it.                            *)
marked_str(h, o) == IF o \in Obj /\ h.kind[o] = "str" THEN mark(h, o) ELSE h

cleargraylists(h) ==
  [h EXCEPT !.gray = <<>>, !.grayagain = <<>>, !.weak = <<>>, !.ephemeron = <<>>, !.allweak = <<>>]
restartcollection(h) == markall(mark(cleargraylists(h), Main), h.tobefnz)

genlink(h, o) ==
  CASE h.age[o] = "touched1" -> linkgclist(h, o, "grayagain")
    [] h.age[o] = "touched2" -> Age(h, o, "old")
    [] OTHER -> h

LinkWeak(h, o) ==
  IF h.gcstate = "propagate" THEN linkgclist(h, o, "grayagain")
  ELSE IF iscleared(h, h.val[o]) THEN linkgclist(h, o, "weak") ELSE genlink(h, o)
traverseweakvalue(h, o) == LinkWeak(marked_str(mark(h, h.key[o]), h.val[o]), o)

(* Whether a traversal of an ephemeron marks a value.                      *)
MarksValue(h, o) == /\ h.val[o] \in Obj /\ iswhite(h, h.val[o])
                    /\ ~iscleared(h, h.key[o])
LinkEphemeron(h, o) ==
  CASE h.gcstate = "propagate" -> linkgclist(h, o, "grayagain")
    [] h.gcstate # "propagate" /\ iscleared(h, h.key[o]) ->
         linkgclist(h, o, IF h.val[o] \in Obj /\ iswhite(h, h.val[o]) THEN "ephemeron" ELSE "allweak")
    [] OTHER -> genlink(h, o)
traverseephemeron(h0, o) ==
  LET Value(h) == IF iscleared(h, h.key[o]) THEN h ELSE mark(h, h.val[o])
  IN LinkEphemeron(Value(marked_str(h0, h0.key[o])), o)

traversetable(h, o) ==
  CASE h.kind[o] = "table" -> genlink(mark(mark(h, h.key[o]), h.val[o]), o)
    [] h.kind[o] = "weakv" -> traverseweakvalue(h, o)
    [] h.kind[o] = "weakk" -> traverseephemeron(h, o)
    [] h.kind[o] = "allweak" ->
         linkgclist(h, o, IF h.gcstate = "propagate" THEN "grayagain" ELSE "allweak")

Stack(h, th) == IF th = Main THEN SetToSeq(h.stack) ELSE <<h.val[th]>>
InTwups(h, th) ==
  IF OpenUpvals(h, th) # {} /\ ~Contains(h.twups, th) THEN [h EXCEPT !.twups = <<th>> \o @] ELSE h
traversethread(h0, th) ==
  LET Visited(h) == markall(h, Stack(h, th) \o SetToSeq(OpenUpvals(h, th)))
      again == isold(h0, th) \/ h0.gcstate = "propagate"
      visited == Visited(IF again THEN linkgclist(h0, th, "grayagain") ELSE h0)
  IN IF h0.gcstate = "atomic" THEN InTwups(visited, th) ELSE visited

traverse(h, o) ==
  CASE h.kind[o] \in Tables -> traversetable(h, o)
    [] h.kind[o] = "udata" -> genlink(mark(h, h.val[o]), o)
    [] h.kind[o] = "closure" -> mark(h, h.val[o])
    [] h.kind[o] = "thread" -> traversethread(h, o)
propagatemark(h) ==
  LET o == Head(h.gray) IN traverse([nw2black(h, o) EXCEPT !.gray = Tail(@)], o)

RECURSIVE propagateall(_)
propagateall(h) == IF h.gray = <<>> THEN h ELSE propagateall(propagatemark(h))

(* A thread that is dead or has no open upvalues leaves the list; what its *)
(* marked upvalues hold must live on.                                      *)
remarkupvals(h0) ==
  LET Stays(th) == ~iswhite(h0, th) /\ OpenUpvals(h0, th) # {}
      gone == SelectSeq(h0.twups, LAMBDA th : ~Stays(th))
      remark(h, th) == FoldLeft(LAMBDA h1, u : IF iswhite(h1, u) THEN h1 ELSE mark(h1, Content(h1, u)),
                                h, SetToSeq(OpenUpvals(h, th)))
  IN FoldLeft(remark, [h0 EXCEPT !.twups = SelectSeq(@, Stays)], gone)
RECURSIVE convergeephemerons(_)
Revisit(h, o) ==
  IF MarksValue(h, o) THEN [propagateall(traverseephemeron(h, o)) EXCEPT !.changed = TRUE]
  ELSE traverseephemeron(h, o)
Again(h) == IF h.changed THEN convergeephemerons(h) ELSE h
(* The tables are gone through until no value is marked any more.          *)
convergeephemerons(h) ==
  Again(FoldLeft(LAMBDA h1, o : Revisit(nw2black(h1, o), o),
                 [h EXCEPT !.ephemeron = <<>>, !.changed = FALSE], h.ephemeron))

Emptied(h, o) == [h EXCEPT !.key[o] = Null, !.val[o] = Null]
Unless(h, o, v) == IF iscleared(h, v) THEN Emptied(h, o) ELSE marked_str(h, v)
clearbykeys(h, l) == FoldLeft(LAMBDA h1, o : Unless(h1, o, h1.key[o]), h, l)
clearbyvalues(h, l) == FoldLeft(LAMBDA h1, o : Unless(h1, o, h1.val[o]), h, l)

----------------------------------------------------------------------------
(* Barriers.                                                               *)

Generation(h, o, v) == IF isold(h, o) THEN Age(Assert_(h, ~isold(h, v)), v, "old0") ELSE h
barrier_(h0, o, v) ==
  LET h == Assert_(h0, ~isdead(h0, v) /\ ~isdead(h0, o) /\ (keepinvariant(h0) \/ issweepphase(h0)))
  IN CASE keepinvariant(h0) -> Generation(reallymarkobject(h, v), o, v)
       [] ~keepinvariant(h0) /\ h0.gckind # "genminor" -> makewhite(h, o)
       [] OTHER -> h
Needs(h, o, v) == v \in Obj /\ h.color[o] = "black" /\ iswhite(h, v)
barrier(h, o, v) == IF Needs(h, o, v) THEN barrier_(h, o, v) ELSE h

Touched(h, o) == IF isold(h, o) THEN Age(h, o, "touched1") ELSE h
barrierback_(h, o) ==
  LET fine == ~isdead(h, o) /\ (h.gckind = "genminor" => isold(h, o) /\ h.age[o] # "touched1")
  IN Touched(IF h.age[o] = "touched2" THEN Paint(Assert_(h, fine), o, "gray")
             ELSE linkgclist(Assert_(h, fine), o, "grayagain"), o)
(* A slip: an object touched in the cycle before is linked again.          *)
barrierbackTwice(h, o, v) ==
  IF Needs(h, o, v) THEN Touched(linkgclist(h, o, "grayagain"), o) ELSE h
barrierback(h, o, v) == IF Needs(h, o, v) THEN barrierback_(h, o) ELSE h
CloseUpvalue(h, u) == IF iswhite(h, u) THEN h ELSE barrier(nw2black(h, u), u, h.val[u])
closeupval(h0, th) ==
  FoldLeft(LAMBDA h, u : CloseUpvalue([h EXCEPT !.val[u] = h.val[th], !.owner[u] = Null], u),
           h0, SetToSeq(OpenUpvals(h0, th)))

----------------------------------------------------------------------------
(* Sweep.                                                                  *)

freeobj(h0, o) ==
  LET h == IF h0.kind[o] = "thread" THEN closeupval(h0, o) ELSE h0
  IN [h EXCEPT !.live = @ \ {o}, !.owner[o] = Null, !.key[o] = Null, !.val[o] = Null,
               !.color[o] = "w0", !.age[o] = "new", !.finalized[o] = FALSE]
freeall(h, os) == FoldLeft(freeobj, h, os)

(* sweepgc is the link behind an object, or the head of the list that is   *)
(* swept in this state.                                                    *)
ListOf(h, p) ==
  IF p = Head_ THEN [swpallgc |-> "allgc", swpfinobj |-> "finobj", swptobefnz |-> "tobefnz"][h.gcstate]
  ELSE CHOOSE l \in {"allgc", "finobj", "tobefnz"} : Contains(h[l], p)
After_(list, p) == IF p = Head_ THEN list ELSE SubSeq(list, SelectInSeq(list, LAMBDA q : q = p) + 1, Len(list))

RECURSIVE sweeplist(_, _, _)
(* Sweeps n objects from link p on; the link it ends at is left in sweepgc.*)
sweeplist(h, p, n) ==
  LET list == ListOf(h, p)
      rest == After_(h[list], p)
  IN IF rest = <<>> THEN [h EXCEPT !.sweepgc = Null]
     ELSE IF n = 0 THEN [h EXCEPT !.sweepgc = p]
     ELSE LET o == Head(rest)
          IN IF isdead(h, o)
             THEN sweeplist(freeobj([h EXCEPT ![list] = Removed(@, o)], o), p, n - 1)
             ELSE sweeplist(Age(makewhite(h, o), o, "new"), o, n - 1)
RECURSIVE Past(_, _)
Past(h, p) == IF h.sweepgc = p THEN Past(sweeplist(h, p, 1), p) ELSE h
sweeptolive(h, p) == Past(sweeplist(h, p, 1), p)
entersweep(h) == sweeptolive([h EXCEPT !.gcstate = "swpallgc"], Head_)

Oldest(h, o) ==
  CASE h.kind[o] = "thread" -> linkgclist(h, o, "grayagain")
    [] h.kind[o] = "upval" /\ h.owner[o] # Null -> Paint(h, o, "gray")
    [] OTHER -> nw2black(h, o)
sweep2old(h0, list) ==
  FoldLeft(LAMBDA h, o : IF iswhite(h, o)
                         THEN freeobj([Assert_(h, isdead(h, o)) EXCEPT ![list] = Removed(@, o)], o)
                         ELSE Oldest(Age(h, o, "old"), o), h0, h0[list])

NextAge == [survival |-> "old1", old0 |-> "old1", old1 |-> "old", old |-> "old",
            touched1 |-> "touched1", touched2 |-> "touched2"]
FirstOld1(h, o) == IF h.age[o] = "old1" /\ h.firstold1 = Null THEN [h EXCEPT !.firstold1 = o] ELSE h
(* A segment of a list after a young collection: the dead are freed, the   *)
(* others age; first: whether firstold1 is kept.                           *)
sweepgen(h0, segment, first) ==
  LET Older(h, o) == Age(Assert_(h, h.age[o] # "old1"), o, NextAge[h.age[o]])
      One(h, o) ==
        CASE iswhite(h, o) -> freeobj(Assert_(h, ~isold(h, o) /\ isdead(h, o)), o)
          [] ~iswhite(h, o) /\ first -> FirstOld1(Older(h, o), o)
          [] OTHER -> Older(h, o)
  IN FoldLeft(LAMBDA h, o : IF ~iswhite(h, o) /\ h.age[o] = "new" THEN makewhite(Age(h, o, "survival"), o)
                            ELSE One(h, o), h0, segment)

(* The elements of a list from object p (or its end) up to object q.       *)
Place(list, p) == IF p = Null THEN Len(list) + 1 ELSE SelectInSeq(list, LAMBDA o : o = p)
Between(list, p, q) == SubSeq(list, Place(list, p), Place(list, q) - 1)
HeadOf(list) == IF list = <<>> THEN Null ELSE Head(list)
Kept(h, list) == SelectSeq(list, LAMBDA o : o \in h.live)

----------------------------------------------------------------------------
(* Finalizers.                                                             *)

separatetobefnz(h, all) ==
  LET upto == Between(h.finobj, HeadOf(h.finobj), h.finobjold1)
      go == SelectSeq(upto, LAMBDA o : iswhite(h, o) \/ all)
      stay == SelectSeq(h.finobj, LAMBDA o : ~Contains(go, o))
      sur == Between(h.finobj, h.finobjsur, Null)
  IN [h EXCEPT !.finobj = stay, !.tobefnz = @ \o go,
               !.finobjsur = HeadOf(SelectSeq(sur, LAMBDA o : ~Contains(go, o)))]
(* A slip: an old1 object that comes back is not reported.                 *)
SweptOnly(h, o) == IF issweepphase(h) THEN makewhite(h, o) ELSE h
Swept(h, o) == IF issweepphase(h) THEN makewhite(h, o)
               ELSE IF h.age[o] = "old1" THEN [h EXCEPT !.firstold1 = o] ELSE h
udata2finalize(h) ==
  LET o == Head(h.tobefnz)
  IN Swept([h EXCEPT !.tobefnz = Tail(@), !.allgc = <<o>> \o @, !.finalized[o] = FALSE], o)

correctpointers(h, o) ==
  LET Other(p) == IF p = o THEN HeadOf(After_(h.allgc, o)) ELSE p
  IN [h EXCEPT !.survival = Other(@), !.old1 = Other(@), !.reallyold = Other(@), !.firstold1 = Other(@)]
ToFinobj(h, o) == [h EXCEPT !.allgc = Removed(@, o), !.finobj = <<o>> \o @, !.finalized[o] = TRUE]
(* sweepgc must not follow the object into the other list.                 *)
checkfinalizer(h, o) ==
  ToFinobj(CASE issweepphase(h) /\ h.sweepgc = o -> sweeptolive(makewhite(h, o), o)
             [] issweepphase(h) /\ h.sweepgc # o -> makewhite(h, o)
             [] OTHER -> correctpointers(h, o), o)

----------------------------------------------------------------------------
(* The atomic phase.                                                       *)

Remarked(h, o) == IF h.color[o] = "black" THEN reallymarkobject(h, o) ELSE h
markold(h0, list) ==
  FoldLeft(LAMBDA h, o : IF h.age[o] # "old1" THEN h
                         ELSE Remarked(Age(Assert_(h, ~iswhite(h, o)), o, "old"), o), h0, list)

(* A slip: what barriers left gray is not gone through again.              *)
MarkLiveOnce(h) ==
  convergeephemerons(propagateall(remarkupvals(propagateall(
    mark([h EXCEPT !.gcstate = "atomic", !.grayagain = <<>>], Main)))))
(* What is alive: the roots, what was touched since, the upvalues of dead  *)
(* threads, the values of ephemerons with live keys.                       *)
MarkLive(h) ==
  LET roots == propagateall(mark([h EXCEPT !.gcstate = "atomic", !.grayagain = <<>>], Main))
      upvals == propagateall(remarkupvals(roots))
  IN convergeephemerons(propagateall([upvals EXCEPT !.gray = h.grayagain]))
(* The weak tables at that point, and what is brought back for finalizers. *)
ClearLive(h) == LET h1 == clearbyvalues(clearbyvalues(h, h.weak), h.allweak)
                IN [h1 EXCEPT !.origweak = h.weak, !.origall = h.allweak]
MarkRevived(h) == convergeephemerons(propagateall(markall(h, h.tobefnz)))
(* The elements of a list that were linked before it became l.             *)
NewIn(list, l) == SubSeq(list, 1, Len(list) - Len(l))
ClearKeys(h) == clearbykeys(clearbykeys(h, h.ephemeron), h.allweak)
ClearRevived(h) ==
  clearbyvalues(clearbyvalues(h, NewIn(h.weak, h.origweak)), NewIn(h.allweak, h.origall))
luaS_clearcache(h) == [h EXCEPT !.strcache = IF @ \in Obj /\ iswhite(h, @) THEN Null ELSE @]
FlipWhite(h) == [Assert_(h, h.gray = <<>>) EXCEPT !.currentwhite = 1 - @,
                                                  !.origweak = <<>>, !.origall = <<>>]
(* A slip: what is to be finalized is decided before the marking is done.  *)
atomicEarly(h) ==
  FlipWhite(luaS_clearcache(ClearRevived(ClearKeys(
    MarkRevived(ClearLive(MarkLive(separatetobefnz(h, FALSE))))))))
atomic(h) ==
  FlipWhite(luaS_clearcache(ClearRevived(ClearKeys(
    MarkRevived(separatetobefnz(ClearLive(MarkLive(h)), FALSE))))))

----------------------------------------------------------------------------
(* Generational collections.                                               *)

correctgraylist(h0, list) ==
  LET Keep(h, o) == [Assert_(h, h.color[o] = "gray") EXCEPT !.kept = Append(@, o)]
      Settle(h, o) == nw2black(Assert_(h, isold(h, o)), o)
      Live(h, o) ==
        CASE h.age[o] = "touched1" -> Age(nw2black(Keep(h, o), o), o, "touched2")
          [] h.age[o] # "touched1" /\ h.kind[o] = "thread" -> Keep(h, o)
          [] h.age[o] = "touched2" /\ h.kind[o] # "thread" -> Age(Settle(h, o), o, "old")
          [] OTHER -> Settle(h, o)
      One(h, o) == IF iswhite(h, o) THEN h ELSE Live(h, o)
  IN FoldLeft(One, h0, list)
correctgraylists(h0) ==
  LET Lists(h) == [h EXCEPT !.grayagain = h.kept, !.kept = <<>>,
                            !.weak = <<>>, !.allweak = <<>>, !.ephemeron = <<>>]
  IN Lists(correctgraylist(h0, h0.grayagain \o h0.weak \o h0.allweak \o h0.ephemeron))
finishgencycle(h) == [correctgraylists(h) EXCEPT !.gcstate = "propagate"]

(* A slip: the pointers into the list of finalizers stay.                  *)
minor2incKeeps(h, kind) ==
  entersweep([h EXCEPT !.gckind = kind, !.reallyold = Null, !.old1 = Null, !.survival = Null])
minor2inc(h, kind) ==
  entersweep([h EXCEPT !.gckind = kind,
                !.reallyold = Null, !.old1 = Null, !.survival = Null,
                !.finobjrold = Null, !.finobjold1 = Null, !.finobjsur = Null])

Drop(list, first) == SubSeq(list, Len(first) + 1, Len(list))
(* Both lists are swept in segments by age, and each segment gets older.   *)
sweepyoung(h0) ==
  LET new == Between(h0.allgc, HeadOf(h0.allgc), h0.survival)
      sur == Between(h0.allgc, h0.survival, h0.old1)
      Older(h) == [h EXCEPT !.allgc = Kept(h, @), !.reallyold = h0.old1, !.survival = HeadOf(Kept(h, h.allgc)),
                            !.old1 = HeadOf(Drop(Kept(h, h.allgc), Kept(h, new)))]
  IN Older(sweepgen(sweepgen(h0, new, TRUE), sur, TRUE))
sweepyoungfin(h0) ==
  LET new == Between(h0.finobj, HeadOf(h0.finobj), h0.finobjsur)
      sur == Between(h0.finobj, h0.finobjsur, h0.finobjold1)
      Older(h) == [h EXCEPT !.finobj = Kept(h, @), !.tobefnz = Kept(h, @),
                            !.finobjrold = h0.finobjold1, !.finobjsur = HeadOf(Kept(h, h.finobj)),
                            !.finobjold1 = HeadOf(Drop(Kept(h, h.finobj), Kept(h, new)))]
  IN Older(sweepgen(sweepgen(sweepgen(h0, new, FALSE), sur, FALSE), h0.tobefnz, FALSE))

MarkOld(h) ==
  LET From(h0) == IF h0.firstold1 = Null THEN h0
                  ELSE [markold(h0, Between(h0.allgc, h0.firstold1, h0.reallyold)) EXCEPT !.firstold1 = Null]
  IN markold(markold(From(h), Between(h.finobj, HeadOf(h.finobj), h.finobjrold)), h.tobefnz)
youngcollection(h, major) ==
  LET swept == sweepyoungfin(sweepyoung([atomic(MarkOld(h)) EXCEPT !.gcstate = "swpallgc"]))
  IN IF major THEN minor2inc(swept, "genmajor") ELSE finishgencycle(swept)

AllOld(h) == [h EXCEPT !.reallyold = HeadOf(h.allgc), !.old1 = HeadOf(h.allgc), !.survival = HeadOf(h.allgc),
                       !.firstold1 = Null, !.finobjrold = HeadOf(h.finobj), !.finobjold1 = HeadOf(h.finobj),
                       !.finobjsur = HeadOf(h.finobj), !.gckind = "genminor"]
atomic2gen(h) ==
  finishgencycle(AllOld(sweep2old(sweep2old(sweep2old(
    [cleargraylists(h) EXCEPT !.gcstate = "swpallgc"], "allgc"), "finobj"), "tobefnz")))

----------------------------------------------------------------------------
(* One step of a collection, up to the finalizers.  back: whether a major  *)
(* collection was worth so much that minor ones follow.                    *)

sweepstep(h, next, n) ==
  IF h.sweepgc # Null THEN sweeplist(h, h.sweepgc, n)
  ELSE [h EXCEPT !.gcstate = next, !.sweepgc = IF next = "swpend" THEN Null ELSE Head_]
singlestep(h, fast, back, n) ==
  CASE h.gcstate = "pause" -> [restartcollection(h) EXCEPT !.gcstate = "propagate"]
    [] h.gcstate = "propagate" ->
         IF fast \/ h.gray = <<>> THEN [h EXCEPT !.gcstate = "enteratomic"] ELSE propagatemark(h)
    [] h.gcstate = "enteratomic" -> IF back THEN atomic2gen(atomic(h)) ELSE entersweep(atomic(h))
    [] h.gcstate = "swpallgc" -> sweepstep(h, "swpfinobj", n)
    [] h.gcstate = "swpfinobj" -> sweepstep(h, "swptobefnz", n)
    [] h.gcstate = "swptobefnz" -> sweepstep(h, "swpend", n)
    [] h.gcstate = "swpend" -> [h EXCEPT !.gcstate = "callfin"]
    [] h.gcstate = "callfin" -> [h EXCEPT !.gcstate = "pause"]
=============================================================================
