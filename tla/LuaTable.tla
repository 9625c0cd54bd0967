------------------------------ MODULE LuaTable ------------------------------
(***************************************************************************)
(* Tables of the Lua machine, src/luavm/src/ltable.c: an array part and a  *)
(* hash part with chained scatter.  A table is a record: array (the values *)
(* of the keys 1..asize), hint (where a border was found), node (the hash  *)
(* part, from 0 on), dummy (whether it is the common empty node) and       *)
(* lastfree.                                                               *)
(*                                                                         *)
(* A key is a pair: <<"int", n>>, <<"str", s>>, <<"flt", h>> for the       *)
(* float h / 2, <<"nan", 0>> and <<"nil", 0>>.  Strings stand for all that *)
(* is collectable.                                                         *)
(***************************************************************************)
EXTENDS Integers, Sequences, FiniteSets

CONSTANTS Values, Empty,    \* what may be stored, and nothing
          MaxInteger,       \* the largest integer
          MaxVicinity,      \* how far from the hint the length is looked for
          LimForLast,       \* log2 of the smallest hash part with lastfree
          Hash(_)           \* of strings and floats

NoKey == <<"nil", 0>>
FreeNode == [key |-> NoKey, val |-> Empty, next |-> 0]
(* Its key is that of a dead object, but of none.                          *)
dummynode == [key |-> <<"dummy", 0>>, val |-> Empty, next |-> 0]
twoto[n \in Nat] == IF n = 0 THEN 1 ELSE 2 * twoto[n - 1]
ceillog2(n) == CHOOSE l \in 0..n : twoto[l] >= n /\ \A j \in 0..(l - 1) : twoto[j] < n
asize(t) == Len(t.array)
sizenode(t) == twoto[t.lsizenode]
NodesOf(t) == 0..(sizenode(t) - 1)

luaH_new == [array |-> <<>>, hint |-> 0, node |-> [n \in 0..0 |-> dummynode],
             lsizenode |-> 0, dummy |-> TRUE, lastfree |-> 0, asserts |-> TRUE]

----------------------------------------------------------------------------
(* Where a key is.                                                         *)

Mod(t) == IF sizenode(t) <= 2 THEN 1 ELSE sizenode(t) - 1     \* (size - 1) | 1
mainposition(t, k) ==
  CASE k[1] = "int" -> k[2] % Mod(t)
    [] k[1] = "flt" -> Hash(k) % Mod(t)
    [] k[1] = "str" -> Hash(k) % sizenode(t)
equalkey(k, n, deadok) ==
  n.key = k \/ (deadok /\ k[1] = "str" /\ n.key = <<"dead", k[2]>>)

Absent == -1
getgeneric(t, k, deadok) ==
  LET chain[n \in NodesOf(t)] ==
        IF equalkey(k, t.node[n], deadok) THEN n
        ELSE IF t.node[n].next = 0 THEN Absent ELSE chain[n + t.node[n].next]
  IN chain[mainposition(t, k)]

InArray(t, k) == k[1] = "int" /\ k[2] \in 1..asize(t)
ValueAt(t, n) == IF n = Absent THEN Empty ELSE t.node[n].val
(* Floats with integral values are integers as keys.                       *)
Normal(k) == IF k[1] = "flt" /\ k[2] % 2 = 0 THEN <<"int", k[2] \div 2>> ELSE k
luaH_get(t, key) ==
  LET k == Normal(key)
  IN IF k[1] \in {"nil", "nan"} THEN Empty
     ELSE IF InArray(t, k) THEN t.array[k[2]] ELSE ValueAt(t, getgeneric(t, k, FALSE))

----------------------------------------------------------------------------
(* Inserting a key that is not there.                                      *)

Frees(t, below) == {n \in NodesOf(t) : n < below /\ t.node[n].key = NoKey}
Largest(S) == IF S = {} THEN Absent ELSE CHOOSE n \in S : \A m \in S : m <= n
haslastfree(t) == t.lsizenode >= LimForLast
getfreepos(t) == Largest(Frees(t, IF haslastfree(t) THEN t.lastfree ELSE sizenode(t)))
Looked(t, f) == IF haslastfree(t) THEN [t EXCEPT !.lastfree = IF f = Absent THEN 0 ELSE f] ELSE t

Put(t, n, k, v) == [t EXCEPT !.node[n] = [key |-> k, val |-> v, next |-> t.node[n].next],
                             !.asserts = @ /\ t.node[n].val = Empty]
Previous(t, othern, mp) ==
  LET walk[n \in NodesOf(t)] ==
        IF n + t.node[n].next = mp THEN n ELSE walk[n + t.node[n].next]
  IN walk[othern]
Relinked(t, n, link) == [t.node[n] EXCEPT !.next = link]
(* A slip: the link of the moved node is taken over as it is.              *)
MoveAwayRelative(t, mp, f) ==
  LET prev == Previous(t, mainposition(t, t.node[mp].key), mp)
  IN [t EXCEPT !.node = [n \in NodesOf(t) |->
        CASE n = prev -> Relinked(t, n, f - n)
          [] n = f -> t.node[mp]
          [] n = mp -> [FreeNode EXCEPT !.key = t.node[n].key]
          [] OTHER -> t.node[n]]]
(* The colliding node, out of its place, goes to the free one.             *)
MoveAway(t, mp, f) ==
  LET prev == Previous(t, mainposition(t, t.node[mp].key), mp)
      link == t.node[mp].next
  IN [t EXCEPT !.node = [n \in NodesOf(t) |->
        CASE n = prev -> Relinked(t, n, f - n)
          [] n = f -> Relinked(t, mp, IF link = 0 THEN 0 ELSE link + mp - f)
          [] n = mp -> [FreeNode EXCEPT !.key = t.node[n].key]
          [] OTHER -> t.node[n]]]
(* The new key goes to the free place and into the chain.                  *)
Extend(t, mp, f) ==
  LET link == t.node[mp].next
  IN [t EXCEPT !.node = [n \in NodesOf(t) |->
        CASE n = f -> Relinked(t, n, IF link = 0 THEN t.node[n].next ELSE mp + link - f)
          [] n = mp -> Relinked(t, n, f - n)
          [] OTHER -> t.node[n]],
               !.asserts = @ /\ (link = 0 => t.node[f].next = 0)]

Taken(t, mp) == t.node[mp].val # Empty \/ t.dummy
HasRoom(t, k) == Taken(t, mainposition(t, k)) => getfreepos(t) # Absent
insertkey(t0, k, v) ==
  LET mp == mainposition(t0, k)
      f == getfreepos(t0)
      t == [t0 EXCEPT !.asserts = @ /\ getgeneric(t0, k, FALSE) = Absent /\ HasRoom(t0, k)]
  IN CASE ~Taken(t, mp) -> Put(t, mp, k, v)
       [] Taken(t, mp) /\ mainposition(t, t.node[mp].key) # mp -> Put(MoveAway(Looked(t, f), mp, f), mp, k, v)
       [] OTHER -> Put(Extend(Looked(t, f), mp, f), f, k, v)
newcheckedkey(t, k, v) ==
  IF InArray(t, k) THEN [t EXCEPT !.array[k[2]] = v]
  ELSE IF HasRoom(t, k) THEN insertkey(t, k, v) ELSE [t EXCEPT !.asserts = FALSE]

----------------------------------------------------------------------------
(* Resizing.                                                               *)

setnodevector(size) ==
  IF size = 0 THEN luaH_new
  ELSE LET lsize == ceillog2(size)
       IN [luaH_new EXCEPT !.node = [n \in 0..(twoto[lsize] - 1) |-> FreeNode],
                           !.lsizenode = lsize, !.dummy = FALSE, !.lastfree = twoto[lsize]]
exchangehashpart(t, h) == [t EXCEPT !.node = h.node, !.lsizenode = h.lsizenode, !.dummy = h.dummy, !.lastfree = h.lastfree]
reinsertOldSlice(t, na) ==
  LET upto[i \in na..asize(t)] ==
        IF i = na THEN t
        ELSE IF t.array[i] = Empty THEN upto[i - 1] ELSE insertkey(upto[i - 1], <<"int", i>>, t.array[i])
  IN IF na < asize(t) THEN upto[asize(t)] ELSE t
reinserthash(old, t) ==
  LET below[j \in 0..sizenode(old)] ==
        IF j = 0 THEN t
        ELSE LET n == old.node[j - 1]
             IN IF n.val = Empty THEN below[j - 1] ELSE newcheckedkey(below[j - 1], n.key, n.val)
  IN below[sizenode(old)]
resizearray(t, na) ==
  [t EXCEPT !.array = [j \in 1..na |-> IF j <= asize(t) THEN t.array[j] ELSE Empty], !.hint = na \div 2]

(* Which allocation fails: of the hash part, of the array, or none.        *)
Fails(t, na, nh, fail) ==
  (fail = "hash" /\ nh > 0) \/ (fail = "array" /\ na > 0 /\ na # asize(t))
(* A slip: the old hash part is not put back.                              *)
luaH_resizeLost(t, na, nh, fail) ==
  LET shrunk == reinsertOldSlice(exchangehashpart(t, setnodevector(nh)), na)
  IN CASE fail = "hash" /\ nh > 0 -> t
       [] fail # "hash" /\ Fails(t, na, nh, fail) -> exchangehashpart(shrunk, setnodevector(nh))
       [] OTHER -> reinserthash(t, resizearray(shrunk, na))
luaH_resize(t, na, nh, fail) ==
  LET shrunk == reinsertOldSlice(exchangehashpart(t, setnodevector(nh)), na)
  IN CASE fail = "hash" /\ nh > 0 -> t
       [] fail # "hash" /\ Fails(t, na, nh, fail) -> exchangehashpart(shrunk, t)
       [] OTHER -> reinserthash(t, resizearray(shrunk, na))
HashSize(t) == IF t.dummy THEN 0 ELSE sizenode(t)
luaH_resizearray(t, na, fail) == luaH_resize(t, na, HashSize(t), fail)

(* The keys that could live in an array: those of the hash part with the   *)
(* new one, and those there now.                                           *)
InHash(t, k) == {t.node[n].key[2] : n \in {m \in NodesOf(t) : t.node[m].val # Empty /\ t.node[m].key[1] = "int"}}
                  \cup (IF k[1] = "int" THEN {k[2]} ELSE {})
InArrayNow(t) == {i \in 1..asize(t) : t.array[i] # Empty}
Used(t) == {n \in NodesOf(t) : t.node[n].val # Empty}
Deleted(t) == ~t.dummy /\ \E n \in NodesOf(t) : t.node[n].val = Empty
(* The largest power of two of which more than a third would be used, with *)
(* keys in its upper half.                                                 *)
computesizes(all) ==
  LET Within(n) == Cardinality({i \in all : i <= n})
      Worth(l) == /\ twoto[l] <= 3 * Within(twoto[l])
                  /\ Within(twoto[l]) > IF l = 0 THEN 0 ELSE Within(twoto[l - 1])
      best == {l \in 0..(3 * Cardinality(all)) : twoto[l] <= 3 * Cardinality(all) /\ Worth(l)}
  IN IF best = {} THEN 0 ELSE twoto[Largest(best)]
(* A slip: the extra key is not counted.                                   *)
rehashSizesOld(t, k) ==
  LET positive == {i \in InHash(t, NoKey) : i > 0}
      na == IF positive = {} THEN asize(t) ELSE computesizes(positive \cup InArrayNow(t))
  IN <<na, Cardinality(Used(t)) + Cardinality(InArrayNow(t)) - Cardinality({i \in positive \cup InArrayNow(t) : i <= na})>>
rehashSizes(t, k) ==
  LET positive == {i \in InHash(t, k) : i > 0}
      all == positive \cup InArrayNow(t)
      na == IF positive = {} THEN asize(t) ELSE computesizes(all)
      nh == Cardinality(Used(t)) + 1
              + (IF positive = {} THEN 0 ELSE Cardinality(InArrayNow(t)) - Cardinality({i \in all : i <= na}))
  IN <<na, IF Deleted(t) THEN nh + nh \div 4 ELSE nh>>

luaH_newkey(t, k, v, fail) ==
  LET sizes == rehashSizes(t, k)
      full == Looked(t, Absent)
  IN CASE HasRoom(t, k) -> insertkey(t, k, v)
       [] ~HasRoom(t, k) /\ Fails(t, sizes[1], sizes[2], fail) -> luaH_resize(full, sizes[1], sizes[2], fail)
       [] OTHER -> newcheckedkey(luaH_resize(full, sizes[1], sizes[2], "none"), k, v)
luaH_set(t, key, v, fail) ==
  LET k == Normal(key)
      n == getgeneric(t, k, FALSE)
  IN CASE k[1] \in {"nil", "nan"} -> t                 \* an error
       [] InArray(t, k) -> [t EXCEPT !.array[k[2]] = v]
       [] k[1] \notin {"nil", "nan"} /\ ~InArray(t, k) /\ n # Absent -> [t EXCEPT !.node[n].val = v]
       [] OTHER -> IF v = Empty THEN t ELSE luaH_newkey(t, k, v, fail)

----------------------------------------------------------------------------
(* Going through a table: array first, then the nodes in their order.      *)

Entries(t) == [j \in 1..asize(t) |-> [key |-> <<"int", j>>, val |-> t.array[j]]]
                \o [j \in 1..sizenode(t) |-> [key |-> t.node[j - 1].key, val |-> t.node[j - 1].val]]
InvalidKey == <<"invalid", 0>>
(* A slip: dead keys are not looked at.                                    *)
findindexAlive(t, k) ==
  CASE k = NoKey -> 0
    [] InArray(t, k) -> k[2]
    [] OTHER -> IF getgeneric(t, k, FALSE) = Absent THEN Absent
                ELSE getgeneric(t, k, FALSE) + 1 + asize(t)
findindex(t, k) ==
  CASE k = NoKey -> 0
    [] InArray(t, k) -> k[2]
    [] OTHER -> IF getgeneric(t, k, TRUE) = Absent THEN Absent
                ELSE getgeneric(t, k, TRUE) + 1 + asize(t)
luaH_next(t, k) ==
  LET i == findindex(t, k)
      rest == {j \in (i + 1)..Len(Entries(t)) : Entries(t)[j].val # Empty}
  IN IF i = Absent THEN InvalidKey
     ELSE IF rest = {} THEN NoKey ELSE Entries(t)[CHOOSE j \in rest : \A l \in rest : j <= l].key
(* The collector forgets keys without values.                              *)
clearkey(n) ==
  IF n.val = Empty /\ n.key[1] = "str" THEN [n EXCEPT !.key = <<"dead", n.key[2]>>] ELSE n
clearkeys(t) == [t EXCEPT !.node = [n \in DOMAIN t.node |-> clearkey(t.node[n])]]

----------------------------------------------------------------------------
(* The length: a border near the hint, by halving, or in the hash part.    *)

InHashPart(t, i) == ~t.dummy /\ ValueAt(t, getgeneric(t, <<"int", i>>, FALSE)) # Empty
(* Halves the interval from i, which is there or 0, to j, which is not.    *)
Halved(there, i0, j0) ==
  LET search[ij \in Nat \X Nat] ==
        LET i == ij[1]
            j == ij[2]
            m == (i + j) \div 2
        IN IF j - i <= 1 THEN i ELSE IF m \in there THEN search[<<m, j>>] ELSE search[<<i, m>>]
  IN search[<<i0, j0>>]
binsearch(t, i, j) == Halved({m \in 1..asize(t) : t.array[m] # Empty}, i, j)
halve(t, i, j) == Halved({m \in 1..MaxInteger : InHashPart(t, m)}, i, j)
hash_search(t, rnd0) ==
  LET i0 == asize(t) + 1
      width == IF asize(t) > 0 THEN ceillog2(asize(t)) ELSE 0
      incr == (rnd0 % twoto[width]) + 1
      double[ijr \in (Nat \ {0}) \X (Nat \ {0}) \X Nat] ==
        LET i == ijr[1]
            j == ijr[2]
            rnd == ijr[3]
        IN IF ~InHashPart(t, j) THEN halve(t, i, j)
           ELSE IF j <= MaxInteger \div 2 - 1 THEN double[<<j, 2 * j + (rnd % 2), rnd \div 2>>]
           ELSE IF InHashPart(t, MaxInteger) THEN MaxInteger ELSE halve(t, j, MaxInteger)
  IN double[<<i0, IF incr <= MaxInteger - i0 THEN i0 + incr ELSE i0 + 1, rnd0 \div twoto[width]>>]

Smallest(S) == CHOOSE n \in S : \A m \in S : n <= m
Found(n) == [border |-> n, hint |-> n]
(* A slip: the border is taken to be near the hint.                        *)
luaH_getnNear(t, rnd) ==
  LET limit == IF t.hint = 0 THEN 1 ELSE t.hint
      near == {i \in 1..asize(t) : i <= limit + MaxVicinity /\ t.array[i] # Empty}
  IN Found(IF near = {} THEN 0 ELSE Largest(near))
luaH_getn(t, rnd) ==
  LET limit == IF t.hint = 0 THEN 1 ELSE t.hint
      lowest == Largest({1, limit - MaxVicinity})
      highest == Smallest({asize(t), limit + MaxVicinity})
      below == {i \in lowest..(limit - 1) : t.array[i] # Empty}
      above == {i \in (limit + 1)..highest : t.array[i] = Empty}
      after == [border |-> IF InHashPart(t, asize(t) + 1) THEN hash_search(t, rnd) ELSE asize(t),
                hint |-> asize(t)]
  IN CASE asize(t) = 0 -> after
       [] asize(t) > 0 /\ t.array[limit] = Empty ->
            Found(IF below # {} THEN Largest(below) ELSE binsearch(t, 0, lowest))
       [] asize(t) > 0 /\ t.array[limit] # Empty /\ above # {} -> Found(Smallest(above) - 1)
       [] OTHER -> IF t.array[asize(t)] = Empty THEN Found(binsearch(t, highest, asize(t))) ELSE after

----------------------------------------------------------------------------
(***************************************************************************)
(* A program at work on one table: what lvm.c, lapi.c and the collector do *)
(* with it, in any order.  While the program goes through the table, it    *)
(* assigns to existing fields only, as the manual asks.                    *)
(***************************************************************************)

CONSTANTS Keys, ArraySizes, HashSizes, Randoms, Failures

ASSUME ValuesAssumption == Empty \notin Values
ASSUME BoundsAssumption ==
  MaxInteger \in Nat \ {0} /\ MaxVicinity \in Nat /\ LimForLast \in Nat
(* Every integer from 1 on can be a key; floats that are integers cannot.  *)
ASSUME KeysAssumption ==
  /\ \A k \in Keys :
       /\ k = <<k[1], k[2]>> /\ k[1] \in {"int", "str", "flt"}
       /\ k[1] = "int" => k[2] \in Int /\ k[2] <= MaxInteger
       /\ k[1] # "int" => Hash(k) \in Nat
       /\ Normal(k) = k
  /\ \A i \in 1..MaxInteger : <<"int", i>> \in Keys
ASSUME SizesAssumption ==
  /\ ArraySizes \subseteq 0..MaxInteger /\ HashSizes \subseteq Nat /\ Randoms \subseteq Nat
  /\ Failures \subseteq {"none", "hash", "array"}

VARIABLES t,        \* the table
          fields,   \* what the program reads from it
          iter      \* the traversal: where it is and what it still owes
tableVars == <<t, fields, iter>>

Present == {k \in Keys : fields[k] # Empty}
Read(tab) == fields' = [k \in Keys |-> luaH_get(tab, k)]
Resting == [on |-> FALSE, at |-> NoKey, due |-> {}, ok |-> TRUE]

TableInit ==
  /\ \E na \in ArraySizes, nh \in HashSizes : t = luaH_resize(luaH_new, na, nh, "none")
  /\ fields = [k \in Keys |-> luaH_get(t, k)]
  /\ iter = Resting

Keep(k) == iter' = IF fields'[k] = Empty THEN [iter EXCEPT !.due = @ \ {k}] ELSE iter
Allowed(k, v) == iter.on => v = Empty \/ k \in Present
SetField(k, v, fail) ==
  /\ Allowed(k, v)
  /\ fail # "none" => v # Empty /\ ~InArray(t, k) /\ ~HasRoom(t, k)
  /\ t' = luaH_set(t, k, v, fail)
  /\ Read(t')
  /\ Keep(k)
(* OP_SETLIST: room in the array before the values are stored.             *)
SetList(na, v, fail) ==
  /\ ~iter.on
  /\ na > asize(t)
  /\ LET resized == luaH_resizearray(t, na, fail)
     IN t' = IF Fails(t, na, HashSize(t), fail) THEN resized
             ELSE luaH_set(resized, <<"int", na>>, v, "none")
  /\ Read(t')
  /\ UNCHANGED iter

Start ==
  /\ ~iter.on
  /\ iter' = [on |-> TRUE, at |-> NoKey, due |-> Present, ok |-> TRUE]
  /\ UNCHANGED <<t, fields>>
Visit ==
  /\ iter.on
  /\ LET k == luaH_next(t, iter.at)
     IN iter' = IF k = NoKey THEN [Resting EXCEPT !.ok = iter.ok /\ iter.due = {}]
                ELSE [iter EXCEPT !.at = k, !.due = @ \ {k}, !.ok = @ /\ k \in iter.due]
  /\ UNCHANGED <<t, fields>>
Collect ==
  /\ t' = clearkeys(t)
  /\ Read(t')
  /\ UNCHANGED iter
Length(rnd) ==
  /\ t' = [t EXCEPT !.hint = luaH_getn(t, rnd).hint]
  /\ Read(t')
  /\ UNCHANGED iter

TableNext ==
  \/ \E k \in Keys, v \in Values \cup {Empty}, fail \in Failures : SetField(k, v, fail)
  \/ \E na \in ArraySizes, v \in Values, fail \in Failures : SetList(na, v, fail)
  \/ \E rnd \in Randoms : Length(rnd)
  \/ Start
  \/ Visit
  \/ Collect
TableSpec == TableInit /\ [][TableNext]_tableVars

----------------------------------------------------------------------------
(* Asserts of ltable.c: a key that is inserted is not there yet, goes to a *)
(* node without a value, and a table just resized has room for it.  (That  *)
(* of numusehash, 527, that all nodes have been used before a rehash, is   *)
(* not among them.)                                                        *)
TableAssertions == t.asserts

(* A traversal gives each field that is there from its start to its end,   *)
(* once, and no other, and it always finds the field it was at (`next`),   *)
(* though fields are cleared, and their keys collected, meanwhile.         *)
TraversalComplete == iter.ok

(* The length is a border: a field, or 0, after which there is none        *)
(* (luaH_getn), also where the largest integer is a key.                   *)
LengthIsBorder ==
  \A rnd \in Randoms :
    LET n == luaH_getn(t, rnd).border
    IN /\ n = 0 \/ fields[<<"int", n>>] # Empty
       /\ n = MaxInteger \/ fields[<<"int", n + 1>>] = Empty

(* However the table moves its fields between its parts, and whichever     *)
(* allocation fails in between, it stays a mapping: an assignment changes  *)
(* one field or, when it fails, none.                                      *)
Abstract == INSTANCE Mapping WITH contents <- fields
IsMapping == Abstract!MappingSpec
=============================================================================
