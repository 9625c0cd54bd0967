----------------------------- MODULE TableFacts -----------------------------
(***************************************************************************)
(* Theorems about tables: the table is a mapping whatever the program      *)
(* does, its asserts hold, its length is a border and a traversal is       *)
(* complete.  The inductive invariant says how the chains of the hash part *)
(* are laid out: each node has a place such that links lead one place      *)
(* down, and each key is between its main position and the end of the      *)
(* chain that starts there.                                                *)
(***************************************************************************)
EXTENDS LuaTable, TLAPS, FiniteSetTheorems, WellFoundedInduction

----------------------------------------------------------------------------
(* A set of natural numbers has a least member, if it has any.             *)
LEMMA LeastNat ==
  ASSUME NEW T \in SUBSET Nat, T # {}
  PROVE  \E x \in T : \A y \in T : x <= y
<1> DEFINE R == OpToRel(<, Nat)
<1>1. \E x \in T : \A y \in T : ~(<<y, x>> \in R)
  <2>1. IsWellFoundedOn(R, Nat)
    BY NatLessThanWellFounded
  <2> HIDE DEF R
  <2> QED
    BY <2>1, WFMin
<1>2. \A x, y \in Nat : y < x => <<y, x>> \in R
  BY DEF OpToRel
<1>3. \A x, y \in T : ~(<<y, x>> \in R) => x <= y
  <2>1. \A x, y \in Nat : x <= y \/ y < x
    OBVIOUS
  <2> HIDE DEF R
  <2> QED
    BY <1>2, <2>1
<1> HIDE DEF R
<1> QED
  BY <1>1, <1>3, Zenon

(* The chains of a hash part, apart from what is in its nodes: each node   *)
(* has a place such that links lead one place down, and a key is between   *)
(* its main position and the end of the chain this starts.                 *)
Chains(S, K, next, home, pos) ==
  /\ S \subseteq Nat /\ K \subseteq S
  /\ next \in [S -> Int] /\ pos \in [S -> Nat] /\ home \in [K -> K]
  /\ \A m, n \in S : pos[m] = pos[n] => m = n
  /\ \A n \in S : n \notin K => next[n] = 0
  /\ \A n \in S : next[n] # 0 => n + next[n] \in K /\ pos[n + next[n]] = pos[n] - 1
  /\ \A n \in K : home[home[n]] = home[n] /\ pos[n] <= pos[home[n]]
  /\ \A n \in K, y \in S : pos[n] < pos[y] /\ pos[y] <= pos[home[n]] => next[y] # 0

HomeHere(K, home, n) == [y \in K \cup {n} |-> IF y = n THEN n ELSE home[y]]

(* A key in its main position, where no value is.                          *)
LEMMA ChainsPut ==
  ASSUME NEW S, NEW K, NEW next, NEW home, NEW pos, NEW n \in S,
         Chains(S, K, next, home, pos)
  PROVE  Chains(S, K \cup {n}, next, HomeHere(K, home, n), pos)
<1> DEFINE h == HomeHere(K, home, n)
           L == K \cup {n}
<1>1. /\ S \subseteq Nat /\ K \subseteq S /\ L \subseteq S
      /\ next \in [S -> Int] /\ pos \in [S -> Nat] /\ home \in [K -> K]
      /\ \A i, j \in S : pos[i] = pos[j] => i = j
      /\ \A i \in S : i \notin L => next[i] = 0
      /\ \A i \in S : next[i] # 0 => i + next[i] \in L /\ pos[i + next[i]] = pos[i] - 1
  BY DEF Chains
<1>2. h \in [L -> L] /\ h[n] = n /\ \A y \in K : y # n => h[y] = home[y]
  BY <1>1 DEF HomeHere
<1>3. \A i \in K : home[home[i]] = home[i] /\ pos[i] <= pos[home[i]]
  BY DEF Chains
<1>4. \A i \in K, y \in S : pos[i] < pos[y] /\ pos[y] <= pos[home[i]] => next[y] # 0
  BY DEF Chains
<1> HIDE DEF h, L
<1>5. \A i \in L : i = n \/ (i # n /\ i \in K)
  BY DEF L
<1>6. ASSUME NEW i \in L PROVE h[h[i]] = h[i] /\ pos[i] <= pos[h[i]]
  <2>1. CASE i = n
    <3>1. h[i] = i /\ pos[i] \in Nat
      BY <1>1, <1>2, <2>1
    <3> QED
      BY <3>1
  <2>2. CASE i # n /\ i \in K
    <3>1. h[i] = home[i] /\ home[i] \in K /\ home[home[i]] = home[i] /\ pos[i] <= pos[home[i]]
      BY <1>1, <1>2, <1>3, <2>2
    <3>2. h[home[i]] = home[i]
      BY <1>2, <3>1
    <3> QED
      BY <3>1, <3>2
  <2> QED
    BY <1>5, <2>1, <2>2
<1>7. ASSUME NEW i \in L, NEW y \in S, pos[i] < pos[y], pos[y] <= pos[h[i]] PROVE next[y] # 0
  <2>1. CASE i = n
    <3>1. h[i] = i /\ pos[i] \in Nat /\ pos[y] \in Nat
      BY <1>1, <1>2, <2>1
    <3> QED
      BY <1>7, <3>1
  <2>2. CASE i # n /\ i \in K
    BY <1>2, <1>4, <1>7, <2>2
  <2> QED
    BY <1>5, <2>1, <2>2
<1>8. Chains(S, L, next, h, pos)
  BY <1>1, <1>2, <1>6, <1>7 DEF Chains
<1> QED
  BY <1>8 DEF L, h

(* A node that is not in its main position moves to a free one, and its    *)
(* own becomes the main position of another key.                           *)
MovedNext(S, next, prev, mp, f) ==
  [y \in S |-> IF y = prev THEN f - prev
               ELSE IF y = f THEN (IF next[mp] = 0 THEN 0 ELSE next[mp] + mp - f)
               ELSE IF y = mp THEN 0 ELSE next[y]]
MovedHome(K, home, mp, f) ==
  [y \in K \cup {f} |-> IF y = f THEN home[mp] ELSE IF y = mp THEN mp ELSE home[y]]
MovedPos(S, pos, mp, f) ==
  [y \in S |-> IF y = f THEN pos[mp] ELSE IF y = mp THEN pos[f] ELSE pos[y]]

LEMMA ChainsMove ==
  ASSUME NEW S, NEW K, NEW next, NEW home, NEW pos, NEW mp \in K, NEW f \in S \ K, NEW prev \in S,
         Chains(S, K, next, home, pos), home[mp] # mp, next[prev] # 0, prev + next[prev] = mp
  PROVE  Chains(S, K \cup {f}, MovedNext(S, next, prev, mp, f), MovedHome(K, home, mp, f),
                MovedPos(S, pos, mp, f))
<1> DEFINE g == MovedNext(S, next, prev, mp, f)
           h == MovedHome(K, home, mp, f)
           q == MovedPos(S, pos, mp, f)
           L == K \cup {f}
<1>1. /\ S \subseteq Nat /\ K \subseteq S /\ L \subseteq S /\ mp \in S
      /\ next \in [S -> Int] /\ pos \in [S -> Nat] /\ home \in [K -> K]
  BY DEF Chains
<1>2. \A i, j \in S : pos[i] = pos[j] => i = j
  BY DEF Chains
<1>3. \A i \in S : i \notin K => next[i] = 0
  BY DEF Chains
<1>4. \A i \in S : next[i] # 0 => i + next[i] \in K /\ pos[i + next[i]] = pos[i] - 1
  BY DEF Chains
<1>5. \A i \in K : home[home[i]] = home[i] /\ pos[i] <= pos[home[i]]
  BY DEF Chains
<1>6. \A i \in K, y \in S : pos[i] < pos[y] /\ pos[y] <= pos[home[i]] => next[y] # 0
  BY DEF Chains
<1>7. prev # f /\ prev # mp /\ f # mp /\ prev \in K /\ pos[mp] = pos[prev] - 1 /\ next[f] = 0
  <2>1. next[f] = 0 /\ f # mp /\ prev # f
    BY <1>3
  <2>2. pos[mp] = pos[prev] - 1
    BY <1>4
  <2>3. prev # mp
    BY <1>1, <2>2
  <2> QED
    BY <1>3, <2>1, <2>2, <2>3
<1>8. /\ g \in [S -> Int] /\ g[prev] = f - prev /\ g[mp] = 0
      /\ g[f] = IF next[mp] = 0 THEN 0 ELSE next[mp] + mp - f
      /\ \A y \in S : y \notin {prev, f, mp} => g[y] = next[y]
  BY <1>1, <1>7 DEF MovedNext
<1>9. /\ h \in [L -> L] /\ h[f] = home[mp] /\ h[mp] = mp
      /\ \A y \in K : y # mp => h[y] = home[y]
  BY <1>1, <1>7 DEF MovedHome
<1>10. /\ q \in [S -> Nat] /\ q[f] = pos[mp] /\ q[mp] = pos[f]
       /\ \A y \in S : y \notin {f, mp} => q[y] = pos[y]
  BY <1>1, <1>7 DEF MovedPos
<1>11. \A y \in K : home[y] # mp
  BY <1>5
<1> HIDE DEF g, h, q
<1>12. \A i, j \in S : q[i] = q[j] => i = j
  BY <1>1, <1>2, <1>7, <1>10
<1>13. \A i \in S : i \notin L => g[i] = 0
  BY <1>1, <1>3, <1>7, <1>8
<1>14. ASSUME NEW i \in S, g[i] # 0 PROVE i + g[i] \in L /\ q[i + g[i]] = q[i] - 1
  <2>1. CASE i = prev
    BY <1>1, <1>7, <1>8, <1>10, <2>1
  <2>2. CASE i = f
    <3>1. next[mp] # 0 /\ f + g[f] = mp + next[mp]
      BY <1>1, <1>8, <1>14, <2>2
    <3>2. mp + next[mp] \in K /\ pos[mp + next[mp]] = pos[mp] - 1
      BY <1>1, <1>4, <3>1
    <3>3. mp + next[mp] # mp /\ mp + next[mp] # f
      BY <1>1, <3>1, <3>2
    <3> QED
      BY <1>1, <1>10, <2>2, <3>1, <3>2, <3>3
  <2>3. CASE i = mp
    BY <1>8, <1>14, <2>3
  <2>4. CASE i \notin {prev, f, mp}
    <3>1. g[i] = next[i] /\ i + next[i] \in K /\ pos[i + next[i]] = pos[i] - 1
      BY <1>4, <1>8, <1>14, <2>4
    <3>2. i + next[i] # f
      BY <3>1
    <3>3. i + next[i] # mp
      <4>1. SUFFICES ASSUME i + next[i] = mp PROVE FALSE
        OBVIOUS
      <4>2. pos[i] = pos[prev]
        BY <1>1, <1>7, <3>1, <4>1
      <4> QED
        BY <1>2, <2>4, <4>2
    <3> QED
      BY <1>1, <1>10, <2>4, <3>1, <3>2, <3>3
  <2> QED
    BY <2>1, <2>2, <2>3, <2>4
<1>15. ASSUME NEW i \in L PROVE h[h[i]] = h[i] /\ q[i] <= q[h[i]]
  <2>0. \A k \in K : /\ home[k] \in K /\ home[k] # mp /\ home[k] # f /\ k # f
                    /\ h[home[k]] = home[k] /\ q[home[k]] = pos[home[k]]
    <3> TAKE k \in K
    <3> DEFINE z == home[k]
    <3>1. z \in K /\ z \in S /\ z # mp /\ z # f /\ k # f /\ home[z] = z
      BY <1>1, <1>5, <1>11
    <3> HIDE DEF z
    <3>2. h[z] = z /\ q[z] = pos[z]
      BY <1>9, <1>10, <3>1
    <3> QED
      BY <3>1, <3>2 DEF z
  <2>1. CASE i = f
    <3>1. h[i] = home[mp] /\ q[i] = pos[mp] /\ pos[mp] <= pos[home[mp]]
      BY <1>5, <1>9, <1>10, <2>1
    <3> QED
      BY <2>0, <3>1
  <2>2. CASE i = mp
    <3>1. h[i] = i /\ q[i] \in Nat
      BY <1>1, <1>9, <1>10, <2>2
    <3> QED
      BY <3>1
  <2>3. CASE i \in K /\ i # mp
    <3>1. h[i] = home[i] /\ q[i] = pos[i] /\ pos[i] <= pos[home[i]]
      BY <1>1, <1>5, <1>9, <1>10, <2>0, <2>3
    <3> QED
      BY <2>0, <2>3, <3>1
  <2> QED
    BY <2>1, <2>2, <2>3
<1>16. ASSUME NEW i \in L, NEW y \in S, q[i] < q[y], q[y] <= q[h[i]] PROVE g[y] # 0
  <2>1. CASE i = mp
    BY <1>1, <1>9, <1>10, <1>16, <2>1
  <2> DEFINE o == IF i = f THEN mp ELSE i
             z == IF y = f THEN mp ELSE y
  <2>2. CASE i # mp
    <3>0. o \in K /\ pos[o] = q[i] /\ h[i] = home[o]
      BY <1>1, <1>9, <1>10, <2>2
    <3>1. o \in K /\ pos[o] = q[i] /\ h[i] = home[o] /\ q[h[i]] = pos[home[o]]
      <4> HIDE DEF o
      <4>1. home[o] \in S /\ home[o] # f /\ home[o] # mp
        BY <1>1, <1>11, <3>0
      <4> QED
        BY <1>10, <3>0, <4>1
    <3>2. CASE y # mp
      <4>1. z \in S /\ pos[z] = q[y]
        BY <1>1, <1>10, <3>2
      <4>2. next[z] # 0
        BY <1>6, <1>16, <3>1, <4>1
      <4>3. CASE y = f
        <5>1. next[mp] # 0 /\ mp + next[mp] \in K
          BY <1>1, <1>4, <4>2, <4>3
        <5>2. mp + next[mp] # f
          BY <5>1
        <5> QED
          BY <1>1, <1>8, <4>3, <5>1, <5>2
      <4>4. CASE y = prev
        BY <1>1, <1>7, <1>8, <4>4
      <4>5. CASE y \notin {f, prev}
        BY <1>8, <3>2, <4>2, <4>5
      <4> QED
        BY <4>3, <4>4, <4>5
    <3>3. CASE y = mp
      <4>1. pos[o] < pos[f] /\ pos[f] <= pos[home[o]]
        BY <1>10, <1>16, <3>1, <3>3
      <4>2. next[f] # 0
        BY <1>6, <3>1, <4>1
      <4> QED
        BY <1>7, <4>2
    <3> QED
      BY <3>2, <3>3
  <2> QED
    BY <2>1, <2>2
<1>17. Chains(S, L, g, h, q)
  BY <1>1, <1>8, <1>9, <1>10, <1>12, <1>13, <1>14, <1>15, <1>16 DEF Chains
<1> QED
  BY <1>17 DEF L, g, h, q

(* A key whose main position is that of another one goes to a free node,   *)
(* which follows its main position.                                        *)
ExtendedNext(S, next, mp, f) ==
  [y \in S |-> IF y = f THEN (IF next[mp] = 0 THEN 0 ELSE mp + next[mp] - f)
               ELSE IF y = mp THEN f - mp ELSE next[y]]
ExtendedHome(K, home, mp, f) == [y \in K \cup {f} |-> IF y = f THEN mp ELSE home[y]]
ExtendedPos(S, pos, mp, f) ==
  [y \in S |-> IF y = f THEN pos[mp] ELSE IF pos[y] >= pos[mp] THEN pos[y] + 1 ELSE pos[y]]

LEMMA ChainsExtend ==
  ASSUME NEW S, NEW K, NEW next, NEW home, NEW pos, NEW mp \in K, NEW f \in S \ K,
         Chains(S, K, next, home, pos), home[mp] = mp
  PROVE  Chains(S, K \cup {f}, ExtendedNext(S, next, mp, f), ExtendedHome(K, home, mp, f),
                ExtendedPos(S, pos, mp, f))
<1> DEFINE g == ExtendedNext(S, next, mp, f)
           h == ExtendedHome(K, home, mp, f)
           q == ExtendedPos(S, pos, mp, f)
           L == K \cup {f}
<1>1. /\ S \subseteq Nat /\ K \subseteq S /\ L \subseteq S /\ mp \in S /\ f # mp
      /\ next \in [S -> Int] /\ pos \in [S -> Nat] /\ home \in [K -> K]
  BY DEF Chains
<1>2. \A i, j \in S : pos[i] = pos[j] => i = j
  BY DEF Chains
<1>3. \A i \in S : i \notin K => next[i] = 0
  BY DEF Chains
<1>4. \A i \in S : next[i] # 0 => i + next[i] \in K /\ pos[i + next[i]] = pos[i] - 1
  BY DEF Chains
<1>5. \A i \in K : home[home[i]] = home[i] /\ pos[i] <= pos[home[i]]
  BY DEF Chains
<1>6. \A i \in K, y \in S : pos[i] < pos[y] /\ pos[y] <= pos[home[i]] => next[y] # 0
  BY DEF Chains
<1>8. /\ g \in [S -> Int] /\ g[mp] = f - mp
      /\ g[f] = IF next[mp] = 0 THEN 0 ELSE mp + next[mp] - f
      /\ \A y \in S : y \notin {f, mp} => g[y] = next[y]
  BY <1>1 DEF ExtendedNext
<1>9. h \in [L -> L] /\ h[f] = mp /\ \A y \in K : h[y] = home[y]
  BY <1>1 DEF ExtendedHome
<1>10. /\ q \in [S -> Nat] /\ q[f] = pos[mp] /\ q[mp] = pos[mp] + 1
       /\ \A y \in S : y # f => q[y] = IF pos[y] >= pos[mp] THEN pos[y] + 1 ELSE pos[y]
  BY <1>1 DEF ExtendedPos
<1> HIDE DEF g, h, q
<1>12. \A i, j \in S : q[i] = q[j] => i = j
  BY <1>1, <1>2, <1>10
<1>13. \A i \in S : i \notin L => g[i] = 0
  BY <1>1, <1>3, <1>8
<1>14. ASSUME NEW i \in S, g[i] # 0 PROVE i + g[i] \in L /\ q[i + g[i]] = q[i] - 1
  <2>1. CASE i = mp
    BY <1>1, <1>8, <1>10, <2>1
  <2>2. CASE i = f
    <3>1. next[mp] # 0 /\ f + g[f] = mp + next[mp]
      BY <1>1, <1>8, <1>14, <2>2
    <3>2. mp + next[mp] \in K /\ pos[mp + next[mp]] = pos[mp] - 1
      BY <1>1, <1>4, <3>1
    <3>3. mp + next[mp] # f
      BY <3>2
    <3> QED
      BY <1>1, <1>10, <2>2, <3>1, <3>2, <3>3
  <2>4. CASE i \notin {f, mp}
    <3>1. g[i] = next[i] /\ i + next[i] \in K /\ pos[i + next[i]] = pos[i] - 1
      BY <1>4, <1>8, <1>14, <2>4
    <3>2. i + next[i] # f
      BY <3>1
    <3>3. pos[i] # pos[mp]
      BY <1>1, <1>2, <2>4
    <3> QED
      BY <1>1, <1>10, <2>4, <3>1, <3>2, <3>3
  <2> QED
    BY <2>1, <2>2, <2>4
<1>15. ASSUME NEW i \in L PROVE h[h[i]] = h[i] /\ q[i] <= q[h[i]]
  <2>1. CASE i = f
    <3>1. h[i] = mp /\ q[i] = pos[mp] /\ q[mp] = pos[mp] + 1 /\ pos[mp] \in Nat /\ h[mp] = mp
      BY <1>1, <1>9, <1>10, <2>1
    <3> QED
      BY <3>1
  <2>3. CASE i \in K
    <3>1. home[i] \in K /\ home[home[i]] = home[i] /\ pos[i] <= pos[home[i]] /\ i # f /\ home[i] # f
      BY <1>1, <1>5, <2>3
    <3>2. h[i] = home[i] /\ h[home[i]] = home[i]
      BY <1>9, <2>3, <3>1
    <3> DEFINE z == home[i]
    <3>3. z \in S /\ i \in S /\ z # f /\ i # f /\ pos[i] \in Nat /\ pos[z] \in Nat /\ pos[mp] \in Nat /\ pos[i] <= pos[z]
      BY <1>1, <2>3, <3>1
    <3> HIDE DEF z
    <3>4. q[i] <= q[z]
      BY <1>10, <3>3
    <3> QED
      BY <3>2, <3>4 DEF z
  <2> QED
    BY <2>1, <2>3
<1>16. ASSUME NEW i \in L, NEW y \in S, q[i] < q[y], q[y] <= q[h[i]] PROVE g[y] # 0
  <2>1. CASE i = f
    <3>0. h[i] = mp /\ q[i] = pos[mp] /\ q[mp] = pos[mp] + 1 /\ pos[mp] \in Nat /\ q[y] \in Nat
      BY <1>1, <1>9, <1>10, <2>1
    <3>1. q[y] = q[mp]
      BY <1>16, <3>0
    <3>2. y = mp
      BY <1>1, <1>12, <3>1
    <3> QED
      BY <1>1, <1>8, <3>2
  <2>2. CASE i \in K
    <3>1. home[i] \in K /\ home[home[i]] = home[i] /\ pos[i] <= pos[home[i]] /\ i # f /\ home[i] # f
      BY <1>1, <1>5, <2>2
    <3>2. CASE y = mp
      BY <1>1, <1>8, <3>2
    <3>3. CASE y = f
      <4>0. q[i] < pos[mp] /\ pos[mp] <= q[home[i]] /\ home[i] \in S /\ i \in S /\ i # f
        BY <1>1, <1>9, <1>10, <1>16, <2>2, <3>1, <3>3
      <4> DEFINE z == home[i]
      <4>2. /\ pos[i] \in Nat /\ pos[z] \in Nat /\ pos[mp] \in Nat
            /\ q[i] = IF pos[i] >= pos[mp] THEN pos[i] + 1 ELSE pos[i]
            /\ q[z] = IF pos[z] >= pos[mp] THEN pos[z] + 1 ELSE pos[z]
        BY <1>1, <1>10, <3>1, <4>0
      <4>1. pos[i] < pos[mp] /\ pos[mp] <= pos[home[i]]
        BY <4>0, <4>2
      <4>3. next[mp] # 0
        BY <1>1, <1>6, <2>2, <4>1
      <4>4. mp + next[mp] \in K
        BY <1>1, <1>4, <4>3
      <4>5. mp + next[mp] # f
        BY <4>4
      <4> QED
        BY <1>1, <1>8, <3>3, <4>3, <4>5
    <3>4. CASE y \notin {f, mp}
      <4>0. q[i] < q[y] /\ q[y] <= q[home[i]] /\ home[i] \in S /\ i \in S /\ i # f
        BY <1>1, <1>9, <1>16, <2>2, <3>1
      <4> DEFINE z == home[i]
      <4>2. /\ pos[i] \in Nat /\ pos[z] \in Nat /\ pos[mp] \in Nat /\ pos[y] \in Nat
            /\ q[i] = IF pos[i] >= pos[mp] THEN pos[i] + 1 ELSE pos[i]
            /\ q[y] = IF pos[y] >= pos[mp] THEN pos[y] + 1 ELSE pos[y]
            /\ q[z] = IF pos[z] >= pos[mp] THEN pos[z] + 1 ELSE pos[z]
        BY <1>1, <1>10, <3>1, <3>4, <4>0
      <4>1. pos[i] < pos[y] /\ pos[y] <= pos[home[i]]
        BY <4>0, <4>2
      <4>3. next[y] # 0
        BY <1>6, <2>2, <4>1
      <4> QED
        BY <1>8, <3>4, <4>3
    <3> QED
      BY <3>2, <3>3, <3>4
  <2> QED
    BY <2>1, <2>2
<1>17. Chains(S, L, g, h, q)
  BY <1>1, <1>8, <1>9, <1>10, <1>12, <1>13, <1>14, <1>15, <1>16 DEF Chains
<1> QED
  BY <1>17 DEF L, g, h, q

(* A function defined by recursion exists if what step gives for x only    *)
(* depends on arguments that are smaller than x.                           *)
Local(D, V, mu, step) ==
  \A x \in D : \A g, h \in [D -> V] :
    (\A y \in D : mu[y] < mu[x] => g[y] = h[y]) => step[<<x, g>>] = step[<<x, h>>]
Solves(f, D, step) == \A x \in D : f[x] = step[<<x, f>>]

LEMMA Recursion ==
  ASSUME NEW D, NEW V, NEW v0 \in V, NEW mu \in [D -> Nat],
         NEW step \in [D \X [D -> V] -> V], Local(D, V, mu, step)
  PROVE  \E f \in [D -> V] : Solves(f, D, step)
<1>0. \A x \in D : \A g, h \in [D -> V] :
        (\A y \in D : mu[y] < mu[x] => g[y] = h[y]) => step[<<x, g>>] = step[<<x, h>>]
  BY Zenon DEF Local
<1> DEFINE Upto(f, n) == \A x \in D : mu[x] < n => f[x] = step[<<x, f>>]
<1>1. ASSUME NEW n \in Nat, NEW f \in [D -> V], Upto(f, n)
      PROVE  \E g \in [D -> V] : Upto(g, n + 1)
  <2> DEFINE g == [x \in D |-> step[<<x, f>>]]
  <2>1. g \in [D -> V] /\ \A x \in D : g[x] = step[<<x, f>>]
    OBVIOUS
  <2>2. \A x \in D : mu[x] < n => g[x] = f[x]
    BY <1>1, <2>1
  <2> HIDE DEF g
  <2>3. ASSUME NEW x \in D, mu[x] < n + 1 PROVE g[x] = step[<<x, g>>]
    <3>1. \A y \in D : mu[y] < mu[x] => f[y] = g[y]
      <4> TAKE y \in D
      <4> HAVE mu[y] < mu[x]
      <4>1. mu[y] < n
        BY <2>3
      <4> QED
        BY <2>2, <4>1
    <3>2. step[<<x, f>>] = step[<<x, g>>]
      BY <1>0, <1>1, <2>1, <3>1, Zenon
    <3> QED
      BY <2>1, <3>2
  <2> QED
    BY <2>1, <2>3
<1>2. ASSUME NEW n \in Nat PROVE \E f \in [D -> V] : Upto(f, n)
  <2> DEFINE S == {m \in Nat : ~\E f \in [D -> V] : Upto(f, m)}
  <2>1. CASE S = {}
    BY <2>1
  <2>2. CASE S # {}
    <3>1. PICK m \in S : \A k \in S : m <= k
      BY <2>2, LeastNat
    <3>2. CASE m = 0
      <4>1. [x \in D |-> v0] \in [D -> V] /\ Upto([x \in D |-> v0], 0)
        OBVIOUS
      <4> QED
        BY <3>1, <3>2, <4>1
    <3>3. CASE m # 0
      <4> HIDE DEF Upto
      <4>1. m - 1 \in Nat /\ (m - 1) + 1 = m
        BY <3>1, <3>3
      <4>2. \E f \in [D -> V] : Upto(f, m - 1)
        <5>1. CASE m - 1 \in S
          BY <3>1, <4>1, <5>1
        <5> QED
          BY <4>1, <5>1
      <4>3. \E f \in [D -> V] : Upto(f, m)
        BY <1>1, <4>1, <4>2
      <4> QED
        BY <3>1, <4>3
    <3> QED
      BY <3>2, <3>3
  <2> QED
    BY <2>1, <2>2
<1>3. ASSUME NEW f \in [D -> V], NEW g \in [D -> V], NEW n \in Nat, NEW k \in Nat,
             Upto(f, n), Upto(g, k), NEW z \in D, mu[z] < n, mu[z] < k
      PROVE  f[z] = g[z]
  <2> DEFINE S == {i \in Nat : \E x \in D : mu[x] = i /\ i < n /\ i < k /\ f[x] # g[x]}
  <2>1. CASE S = {}
    BY <1>3, <2>1
  <2>2. CASE S # {}
    <3>1. PICK i \in S : \A j \in S : i <= j
      BY <2>2, LeastNat
    <3>2. PICK x \in D : mu[x] = i /\ i < n /\ i < k /\ f[x] # g[x]
      BY <3>1
    <3>3. \A y \in D : mu[y] < mu[x] => f[y] = g[y]
      <4> TAKE y \in D
      <4> HAVE mu[y] < mu[x]
      <4>1. mu[y] < n /\ mu[y] < k /\ mu[y] \in Nat /\ ~(i <= mu[y])
        BY <3>2
      <4> QED
        BY <3>1, <4>1
    <3>4. step[<<x, f>>] = step[<<x, g>>]
      BY <1>0, <3>3, Zenon
    <3>5. f[x] = step[<<x, f>>] /\ g[x] = step[<<x, g>>]
      BY <1>3, <3>2
    <3> QED
      BY <3>2, <3>4, <3>5
  <2> QED
    BY <2>1, <2>2
<1> DEFINE pick(n) == CHOOSE f \in [D -> V] : Upto(f, n)
           F == [x \in D |-> pick(mu[x] + 1)[x]]
<1> HIDE DEF Upto
<1>4. \A n \in Nat : pick(n) \in [D -> V] /\ Upto(pick(n), n)
  BY <1>2
<1> HIDE DEF pick
<1>5. \A x \in D : mu[x] + 1 \in Nat /\ pick(mu[x] + 1) \in [D -> V]
  BY <1>4
<1>6. F \in [D -> V] /\ \A x \in D : F[x] = pick(mu[x] + 1)[x]
  BY <1>5
<1> HIDE DEF F
<1>7. ASSUME NEW x \in D PROVE F[x] = step[<<x, F>>]
  <2> DEFINE h == pick(mu[x] + 1)
  <2>1. h \in [D -> V] /\ Upto(h, mu[x] + 1) /\ F[x] = h[x]
    BY <1>4, <1>5, <1>6
  <2>2. ASSUME NEW y \in D, mu[y] < mu[x] PROVE h[y] = F[y]
    <3>1. /\ mu[y] + 1 \in Nat /\ mu[x] + 1 \in Nat
          /\ mu[y] < mu[x] + 1 /\ mu[y] < mu[y] + 1
      BY <2>2
    <3>2. pick(mu[y] + 1) \in [D -> V] /\ Upto(pick(mu[y] + 1), mu[y] + 1)
      BY <1>4, <3>1
    <3> HIDE DEF h
    <3>3. h[y] = pick(mu[y] + 1)[y]
      BY <1>3, <2>1, <3>1, <3>2
    <3> QED
      BY <1>6, <3>3
  <2>3. step[<<x, h>>] = step[<<x, F>>]
    <3> HIDE DEF h
    <3> QED
      BY <1>0, <1>6, <2>1, <2>2, Zenon
  <2>4. h[x] = step[<<x, h>>]
    <3>1. mu[x] < mu[x] + 1
      OBVIOUS
    <3> HIDE DEF h
    <3> QED
      BY <2>1, <3>1 DEF Upto
  <2> QED
    BY <2>1, <2>3, <2>4
<1> QED
  BY <1>6, <1>7, Zenon DEF Solves

----------------------------------------------------------------------------
(* Powers of two.                                                          *)

LEMMA TwoTo ==
  \A n \in Nat : /\ twoto[n] = IF n = 0 THEN 1 ELSE 2 * twoto[n - 1]
                 /\ twoto[n] \in Nat /\ twoto[n] > n
<1> DEFINE next(f, n) == IF n = 0 THEN 1 ELSE 2 * f[n - 1]
           mu == [n \in Nat |-> n]
           step == [nf \in Nat \X [Nat -> Nat] |-> next(nf[2], nf[1])]
           P(g) == g = [n \in Nat |-> IF n = 0 THEN 1 ELSE 2 * g[n - 1]]
<1>1. ASSUME NEW f \in [Nat -> Nat], NEW n \in Nat PROVE next(f, n) \in Nat
  OBVIOUS
<1>2. /\ step \in [Nat \X [Nat -> Nat] -> Nat]
      /\ \A f \in [Nat -> Nat], n \in Nat : step[<<n, f>>] = next(f, n)
  <2> HIDE DEF next
  <2> QED
    BY <1>1
<1>3. ASSUME NEW n \in Nat, NEW g \in [Nat -> Nat], NEW h \in [Nat -> Nat],
             \A y \in Nat : y < n => g[y] = h[y]
      PROVE  next(g, n) = next(h, n)
  BY <1>3
<1>4. 0 \in Nat /\ mu \in [Nat -> Nat] /\ \A n \in Nat : mu[n] = n
  OBVIOUS
<1>5. Local(Nat, Nat, mu, step)
  <2> HIDE DEF next, step, mu
  <2>1. \A n \in Nat : \A g, h \in [Nat -> Nat] :
          (\A y \in Nat : y < n => g[y] = h[y]) => step[<<n, g>>] = step[<<n, h>>]
    <3> TAKE n \in Nat
    <3> TAKE g, h \in [Nat -> Nat]
    <3> HAVE \A y \in Nat : y < n => g[y] = h[y]
    <3>1. next(g, n) = next(h, n)
      BY <1>3
    <3> QED
      BY <1>2, <3>1
  <2> QED
    BY <1>4, <2>1 DEF Local
<1> HIDE DEF step, mu
<1>6. \E f \in [Nat -> Nat] : Solves(f, Nat, step)
  BY <1>2, <1>4, <1>5, Recursion
<1>7. PICK f \in [Nat -> Nat] : \A n \in Nat : f[n] = next(f, n)
  <2> HIDE DEF next
  <2> QED
    BY <1>2, <1>6 DEF Solves
<1>8. f = [n \in Nat |-> f[n]] /\ P(f)
  BY <1>7
<1>9. twoto = CHOOSE g : P(g)
  BY Zenon DEF twoto
<1>10. P(twoto)
  <2> HIDE DEF P
  <2> QED
    BY <1>8, <1>9, Zenon
<1>11. \A n \in Nat : twoto[n] = IF n = 0 THEN 1 ELSE 2 * twoto[n - 1]
  BY <1>10
<1> DEFINE S == {n \in Nat : ~(twoto[n] \in Nat /\ twoto[n] > n)}
<1>12. CASE S = {}
  BY <1>11, <1>12
<1>13. CASE S # {}
  <2>1. PICK n \in S : \A m \in S : n <= m
    BY <1>13, LeastNat
  <2>2. CASE n = 0
    BY <1>11, <2>1, <2>2
  <2>3. CASE n # 0
    <3>1. n - 1 \in Nat /\ n - 1 \notin S
      BY <2>1, <2>3
    <3>2. twoto[n - 1] \in Nat /\ twoto[n - 1] > n - 1 /\ twoto[n] = 2 * twoto[n - 1]
      BY <1>11, <2>1, <2>3, <3>1
    <3> DEFINE z == twoto[n - 1]
               w == twoto[n]
    <3>3. z \in Nat /\ z > n - 1 /\ w = 2 * z
      BY <3>2
    <3> HIDE DEF z, w
    <3>4. w \in Nat /\ w > n
      BY <2>1, <2>3, <3>3
    <3> QED
      BY <2>1, <3>4 DEF w
  <2> QED
    BY <2>2, <2>3
<1> QED
  BY <1>12, <1>13

LEMMA CeilLog ==
  ASSUME NEW n \in Nat
  PROVE  ceillog2(n) \in Nat /\ twoto[ceillog2(n)] >= n
<1> DEFINE T == {l \in Nat : twoto[l] >= n}
           P(l) == twoto[l] >= n /\ \A j \in 0..(l - 1) : twoto[j] < n
<1>1. n \in T
  <2>1. twoto[n] \in Nat /\ twoto[n] > n
    BY TwoTo
  <2> QED
    BY <2>1
<1>2. PICK l \in T : \A m \in T : l <= m
  BY <1>1, LeastNat
<1>3. l \in 0..n /\ twoto[l] >= n
  BY <1>1, <1>2
<1>4. ASSUME NEW j \in 0..(l - 1) PROVE twoto[j] < n
  <2>1. j \in Nat /\ ~(l <= j)
    BY <1>3
  <2>2. twoto[j] \in Nat
    BY <2>1, TwoTo
  <2>3. j \notin T
    BY <1>2, <2>1
  <2> QED
    BY <2>1, <2>2, <2>3
<1>5. \E m \in 0..n : P(m)
  BY <1>3, <1>4
<1>6. ceillog2(n) = CHOOSE m \in 0..n : P(m)
  BY Zenon DEF ceillog2
<1>7. ceillog2(n) \in 0..n /\ P(ceillog2(n))
  <2> HIDE DEF P
  <2> QED
    BY <1>5, <1>6
<1> QED
  BY <1>7

----------------------------------------------------------------------------
(* What a table is, and its hash part.                                     *)

Cell == Values \cup {Empty}
Unkeyed == {NoKey, <<"dummy", 0>>}
DeadKeys == {<<"dead", k[2]>> : k \in {j \in Keys : j[1] = "str"}}
Node == [key : Keys \cup DeadKeys \cup Unkeyed, val : Cell, next : Int]
TableRec == [array : Seq(Cell), hint : Nat, node : UNION {[S -> Node] : S \in SUBSET Nat},
             lsizenode : Nat, dummy : BOOLEAN, lastfree : Nat, asserts : BOOLEAN]
Shaped(u) == u \in TableRec /\ u.node \in [NodesOf(u) -> Node]

(* The key of a dead object is in the chain of the one it was.             *)
Original(key) == IF key[1] = "dead" THEN <<"str", key[2]>> ELSE key
Keyed(u) == {n \in NodesOf(u) : u.node[n].key \notin Unkeyed}
Home(u, n) == mainposition(u, Original(u.node[n].key))
Nexts(u) == [n \in NodesOf(u) |-> u.node[n].next]
Homes(u) == [n \in Keyed(u) |-> Home(u, n)]

(* The key of a live object is found before those of dead ones that were   *)
(* the same.                                                               *)
DeadLast(u, pos) ==
  \A m, n \in Keyed(u) :
    u.node[m].key \in Keys /\ u.node[n].key \notin Keys /\ Original(u.node[n].key) = u.node[m].key
      => pos[n] < pos[m]
Plain(u) ==
  \A n \in NodesOf(u) : /\ u.node[n].key \notin Keys => u.node[n].val = Empty
                        /\ u.node[n].key \in Unkeyed => u.node[n].next = 0
Unique(u) ==
  \A m, n \in NodesOf(u) : u.node[m].key \in Keys /\ u.node[m].key = u.node[n].key => m = n
DummyOK(u) ==
  /\ u.dummy => u.lsizenode = 0 /\ u.node[0] = dummynode
  /\ ~u.dummy => \A n \in NodesOf(u) : u.node[n].key # <<"dummy", 0>>
(* No free node is passed over.                                            *)
FreesBelow(u) ==
  haslastfree(u) => \A n \in NodesOf(u) : u.node[n].key = NoKey => n < u.lastfree
HashWith(u, pos) ==
  /\ Shaped(u) /\ Plain(u) /\ Unique(u) /\ DummyOK(u) /\ FreesBelow(u) /\ DeadLast(u, pos)
  /\ Chains(NodesOf(u), Keyed(u), Nexts(u), Homes(u), pos)
HashOK(u) == \E pos : HashWith(u, pos)

LEMMA KeyFacts ==
  /\ \A k \in Keys : /\ k = <<k[1], k[2]>> /\ k[1] \in {"int", "str", "flt"}
                     /\ k \notin Unkeyed /\ k \notin DeadKeys /\ Original(k) = k
  /\ \A d \in DeadKeys : /\ d \notin Unkeyed /\ d \notin Keys /\ d[1] = "dead"
                         /\ Original(d) \in Keys /\ Original(d) = <<"str", d[2]>>
<1>1. ASSUME NEW k \in Keys
      PROVE  /\ k = <<k[1], k[2]>> /\ k[1] \in {"int", "str", "flt"}
             /\ k \notin Unkeyed /\ k \notin DeadKeys /\ Original(k) = k
  <2>1. k = <<k[1], k[2]>> /\ k[1] \in {"int", "str", "flt"}
    BY KeysAssumption
  <2>2. k \notin DeadKeys
    BY <2>1 DEF DeadKeys
  <2> QED
    BY <2>1, <2>2 DEF Unkeyed, NoKey, Original
<1>2. ASSUME NEW d \in DeadKeys
      PROVE  /\ d \notin Unkeyed /\ d \notin Keys /\ d[1] = "dead"
             /\ Original(d) \in Keys /\ Original(d) = <<"str", d[2]>>
  <2>1. PICK k \in Keys : k[1] = "str" /\ d = <<"dead", k[2]>>
    BY DEF DeadKeys
  <2>2. k = <<"str", k[2]>>
    BY <2>1, KeysAssumption
  <2> QED
    BY <1>1, <2>1, <2>2 DEF Unkeyed, NoKey, Original
<1> QED
  BY <1>1, <1>2

LEMMA ModRange ==
  ASSUME NEW i \in Int, NEW m \in Nat, m > 0
  PROVE  i % m \in 0..(m - 1)
  OBVIOUS

LEMMA Places ==
  ASSUME NEW u, u.lsizenode \in Nat
  PROVE  /\ sizenode(u) \in Nat /\ sizenode(u) > 0 /\ NodesOf(u) \subseteq Nat /\ 0 \in NodesOf(u)
         /\ IsFiniteSet(NodesOf(u)) /\ Cardinality(NodesOf(u)) = sizenode(u)
<1>1. twoto[u.lsizenode] \in Nat /\ twoto[u.lsizenode] > 0
  <2>1. twoto[u.lsizenode] \in Nat /\ twoto[u.lsizenode] > u.lsizenode
    BY TwoTo
  <2> QED
    BY <2>1
<1>2. sizenode(u) \in Nat /\ sizenode(u) > 0
  BY <1>1 DEF sizenode
<1> DEFINE z == sizenode(u)
<1>3. NodesOf(u) = 0..(z - 1)
  BY Zenon DEF NodesOf
<1>4. z \in Nat /\ z > 0
  BY <1>2
<1> HIDE DEF z
<1>5. 0 \in Int /\ z - 1 \in Int /\ z = (z - 1) - 0 + 1 /\ ~(0 > z - 1) /\ 0..(z - 1) \subseteq Nat /\ 0 \in 0..(z - 1)
  BY <1>4
<1>6. IsFiniteSet(0..(z - 1)) /\ Cardinality(0..(z - 1)) = z
  BY <1>5, FS_Interval
<1> QED
  BY <1>2, <1>3, <1>5, <1>6 DEF z

LEMMA MainPosition ==
  ASSUME NEW u, u.lsizenode \in Nat, NEW k \in Keys
  PROVE  mainposition(u, k) \in NodesOf(u)
<1> DEFINE z == sizenode(u)
<1>1. z \in Nat /\ z > 0 /\ NodesOf(u) = 0..(z - 1)
  BY Places, Zenon DEF NodesOf
<1>2. Mod(u) = (IF z <= 2 THEN 1 ELSE z - 1)
  BY Zenon DEF Mod
<1> HIDE DEF z
<1>3. Mod(u) \in Nat /\ Mod(u) > 0 /\ Mod(u) <= z
  BY <1>1, <1>2
<1>4. \A i \in Int : i % Mod(u) \in NodesOf(u) /\ i % z \in NodesOf(u)
  <2> TAKE i \in Int
  <2>1. i % Mod(u) \in 0..(Mod(u) - 1) /\ i % z \in 0..(z - 1)
    BY <1>1, <1>3, ModRange
  <2> QED
    BY <1>1, <1>3, <2>1
<1>5. CASE k[1] = "int"
  <2>1. k[2] \in Int
    BY <1>5, KeysAssumption
  <2>2. mainposition(u, k) = k[2] % Mod(u)
    BY <1>5 DEF mainposition
  <2> QED
    BY <1>4, <2>1, <2>2
<1>6. CASE k[1] = "flt"
  <2>1. Hash(k) \in Int
    BY <1>6, KeysAssumption
  <2>2. mainposition(u, k) = Hash(k) % Mod(u)
    BY <1>6 DEF mainposition
  <2> QED
    BY <1>4, <2>1, <2>2
<1>7. CASE k[1] = "str"
  <2>1. Hash(k) \in Int
    BY <1>7, KeysAssumption
  <2>2. mainposition(u, k) = Hash(k) % z
    BY <1>7 DEF mainposition, z
  <2> QED
    BY <1>4, <2>1, <2>2
<1> QED
  BY <1>5, <1>6, <1>7, KeyFacts

ChainNext(u, k, deadok, f, n) ==
  IF equalkey(k, u.node[n], deadok) THEN n
  ELSE IF u.node[n].next = 0 THEN Absent ELSE f[n + u.node[n].next]

(* Links stay among the nodes with keys, and lead down.                    *)
LEMMA Links ==
  ASSUME NEW u, NEW pos, HashWith(u, pos), NEW n \in NodesOf(u)
  PROVE  /\ pos[n] \in Nat /\ u.node[n] \in Node /\ u.node[n].next \in Int
         /\ NodesOf(u) \subseteq Nat
         /\ u.node[n].next # 0 => /\ n + u.node[n].next \in Keyed(u)
                                  /\ n + u.node[n].next \in NodesOf(u)
                                  /\ pos[n + u.node[n].next] = pos[n] - 1
<1>1. Chains(NodesOf(u), Keyed(u), Nexts(u), Homes(u), pos) /\ Shaped(u)
  BY DEF HashWith
<1>2. Nexts(u)[n] = u.node[n].next
  BY DEF Nexts
<1>3. u.node[n] \in Node
  BY <1>1 DEF Shaped
<1>4. /\ NodesOf(u) \subseteq Nat /\ pos[n] \in Nat
      /\ Nexts(u)[n] # 0 => n + Nexts(u)[n] \in Keyed(u) /\ pos[n + Nexts(u)[n]] = pos[n] - 1
  BY <1>1 DEF Chains
<1>5. Keyed(u) \subseteq NodesOf(u)
  BY DEF Keyed
<1> QED
  BY <1>2, <1>3, <1>4, <1>5 DEF Node

LEMMA ChainRuns ==
  ASSUME NEW u, NEW pos, HashWith(u, pos), NEW k, NEW deadok
  PROVE  \E c : /\ \A n \in NodesOf(u) : c[n] = ChainNext(u, k, deadok, c, n)
                /\ getgeneric(u, k, deadok) = c[mainposition(u, k)]
<1> DEFINE D == NodesOf(u)
           V == D \cup {Absent}
           next(f, n) == ChainNext(u, k, deadok, f, n)
           step == [nf \in D \X [D -> V] |-> next(nf[2], nf[1])]
           P(g) == g = [n \in D |-> IF equalkey(k, u.node[n], deadok) THEN n
                                    ELSE IF u.node[n].next = 0 THEN Absent ELSE g[n + u.node[n].next]]
<1>1. \A n \in D : /\ pos[n] \in Nat
                   /\ u.node[n].next # 0 => /\ n + u.node[n].next \in D
                                            /\ pos[n + u.node[n].next] < pos[n]
  BY Links
<1>2. ASSUME NEW f \in [D -> V], NEW n \in D PROVE next(f, n) \in V
  BY <1>1 DEF ChainNext
<1>3. /\ step \in [D \X [D -> V] -> V]
      /\ \A f \in [D -> V], n \in D : step[<<n, f>>] = next(f, n)
  <2> HIDE DEF next, V, D
  <2> QED
    BY <1>2
<1>4. Local(D, V, pos, step)
  <2>1. ASSUME NEW n \in D, NEW g \in [D -> V], NEW h \in [D -> V],
               \A y \in D : pos[y] < pos[n] => g[y] = h[y]
        PROVE  step[<<n, g>>] = step[<<n, h>>]
    <3>1. next(g, n) = next(h, n)
      BY <1>1, <2>1 DEF ChainNext
    <3> HIDE DEF next, V, D, step
    <3> QED
      BY <1>3, <3>1
  <2> HIDE DEF step, D, V
  <2> QED
    BY <2>1, Zenon DEF Local
<1>5. Absent \in V /\ pos \in [D -> Nat]
  BY DEF HashWith, Chains
<1>6. \E f \in [D -> V] : Solves(f, D, step)
  <2> HIDE DEF step, D, V
  <2> QED
    BY <1>3, <1>4, <1>5, Recursion
<1>7. PICK f \in [D -> V] : \A n \in D : f[n] = next(f, n)
  <2> HIDE DEF next, D, V, step
  <2> QED
    BY <1>3, <1>6 DEF Solves
<1>8. P(f)
  <2>1. f = [n \in D |-> next(f, n)]
    <3> HIDE DEF next, D, V
    <3> QED
      BY <1>7
  <2> QED
    BY <2>1, Zenon DEF ChainNext
<1> DEFINE c == CHOOSE g : P(g)
<1>9. getgeneric(u, k, deadok) = c[mainposition(u, k)]
  BY Zenon DEF getgeneric
<1>10. P(c)
  <2> HIDE DEF P
  <2> QED
    BY <1>8, Zenon
<1>11. \A n \in D : c[n] = next(c, n)
  <2> DEFINE cc == c
  <2>1. P(cc)
    BY <1>10
  <2> HIDE DEF c, cc
  <2>2. \A n \in D : cc[n] = next(cc, n)
    BY <2>1 DEF ChainNext
  <2> QED
    BY <2>2 DEF cc
<1> HIDE DEF c
<1> QED
  BY <1>9, <1>11

(* The search finds the first node with the key in the chain.              *)
LEMMA Finds ==
  ASSUME NEW u, NEW pos, HashWith(u, pos), NEW k, NEW deadok,
         NEW h \in NodesOf(u), h = mainposition(u, k), NEW m \in NodesOf(u), pos[m] <= pos[h],
         \A y \in NodesOf(u) : pos[m] < pos[y] /\ pos[y] <= pos[h] =>
           u.node[y].next # 0 /\ ~equalkey(k, u.node[y], deadok),
         equalkey(k, u.node[m], deadok)
  PROVE  getgeneric(u, k, deadok) = m
<1>1. PICK c : /\ \A n \in NodesOf(u) : c[n] = ChainNext(u, k, deadok, c, n)
               /\ getgeneric(u, k, deadok) = c[h]
  BY ChainRuns
<1> DEFINE Far == {d \in Nat : \E n \in NodesOf(u) : /\ pos[m] <= pos[n] /\ pos[n] <= pos[h] /\ c[n] # m
                                                     /\ d = pos[n] - pos[m]}
<1>2. \A i, j \in NodesOf(u) : pos[i] = pos[j] => i = j
  BY DEF HashWith, Chains
<1>0. pos[m] \in Nat /\ pos[h] \in Nat
  BY Links
<1>3. CASE Far = {}
  <2>1. pos[h] - pos[m] \in Nat
    BY <1>0
  <2> QED
    BY <1>0, <1>1, <1>3, <2>1
<1>4. CASE Far # {}
  <2>1. PICK d \in Far : \A e \in Far : d <= e
    BY <1>4, LeastNat
  <2>2. PICK n \in NodesOf(u) : pos[m] <= pos[n] /\ pos[n] <= pos[h] /\ c[n] # m /\ d = pos[n] - pos[m]
    BY <2>1
  <2>3. pos[n] \in Nat /\ c[n] = ChainNext(u, k, deadok, c, n)
    BY <1>1, Links
  <2>4. n # m
    BY <2>2, <2>3 DEF ChainNext
  <2>5. pos[m] < pos[n]
    BY <1>0, <1>2, <2>2, <2>3, <2>4
  <2>6. u.node[n].next # 0 /\ ~equalkey(k, u.node[n], deadok)
    BY <2>2, <2>5
  <2> DEFINE y == n + u.node[n].next
  <2>7. y \in NodesOf(u) /\ pos[y] = pos[n] - 1 /\ c[n] = c[y]
    BY <2>3, <2>6, Links DEF ChainNext
  <2> HIDE DEF y
  <2>8. /\ pos[y] - pos[m] \in Nat /\ pos[m] <= pos[y] /\ pos[y] <= pos[h]
        /\ ~(d <= pos[y] - pos[m])
    BY <1>0, <2>2, <2>3, <2>5, <2>7
  <2>9. pos[y] - pos[m] \notin Far
    BY <2>1, <2>8
  <2> QED
    BY <2>2, <2>7, <2>8, <2>9
<1> QED
  BY <1>3, <1>4

(* It finds nothing where there is nothing.                                *)
LEMMA Misses ==
  ASSUME NEW u, NEW pos, HashWith(u, pos), NEW k, NEW deadok, mainposition(u, k) \in NodesOf(u),
         \A y \in NodesOf(u) : ~equalkey(k, u.node[y], deadok)
  PROVE  getgeneric(u, k, deadok) = Absent
<1> DEFINE h == mainposition(u, k)
<1>1. PICK c : /\ \A n \in NodesOf(u) : c[n] = ChainNext(u, k, deadok, c, n)
               /\ getgeneric(u, k, deadok) = c[h]
  BY ChainRuns
<1> DEFINE Far == {d \in Nat : \E n \in NodesOf(u) : c[n] # Absent /\ d = pos[n]}
<1>3. CASE Far = {}
  <2>1. pos[h] \in Nat
    BY Links
  <2> QED
    BY <1>1, <1>3, <2>1
<1>4. CASE Far # {}
  <2>1. PICK d \in Far : \A e \in Far : d <= e
    BY <1>4, LeastNat
  <2>2. PICK n \in NodesOf(u) : c[n] # Absent /\ d = pos[n]
    BY <2>1
  <2>3. pos[n] \in Nat /\ c[n] = ChainNext(u, k, deadok, c, n) /\ ~equalkey(k, u.node[n], deadok)
    BY <1>1, Links
  <2>6. u.node[n].next # 0
    BY <2>2, <2>3 DEF ChainNext
  <2> DEFINE y == n + u.node[n].next
  <2>7. y \in NodesOf(u) /\ pos[y] = pos[n] - 1 /\ c[n] = c[y]
    BY <2>3, <2>6, Links DEF ChainNext
  <2> HIDE DEF y
  <2>8. pos[y] \in Nat /\ ~(d <= pos[y])
    BY <2>2, <2>3, <2>7, Links
  <2>9. pos[y] \notin Far
    BY <2>1, <2>8
  <2> QED
    BY <2>2, <2>7, <2>8, <2>9
<1> QED
  BY <1>3, <1>4

(* It depends on links and on keys, up to what it takes for equal.         *)
SameNodes(u, w, k, deadok) ==
  \A n \in NodesOf(u) : /\ u.node[n].next = w.node[n].next
                        /\ equalkey(k, u.node[n], deadok) <=> equalkey(k, w.node[n], deadok)

LEMMA FindsSame ==
  ASSUME NEW u, NEW pos, HashWith(u, pos), NEW w, NEW pos2, HashWith(w, pos2), NEW k, NEW deadok,
         mainposition(u, k) \in NodesOf(u),
         mainposition(u, k) = mainposition(w, k), NodesOf(u) = NodesOf(w), SameNodes(u, w, k, deadok)
  PROVE  getgeneric(u, k, deadok) = getgeneric(w, k, deadok)
<1> DEFINE h == mainposition(u, k)
<1>1. PICK c : /\ \A n \in NodesOf(u) : c[n] = ChainNext(u, k, deadok, c, n)
               /\ getgeneric(u, k, deadok) = c[h]
  BY ChainRuns
<1>2. PICK e : /\ \A n \in NodesOf(u) : e[n] = ChainNext(w, k, deadok, e, n)
               /\ getgeneric(w, k, deadok) = e[h]
  BY ChainRuns
<1> DEFINE Far == {d \in Nat : \E n \in NodesOf(u) : c[n] # e[n] /\ d = pos[n]}
<1>3. CASE Far = {}
  <2>1. pos[h] \in Nat
    BY Links
  <2> QED
    BY <1>1, <1>2, <1>3, <2>1
<1>4. CASE Far # {}
  <2>1. PICK d \in Far : \A i \in Far : d <= i
    BY <1>4, LeastNat
  <2>2. PICK n \in NodesOf(u) : c[n] # e[n] /\ d = pos[n]
    BY <2>1
  <2>3. pos[n] \in Nat /\ c[n] = ChainNext(u, k, deadok, c, n) /\ e[n] = ChainNext(w, k, deadok, e, n)
    BY <1>1, <1>2, Links
  <2>4. u.node[n].next = w.node[n].next /\ (equalkey(k, u.node[n], deadok) <=> equalkey(k, w.node[n], deadok))
    BY DEF SameNodes
  <2>6. u.node[n].next # 0 /\ ~equalkey(k, u.node[n], deadok)
    BY <2>2, <2>3, <2>4 DEF ChainNext
  <2> DEFINE y == n + u.node[n].next
  <2>7. y \in NodesOf(u) /\ pos[y] = pos[n] - 1 /\ c[n] = c[y] /\ e[n] = e[y]
    BY <2>3, <2>4, <2>6, Links DEF ChainNext
  <2> HIDE DEF y
  <2>8. pos[y] \in Nat /\ ~(d <= pos[y])
    BY <2>2, <2>3, <2>7, Links
  <2>9. pos[y] \notin Far
    BY <2>1, <2>8
  <2> QED
    BY <2>2, <2>7, <2>8, <2>9
<1> QED
  BY <1>3, <1>4

----------------------------------------------------------------------------
(* A key that is there is found, one that is not is not.                   *)

LEMMA HomeFacts ==
  ASSUME NEW u, NEW pos, HashWith(u, pos), NEW n \in Keyed(u)
  PROVE  /\ Homes(u)[n] = Home(u, n) /\ Home(u, n) \in Keyed(u) /\ Home(u, n) \in NodesOf(u) /\ n \in NodesOf(u)
         /\ Home(u, Home(u, n)) = Home(u, n) /\ pos[n] <= pos[Home(u, n)]
         /\ \A y \in NodesOf(u) : pos[n] < pos[y] /\ pos[y] <= pos[Home(u, n)] => u.node[y].next # 0
<1>1. Chains(NodesOf(u), Keyed(u), Nexts(u), Homes(u), pos)
  BY DEF HashWith
<1>2. \A m \in Keyed(u) : Homes(u)[m] = Home(u, m)
  BY DEF Homes
<1>3. \A y \in NodesOf(u) : Nexts(u)[y] = u.node[y].next
  BY DEF Nexts
<1>4. /\ Homes(u) \in [Keyed(u) -> Keyed(u)]
      /\ Homes(u)[Homes(u)[n]] = Homes(u)[n] /\ pos[n] <= pos[Homes(u)[n]]
      /\ \A y \in NodesOf(u) : pos[n] < pos[y] /\ pos[y] <= pos[Homes(u)[n]] => Nexts(u)[y] # 0
  BY <1>1 DEF Chains
<1>5. Keyed(u) \subseteq NodesOf(u)
  BY DEF Keyed
<1>6. Homes(u)[n] \in Keyed(u)
  BY <1>4
<1> QED
  BY <1>2, <1>3, <1>4, <1>5, <1>6

LEMMA FindsKey ==
  ASSUME NEW u, HashOK(u), NEW n \in NodesOf(u), u.node[n].key \in Keys, NEW deadok \in BOOLEAN
  PROVE  getgeneric(u, u.node[n].key, deadok) = n
<1> DEFINE k == u.node[n].key
<1>1. PICK pos : HashWith(u, pos)
  BY DEF HashOK
<1>2. n \in Keyed(u) /\ Original(k) = k /\ Home(u, n) = mainposition(u, k)
  BY KeyFacts DEF Keyed, Home
<1> DEFINE h == Home(u, n)
<1>3. /\ h \in NodesOf(u) /\ pos[n] <= pos[h]
      /\ \A y \in NodesOf(u) : pos[n] < pos[y] /\ pos[y] <= pos[h] => u.node[y].next # 0
  BY <1>1, <1>2, HomeFacts
<1>4. ASSUME NEW y \in NodesOf(u), pos[n] < pos[y] PROVE ~equalkey(k, u.node[y], deadok)
  <2>0. pos[n] \in Nat /\ pos[y] \in Nat
    BY <1>1, Links
  <2>1. u.node[y].key # k
    BY <1>1, <1>4, <2>0 DEF HashWith, Unique
  <2>2. ASSUME k[1] = "str", u.node[y].key = <<"dead", k[2]>> PROVE FALSE
    <3>1. u.node[y].key \in DeadKeys
      BY <2>2 DEF DeadKeys
    <3>2. k = <<"str", k[2]>>
      BY <2>2, KeyFacts
    <3>3. y \in Keyed(u) /\ u.node[y].key \notin Keys /\ Original(u.node[y].key) = k
      BY <2>2, <3>1, <3>2, KeyFacts DEF Keyed
    <3>4. pos[y] < pos[n]
      BY <1>1, <1>2, <3>3 DEF HashWith, DeadLast
    <3> QED
      BY <1>4, <2>0, <3>4
  <2> QED
    BY <2>1, <2>2 DEF equalkey
<1>5. equalkey(k, u.node[n], deadok)
  BY DEF equalkey
<1> HIDE DEF k
<1>6. h = mainposition(u, k)
  BY <1>2
<1> HIDE DEF h
<1>7. getgeneric(u, k, deadok) = n
  BY <1>1, <1>3, <1>4, <1>5, <1>6, Finds
<1> QED
  BY <1>7 DEF k

LEMMA MissesKey ==
  ASSUME NEW u, HashOK(u), NEW k \in Keys, \A n \in NodesOf(u) : u.node[n].key # k
  PROVE  getgeneric(u, k, FALSE) = Absent
<1>1. PICK pos : HashWith(u, pos)
  BY DEF HashOK
<1>2. u.lsizenode \in Nat
  BY <1>1 DEF HashWith, Shaped, TableRec
<1>3. mainposition(u, k) \in NodesOf(u)
  BY <1>2, MainPosition
<1>4. \A y \in NodesOf(u) : ~equalkey(k, u.node[y], FALSE)
  BY DEF equalkey
<1> QED
  BY <1>1, <1>3, <1>4, Misses

LEMMA FoundHasKey ==
  ASSUME NEW u, HashOK(u), NEW k \in Keys
  PROVE  \/ /\ getgeneric(u, k, FALSE) \in NodesOf(u) /\ getgeneric(u, k, FALSE) # Absent
            /\ u.node[getgeneric(u, k, FALSE)].key = k
         \/ /\ getgeneric(u, k, FALSE) = Absent
            /\ \A n \in NodesOf(u) : u.node[n].key # k
<1>1. CASE \E n \in NodesOf(u) : u.node[n].key = k
  <2>1. PICK n \in NodesOf(u) : u.node[n].key = k
    BY <1>1
  <2>2. getgeneric(u, k, FALSE) = n
    BY <2>1, FindsKey
  <2>3. NodesOf(u) \subseteq Nat
    BY DEF HashOK, HashWith, Chains
  <2>4. n # Absent
    BY <2>3 DEF Absent
  <2> QED
    BY <2>1, <2>2, <2>4
<1>2. CASE ~\E n \in NodesOf(u) : u.node[n].key = k
  BY <1>2, MissesKey
<1> QED
  BY <1>1, <1>2

(* Of natural numbers that are bounded there is a largest.                 *)
LEMMA LargestNat ==
  ASSUME NEW S \in SUBSET Nat, NEW b \in Nat, \A n \in S : n <= b, S # {}
  PROVE  Largest(S) \in S /\ \A n \in S : n <= Largest(S)
<1> DEFINE T == {b - n : n \in S}
<1>1. T \in SUBSET Nat /\ T # {}
  <2>1. ASSUME NEW n \in S PROVE b - n \in Nat
    OBVIOUS
  <2>2. PICK n \in S : TRUE
    OBVIOUS
  <2>3. b - n \in T
    OBVIOUS
  <2> QED
    BY <2>1, <2>3
<1>2. PICK d \in T : \A e \in T : d <= e
  BY <1>1, LeastNat
<1>3. PICK m \in S : d = b - m
  BY <1>2
<1>4. \A n \in S : n <= m
  <2> TAKE n \in S
  <2>1. b - n \in T
    OBVIOUS
  <2> QED
    BY <1>2, <1>3, <2>1
<1>5. Largest(S) = CHOOSE n \in S : \A j \in S : j <= n
  BY Zenon DEF Largest
<1> QED
  BY <1>3, <1>4, <1>5

LEMMA SmallestNat ==
  ASSUME NEW S \in SUBSET Nat, S # {}
  PROVE  Smallest(S) \in S /\ \A n \in S : Smallest(S) <= n
<1>1. \E n \in S : \A m \in S : n <= m
  BY LeastNat
<1> QED
  BY <1>1 DEF Smallest

LEMMA HashParts ==
  ASSUME NEW u, NEW pos, HashWith(u, pos)
  PROVE  /\ HashOK(u) /\ u \in TableRec /\ u.node \in [NodesOf(u) -> Node] /\ u.lsizenode \in Nat
         /\ u.array \in Seq(Cell) /\ u.dummy \in BOOLEAN /\ u.asserts \in BOOLEAN /\ u.lastfree \in Nat
         /\ NodesOf(u) \subseteq Nat /\ 0 \in NodesOf(u) /\ Keyed(u) \subseteq NodesOf(u)
         /\ \A n \in NodesOf(u) : /\ u.node[n].key \in Keys \cup DeadKeys \cup Unkeyed
                                  /\ u.node[n].val \in Cell /\ u.node[n].next \in Int
         /\ pos \in [NodesOf(u) -> Nat]
         /\ \A m, n \in NodesOf(u) : pos[m] = pos[n] => m = n
<1>1. Shaped(u) /\ Chains(NodesOf(u), Keyed(u), Nexts(u), Homes(u), pos) /\ HashOK(u)
  BY DEF HashWith, HashOK
<1>2. u \in TableRec /\ u.node \in [NodesOf(u) -> Node]
  BY <1>1 DEF Shaped
<1>3. /\ u.lsizenode \in Nat /\ u.array \in Seq(Cell) /\ u.dummy \in BOOLEAN
      /\ u.asserts \in BOOLEAN /\ u.lastfree \in Nat
  BY <1>2 DEF TableRec
<1>4. \A n \in NodesOf(u) : /\ u.node[n].key \in Keys \cup DeadKeys \cup Unkeyed
                            /\ u.node[n].val \in Cell /\ u.node[n].next \in Int
  BY <1>2 DEF Node
<1>5. NodesOf(u) \subseteq Nat /\ 0 \in NodesOf(u)
  BY <1>3, Places
<1>6. pos \in [NodesOf(u) -> Nat] /\ \A m, n \in NodesOf(u) : pos[m] = pos[n] => m = n
  BY <1>1 DEF Chains
<1>7. Keyed(u) \subseteq NodesOf(u)
  BY DEF Keyed
<1> QED
  BY <1>1, <1>2, <1>3, <1>4, <1>5, <1>6, <1>7

(* A free node is found as long as there is one, and it is the last one.   *)
LEMMA FreePlace ==
  ASSUME NEW u, HashOK(u)
  PROVE  LET f == getfreepos(u)
         IN /\ f = Absent => \A n \in NodesOf(u) : u.node[n].key # NoKey
            /\ f # Absent => /\ f \in NodesOf(u) /\ u.node[f].key = NoKey
                             /\ \A n \in NodesOf(u) : u.node[n].key = NoKey => n <= f
<1> DEFINE S == {n \in NodesOf(u) : u.node[n].key = NoKey}
<1>1. PICK pos : HashWith(u, pos)
  BY DEF HashOK
<1>2. /\ sizenode(u) \in Nat /\ NodesOf(u) \subseteq Nat
      /\ \A n \in NodesOf(u) : n < sizenode(u) /\ n <= sizenode(u)
  <2>1. u.lsizenode \in Nat
    BY <1>1, HashParts
  <2>2. sizenode(u) \in Nat /\ NodesOf(u) = 0..(sizenode(u) - 1)
    BY <2>1, Places, Zenon DEF NodesOf
  <2> QED
    BY <2>2
<1>3. Frees(u, IF haslastfree(u) THEN u.lastfree ELSE sizenode(u)) = S
  <2>1. haslastfree(u) => \A n \in S : n < u.lastfree
    BY <1>1 DEF HashWith, FreesBelow
  <2> QED
    BY <1>2, <2>1 DEF Frees
<1>4. getfreepos(u) = Largest(S)
  BY <1>3, Zenon DEF getfreepos
<1>5. CASE S = {}
  <2>1. Largest({}) = Absent
    BY DEF Largest
  <2>2. getfreepos(u) = Absent
    BY <1>4, <1>5, <2>1
  <2>3. \A n \in NodesOf(u) : u.node[n].key # NoKey
    BY <1>5
  <2> QED
    BY <2>2, <2>3
<1>6. CASE S # {}
  <2>1. S \in SUBSET Nat /\ \A n \in S : n <= sizenode(u)
    BY <1>2
  <2> HIDE DEF S
  <2>2. Largest(S) \in S /\ \A n \in S : n <= Largest(S)
    BY <1>2, <1>6, <2>1, LargestNat
  <2>3. Largest(S) \in Nat
    BY <2>1, <2>2
  <2>4. Largest(S) # Absent
    BY <2>3 DEF Absent
  <2> DEFINE z == Largest(S)
  <2> HIDE DEF z
  <2>5. z \in S /\ z # Absent /\ \A n \in S : n <= z
    BY <2>2, <2>4 DEF z
  <2>6. getfreepos(u) = z
    BY <1>4 DEF z
  <2> QED
    BY <2>5, <2>6 DEF S
<1> QED
  BY <1>5, <1>6

(* The node that leads to one that is out of its place.                    *)
WalkNext(u, mp, f, n) == IF n + u.node[n].next = mp THEN n ELSE f[n + u.node[n].next]

LEMMA WalkRuns ==
  ASSUME NEW u, NEW pos, HashWith(u, pos), NEW mp, NEW h
  PROVE  \E c : /\ \A n \in NodesOf(u) : c[n] = WalkNext(u, mp, c, n)
                /\ Previous(u, h, mp) = c[h]
<1> DEFINE D == NodesOf(u)
           next(f, n) == IF u.node[n].next = 0 THEN n ELSE WalkNext(u, mp, f, n)
           step == [nf \in D \X [D -> D] |-> next(nf[2], nf[1])]
           P(g) == g = [n \in D |-> IF n + u.node[n].next = mp THEN n ELSE g[n + u.node[n].next]]
<1>1. \A n \in D : /\ pos[n] \in Nat /\ n \in Nat /\ u.node[n].next \in Int
                   /\ u.node[n].next # 0 => /\ n + u.node[n].next \in D
                                            /\ pos[n + u.node[n].next] < pos[n]
  BY Links
<1>2. ASSUME NEW f \in [D -> D], NEW n \in D PROVE next(f, n) \in D
  BY <1>1 DEF WalkNext
<1>3. /\ step \in [D \X [D -> D] -> D]
      /\ \A f \in [D -> D], n \in D : step[<<n, f>>] = next(f, n)
  <2> HIDE DEF next, D
  <2> QED
    BY <1>2
<1>4. Local(D, D, pos, step)
  <2>1. ASSUME NEW n \in D, NEW g \in [D -> D], NEW h1 \in [D -> D],
               \A y \in D : pos[y] < pos[n] => g[y] = h1[y]
        PROVE  step[<<n, g>>] = step[<<n, h1>>]
    <3>1. next(g, n) = next(h1, n)
      BY <1>1, <2>1 DEF WalkNext
    <3> HIDE DEF next, D, step
    <3> QED
      BY <1>3, <3>1
  <2> HIDE DEF step, D
  <2> QED
    BY <2>1, Zenon DEF Local
<1>5. 0 \in D /\ pos \in [D -> Nat]
  BY HashParts
<1>6. \E f \in [D -> D] : Solves(f, D, step)
  <2> HIDE DEF step, D
  <2> QED
    BY <1>3, <1>4, <1>5, Recursion
<1>7. PICK f \in [D -> D] : \A n \in D : f[n] = next(f, n)
  <2> HIDE DEF next, D, step
  <2> QED
    BY <1>3, <1>6 DEF Solves
<1>8. P(f)
  <2>1. \A n \in D : f[n] = WalkNext(u, mp, f, n)
    <3> TAKE n \in D
    <3>1. CASE u.node[n].next = 0
      <4>1. n + u.node[n].next = n
        BY <1>1, <3>1
      <4>2. f[n] = n
        BY <1>7, <3>1
      <4> QED
        BY <4>1, <4>2 DEF WalkNext
    <3>2. CASE u.node[n].next # 0
      BY <1>7, <3>2
    <3> QED
      BY <3>1, <3>2
  <2>2. f = [n \in D |-> WalkNext(u, mp, f, n)]
    <3> HIDE DEF D
    <3> QED
      BY <1>7, <2>1
  <2> QED
    BY <2>2, Zenon DEF WalkNext
<1> DEFINE c == CHOOSE g : P(g)
<1>9. Previous(u, h, mp) = c[h]
  BY Zenon DEF Previous
<1>10. P(c)
  <2> HIDE DEF P
  <2> QED
    BY <1>8, Zenon
<1>11. \A n \in D : c[n] = WalkNext(u, mp, c, n)
  <2> DEFINE cc == c
  <2>1. P(cc)
    BY <1>10
  <2> HIDE DEF c, cc
  <2>2. \A n \in D : cc[n] = WalkNext(u, mp, cc, n)
    BY <2>1 DEF WalkNext
  <2> QED
    BY <2>2 DEF cc
<1> HIDE DEF c
<1> QED
  BY <1>9, <1>11

LEMMA PreviousFound ==
  ASSUME NEW u, NEW pos, HashWith(u, pos), NEW mp \in Keyed(u), Home(u, mp) # mp
  PROVE  LET prev == Previous(u, Home(u, mp), mp)
         IN prev \in NodesOf(u) /\ u.node[prev].next # 0 /\ prev + u.node[prev].next = mp
<1> DEFINE h == Home(u, mp)
           Good(p) == p \in NodesOf(u) /\ u.node[p].next # 0 /\ p + u.node[p].next = mp
<1>1. PICK c : /\ \A n \in NodesOf(u) : c[n] = WalkNext(u, mp, c, n)
               /\ Previous(u, h, mp) = c[h]
  BY WalkRuns
<1>2. /\ h \in NodesOf(u) /\ mp \in NodesOf(u) /\ pos[mp] <= pos[h]
      /\ \A y \in NodesOf(u) : pos[mp] < pos[y] /\ pos[y] <= pos[h] => u.node[y].next # 0
  BY HomeFacts
<1>3. pos[mp] \in Nat /\ pos[h] \in Nat /\ \A m, n \in NodesOf(u) : pos[m] = pos[n] => m = n
  BY <1>2, HashParts
<1>4. pos[mp] < pos[h] /\ pos[h] - pos[mp] \in Nat
  BY <1>2, <1>3
<1> DEFINE Far == {d \in Nat : \E n \in NodesOf(u) : /\ pos[mp] < pos[n] /\ pos[n] <= pos[h] /\ ~Good(c[n])
                                                     /\ d = pos[n] - pos[mp]}
<1>5. CASE Far = {}
  <2>1. Good(c[h])
    <3> HIDE DEF Good, h
    <3>1. SUFFICES ASSUME ~Good(c[h]) PROVE FALSE
      OBVIOUS
    <3>2. pos[h] <= pos[h]
      BY <1>3
    <3>3. pos[h] - pos[mp] \in Far
      BY <1>2, <1>4, <3>1, <3>2
    <3> QED
      BY <1>5, <3>3
  <2> QED
    BY <1>1, <2>1
<1>6. CASE Far # {}
  <2>1. PICK d \in Far : \A e \in Far : d <= e
    <3> HIDE DEF h, Good
    <3> QED
      BY <1>6, LeastNat
  <2>2. PICK n \in NodesOf(u) : pos[mp] < pos[n] /\ pos[n] <= pos[h] /\ ~Good(c[n]) /\ d = pos[n] - pos[mp]
    <3> HIDE DEF h, Good
    <3> QED
      BY <2>1
  <2>3. pos[n] \in Nat /\ n \in Nat /\ c[n] = WalkNext(u, mp, c, n) /\ u.node[n].next # 0
    <3>1. pos[n] \in Nat /\ n \in Nat
      BY Links
    <3>2. u.node[n].next # 0
      BY <1>2, <2>2
    <3> QED
      BY <1>1, <3>1, <3>2
  <2>4. n + u.node[n].next # mp
    BY <2>2, <2>3 DEF WalkNext
  <2> DEFINE y == n + u.node[n].next
  <2>7. y \in NodesOf(u) /\ pos[y] = pos[n] - 1 /\ c[n] = c[y] /\ y # mp
    BY <2>3, <2>4, Links DEF WalkNext
  <2> HIDE DEF y, h, Good
  <2>8. pos[y] # pos[mp]
    BY <1>2, <1>3, <2>7
  <2>9. /\ pos[y] - pos[mp] \in Nat /\ pos[mp] < pos[y] /\ pos[y] <= pos[h]
        /\ ~(d <= pos[y] - pos[mp])
    BY <1>3, <2>2, <2>3, <2>7, <2>8
  <2>10. pos[y] - pos[mp] \notin Far
    BY <2>1, <2>9
  <2> QED
    BY <2>2, <2>7, <2>9, <2>10
<1> QED
  BY <1>5, <1>6

(* The tables that differ in their hash parts only.                        *)
Alike(u, w) ==
  /\ w \in TableRec /\ w.node \in [NodesOf(u) -> Node] /\ NodesOf(w) = NodesOf(u)
  /\ w.array = u.array /\ w.hint = u.hint /\ w.lsizenode = u.lsizenode /\ w.dummy = u.dummy
NewNode(u, n, k, v) == [key |-> k, val |-> v, next |-> u.node[n].next]

With(u, nodes, a, l) == [u EXCEPT !.node = nodes, !.asserts = a, !.lastfree = l]

LEMMA SetNodes ==
  ASSUME NEW u, Shaped(u), NEW nodes \in [NodesOf(u) -> Node], NEW a, a \in BOOLEAN, NEW l \in Nat,
         NEW w, w = With(u, nodes, a, l)
  PROVE  Alike(u, w) /\ w.node = nodes /\ w.asserts = a /\ w.lastfree = l
<1>1. u \in TableRec /\ u.lsizenode \in Nat
  BY DEF Shaped, TableRec
<1>2. NodesOf(u) \subseteq Nat
  BY <1>1, Places
<1>3. nodes \in UNION {[S -> Node] : S \in SUBSET Nat}
  BY <1>2
<1> DEFINE N == UNION {[S -> Node] : S \in SUBSET Nat}
<1>4. /\ w \in TableRec /\ w.node = nodes /\ w.asserts = a /\ w.lastfree = l
      /\ w.array = u.array /\ w.hint = u.hint /\ w.lsizenode = u.lsizenode /\ w.dummy = u.dummy
  <2>1. u \in [array : Seq(Cell), hint : Nat, node : N, lsizenode : Nat, dummy : BOOLEAN, lastfree : Nat, asserts : BOOLEAN]
    BY <1>1 DEF TableRec
  <2> DEFINE A == Seq(Cell)
  <2> HIDE DEF N, A
  <2>2. u \in [array : A, hint : Nat, node : N, lsizenode : Nat, dummy : BOOLEAN, lastfree : Nat, asserts : BOOLEAN]
    BY <2>1 DEF A
  <2>3. nodes \in N
    BY <1>3 DEF N
  <2>4. /\ w \in [array : A, hint : Nat, node : N, lsizenode : Nat, dummy : BOOLEAN, lastfree : Nat, asserts : BOOLEAN]
        /\ w.node = nodes /\ w.asserts = a /\ w.lastfree = l
        /\ w.array = u.array /\ w.hint = u.hint /\ w.lsizenode = u.lsizenode /\ w.dummy = u.dummy
    BY <2>2, <2>3 DEF With
  <2> QED
    BY <2>4 DEF A, N, TableRec
<1>5. NodesOf(w) = NodesOf(u)
  BY <1>4 DEF NodesOf, sizenode
<1> QED
  BY <1>4, <1>5 DEF Alike

(* What insertkey makes in each case.                                      *)
LEMMA PutIs ==
  ASSUME NEW u, Shaped(u), NEW n \in NodesOf(u), NEW k \in Keys, NEW v \in Cell,
         NEW w, w = Put(u, n, k, v)
  PROVE  /\ Alike(u, w) /\ w.asserts = (u.asserts /\ u.node[n].val = Empty) /\ w.lastfree = u.lastfree
         /\ w.node[n] = NewNode(u, n, k, v)
         /\ \A y \in NodesOf(u) : y # n => w.node[y] = u.node[y]
<1> DEFINE new == [u.node EXCEPT ![n] = NewNode(u, n, k, v)]
           a == u.asserts /\ u.node[n].val = Empty
<1>1. u \in TableRec /\ u.node \in [NodesOf(u) -> Node] /\ u.lastfree \in Nat
  BY DEF Shaped, TableRec
<1>2. NewNode(u, n, k, v) \in Node
  BY <1>1 DEF NewNode, Node
<1>3. new \in [NodesOf(u) -> Node] /\ new[n] = NewNode(u, n, k, v) /\ \A y \in NodesOf(u) : y # n => new[y] = u.node[y]
  BY <1>1, <1>2
<1>4. w = With(u, new, a, u.lastfree)
  BY <1>1 DEF Put, NewNode, TableRec, With
<1> HIDE DEF new
<1>5. a \in BOOLEAN
  OBVIOUS
<1> HIDE DEF a
<1>6. Alike(u, w) /\ w.node = new /\ w.asserts = a /\ w.lastfree = u.lastfree
  BY <1>1, <1>3, <1>4, <1>5, SetNodes
<1> QED
  BY <1>3, <1>6 DEF a

LEMMA LookedIs ==
  ASSUME NEW u, Shaped(u), NEW f \in Nat, NEW w, w = Looked(u, f)
  PROVE  /\ Alike(u, w) /\ w.asserts = u.asserts /\ w.node = u.node
         /\ w.lastfree = (IF haslastfree(u) THEN f ELSE u.lastfree)
<1> DEFINE l == IF haslastfree(u) THEN f ELSE u.lastfree
<1>1. u \in TableRec /\ u.node \in [NodesOf(u) -> Node] /\ u.lastfree \in Nat /\ u.asserts \in BOOLEAN
  BY DEF Shaped, TableRec
<1>2. f # Absent /\ l \in Nat
  BY <1>1 DEF Absent
<1>3. w = With(u, u.node, u.asserts, l)
  BY <1>1, <1>2 DEF Looked, TableRec, With
<1> HIDE DEF l
<1>4. Alike(u, w) /\ w.node = u.node /\ w.asserts = u.asserts /\ w.lastfree = l
  BY <1>1, <1>2, <1>3, SetNodes
<1> QED
  BY <1>4 DEF l

LEMMA RelinkedIs ==
  ASSUME NEW u, Shaped(u), NEW n \in NodesOf(u), NEW i \in Int
  PROVE  /\ Relinked(u, n, i) \in Node /\ Relinked(u, n, i).next = i
         /\ Relinked(u, n, i).key = u.node[n].key /\ Relinked(u, n, i).val = u.node[n].val
BY DEF Shaped, Node, Relinked

(* Moving a node away, and what becomes of its own place.                  *)
LEMMA MoveAwayIs ==
  ASSUME NEW u, Shaped(u), NEW mp \in NodesOf(u), NEW f \in NodesOf(u), NodesOf(u) \subseteq Nat,
         NEW prev \in NodesOf(u), prev = Previous(u, mainposition(u, u.node[mp].key), mp),
         f # mp, prev # mp, prev # f, NEW w, w = MoveAway(u, mp, f)
  PROVE  /\ Alike(u, w) /\ w.asserts = u.asserts /\ w.lastfree = u.lastfree
         /\ w.node[prev] = Relinked(u, prev, f - prev)
         /\ w.node[f] = Relinked(u, mp, IF u.node[mp].next = 0 THEN 0 ELSE u.node[mp].next + mp - f)
         /\ w.node[mp].next = 0 /\ w.node[mp].val = Empty
         /\ \A y \in NodesOf(u) : y \notin {prev, f, mp} => w.node[y] = u.node[y]
<1> DEFINE link == u.node[mp].next
           a == Relinked(u, prev, f - prev)
           b == Relinked(u, mp, IF link = 0 THEN 0 ELSE link + mp - f)
           c == [FreeNode EXCEPT !.key = u.node[mp].key]
           new == [n \in NodesOf(u) |-> CASE n = prev -> a [] n = f -> b [] n = mp -> c [] OTHER -> u.node[n]]
<1>1. u \in TableRec /\ u.node \in [NodesOf(u) -> Node] /\ u.lastfree \in Nat /\ u.asserts \in BOOLEAN
  BY DEF Shaped, TableRec
<1>2. link \in Int /\ f - prev \in Int /\ (IF link = 0 THEN 0 ELSE link + mp - f) \in Int
  BY <1>1 DEF Node
<1>3. a \in Node /\ b \in Node
  BY <1>2, RelinkedIs
<1>4. c \in Node /\ c.next = 0 /\ c.val = Empty
  BY <1>1 DEF Node, Cell, FreeNode
<1> HIDE DEF a, b, c, link
<1>5. /\ new \in [NodesOf(u) -> Node] /\ new[prev] = a /\ new[f] = b /\ new[mp] = c
      /\ \A y \in NodesOf(u) : y \notin {prev, f, mp} => new[y] = u.node[y]
  BY <1>1, <1>3, <1>4
<1>6. w = [u EXCEPT !.node = new]
  <2>1. new = [n \in NodesOf(u) |-> CASE n = prev -> Relinked(u, n, f - n) [] n = f -> b [] n = mp -> [FreeNode EXCEPT !.key = u.node[n].key] [] OTHER -> u.node[n]]
    BY DEF a, c
  <2> HIDE DEF new
  <2>2. w = [u EXCEPT !.node = [n \in NodesOf(u) |->
        CASE n = prev -> Relinked(u, n, f - n)
          [] n = f -> b
          [] n = mp -> [FreeNode EXCEPT !.key = u.node[n].key]
          [] OTHER -> u.node[n]]]
    BY DEF MoveAway, b, link
  <2> QED
    BY <2>1, <2>2, Zenon
<1> HIDE DEF new
<1>7. w = With(u, new, u.asserts, u.lastfree)
  BY <1>1, <1>6 DEF TableRec, With
<1>8. Alike(u, w) /\ w.node = new /\ w.asserts = u.asserts /\ w.lastfree = u.lastfree
  BY <1>1, <1>5, <1>7, SetNodes
<1> QED
  BY <1>4, <1>5, <1>8 DEF a, b, link

LEMMA ExtendIs ==
  ASSUME NEW u, Shaped(u), NEW mp \in NodesOf(u), NEW f \in NodesOf(u), NodesOf(u) \subseteq Nat,
         f # mp, u.node[f].next = 0, NEW w, w = Extend(u, mp, f)
  PROVE  /\ Alike(u, w) /\ w.asserts = u.asserts /\ w.lastfree = u.lastfree
         /\ w.node[mp] = Relinked(u, mp, f - mp)
         /\ w.node[f] = Relinked(u, f, IF u.node[mp].next = 0 THEN 0 ELSE mp + u.node[mp].next - f)
         /\ \A y \in NodesOf(u) : y \notin {f, mp} => w.node[y] = u.node[y]
<1> DEFINE link == u.node[mp].next
           a == Relinked(u, mp, f - mp)
           b == Relinked(u, f, IF link = 0 THEN 0 ELSE mp + link - f)
           new == [n \in NodesOf(u) |-> CASE n = f -> b [] n = mp -> a [] OTHER -> u.node[n]]
<1>1. u \in TableRec /\ u.node \in [NodesOf(u) -> Node] /\ u.lastfree \in Nat /\ u.asserts \in BOOLEAN
  BY DEF Shaped, TableRec
<1>2. link \in Int /\ f - mp \in Int /\ (IF link = 0 THEN 0 ELSE mp + link - f) \in Int
  BY <1>1 DEF Node
<1>3. a \in Node /\ b \in Node
  BY <1>2, RelinkedIs
<1>6. w = [u EXCEPT !.node = new, !.asserts = @ /\ (link = 0 => u.node[f].next = 0)]
  <2>1. new = [n \in NodesOf(u) |-> CASE n = f -> Relinked(u, n, IF link = 0 THEN u.node[n].next ELSE mp + link - f)
                                     [] n = mp -> Relinked(u, n, f - n) [] OTHER -> u.node[n]]
    BY DEF a, b
  <2> HIDE DEF new
  <2>2. w = [u EXCEPT !.node = [n \in NodesOf(u) |->
               CASE n = f -> Relinked(u, n, IF link = 0 THEN u.node[n].next ELSE mp + link - f)
                 [] n = mp -> Relinked(u, n, f - n) [] OTHER -> u.node[n]],
               !.asserts = @ /\ (link = 0 => u.node[f].next = 0)]
    BY DEF Extend, link
  <2> QED
    BY <2>1, <2>2, Zenon
<1> HIDE DEF a, b, link
<1>5. /\ new \in [NodesOf(u) -> Node] /\ new[f] = b /\ new[mp] = a
      /\ \A y \in NodesOf(u) : y \notin {f, mp} => new[y] = u.node[y]
  BY <1>1, <1>3
<1> HIDE DEF new
<1>7. w = With(u, new, u.asserts, u.lastfree)
  BY <1>1, <1>6 DEF TableRec, With
<1>8. Alike(u, w) /\ w.node = new /\ w.asserts = u.asserts /\ w.lastfree = u.lastfree
  BY <1>1, <1>5, <1>7, SetNodes
<1> QED
  BY <1>5, <1>8 DEF a, b, link

(* What the hash part holds.                                               *)
Pairs(u) == {<<u.node[n].key, u.node[n].val>> : n \in Used(u)}
FullNodes(u) == \A n \in NodesOf(u) : u.node[n].key # NoKey => u.node[n].val # Empty
Inserted(u, w, k, v) ==
  /\ HashOK(w) /\ Alike(u, w) /\ w.asserts = u.asserts
  /\ Pairs(w) = Pairs(u) \cup {<<k, v>>}
  /\ FullNodes(u) => FullNodes(w)
Inserting(u, pos, k, v) ==
  /\ HashWith(u, pos) /\ k \in Keys /\ v \in Values /\ ~u.dummy
  /\ \A n \in NodesOf(u) : u.node[n].key # k

LEMMA AlikePlaces ==
  ASSUME NEW u, NEW w, Alike(u, w)
  PROVE  /\ \A k : mainposition(w, k) = mainposition(u, k)
         /\ NodesOf(w) = NodesOf(u) /\ haslastfree(w) = haslastfree(u) /\ sizenode(w) = sizenode(u)
<1>1. w.lsizenode = u.lsizenode /\ NodesOf(w) = NodesOf(u)
  BY DEF Alike
<1>2. sizenode(w) = sizenode(u)
  BY <1>1 DEF sizenode
<1>3. Mod(w) = Mod(u)
  BY <1>2, Zenon DEF Mod
<1> QED
  BY <1>1, <1>2, <1>3, Zenon DEF mainposition, haslastfree

LEMMA NewNodeIs ==
  ASSUME NEW u, NEW n, NEW k, NEW v
  PROVE  NewNode(u, n, k, v).key = k /\ NewNode(u, n, k, v).val = v /\ NewNode(u, n, k, v).next = u.node[n].next
BY DEF NewNode

(* Whether what one node holds changes for one pair more.                  *)
Moved(u, y, w) == \E z \in NodesOf(u) : w.node[z].key = u.node[y].key /\ w.node[z].val = u.node[y].val
Carried(u, n, w) ==
  /\ \A y \in NodesOf(u) : y # n => w.node[y].val = Empty \/ Moved(w, y, u)
  /\ \A y \in NodesOf(u) : u.node[y].val # Empty => Moved(u, y, w)
LEMMA PairsGrow ==
  ASSUME NEW u, NEW w, NEW k, NEW v, NodesOf(w) = NodesOf(u), v # Empty,
         NEW n \in NodesOf(u), w.node[n].key = k, w.node[n].val = v, Carried(u, n, w)
  PROVE  Pairs(w) = Pairs(u) \cup {<<k, v>>}
<1>1. ASSUME NEW p \in Pairs(w) PROVE p \in Pairs(u) \cup {<<k, v>>}
  <2>1. PICK y \in NodesOf(u) : w.node[y].val # Empty /\ p = <<w.node[y].key, w.node[y].val>>
    BY DEF Pairs, Used
  <2>2. CASE y = n
    BY <2>1, <2>2
  <2>3. CASE y # n
    <3>1. PICK z \in NodesOf(u) : u.node[z].key = w.node[y].key /\ u.node[z].val = w.node[y].val
      BY <2>1, <2>3 DEF Carried, Moved
    <3> QED
      BY <2>1, <3>1 DEF Pairs, Used
  <2> QED
    BY <2>2, <2>3
<1>2. ASSUME NEW p \in Pairs(u) PROVE p \in Pairs(w)
  <2>1. PICK y \in NodesOf(u) : u.node[y].val # Empty /\ p = <<u.node[y].key, u.node[y].val>>
    BY DEF Pairs, Used
  <2>2. PICK z \in NodesOf(u) : w.node[z].key = u.node[y].key /\ w.node[z].val = u.node[y].val
    BY <2>1 DEF Carried, Moved
  <2> QED
    BY <2>1, <2>2 DEF Pairs, Used
<1>3. <<k, v>> \in Pairs(w)
  BY DEF Pairs, Used
<1> QED
  BY <1>1, <1>2, <1>3

LEMMA ValueFacts == \A v \in Values : v # Empty /\ v \in Cell
  BY ValuesAssumption DEF Cell

(* A key to its main position.                                             *)
LEMMA PutInserts ==
  ASSUME NEW u, NEW pos, NEW k, NEW v, Inserting(u, pos, k, v),
         NEW mp, mp = mainposition(u, k), u.node[mp].val = Empty,
         NEW w, w = Put(u, mp, k, v)
  PROVE  Inserted(u, w, k, v)
<1>1. /\ HashWith(u, pos) /\ k \in Keys /\ v \in Values /\ ~u.dummy
      /\ \A n \in NodesOf(u) : u.node[n].key # k
  BY DEF Inserting
<1>2. /\ Shaped(u) /\ Plain(u) /\ Unique(u) /\ DummyOK(u) /\ FreesBelow(u) /\ DeadLast(u, pos)
      /\ Chains(NodesOf(u), Keyed(u), Nexts(u), Homes(u), pos)
  BY <1>1 DEF HashWith
<1>3. /\ u.lsizenode \in Nat /\ u.asserts \in BOOLEAN /\ Keyed(u) \subseteq NodesOf(u) /\ pos \in [NodesOf(u) -> Nat]
      /\ \A m, n \in NodesOf(u) : pos[m] = pos[n] => m = n
  BY <1>1, HashParts
<1>4. mp \in NodesOf(u)
  BY <1>1, <1>3, MainPosition
<1>5. v # Empty /\ v \in Cell
  BY <1>1, ValueFacts
<1>6. /\ Alike(u, w) /\ w.asserts = (u.asserts /\ u.node[mp].val = Empty) /\ w.lastfree = u.lastfree
      /\ w.node[mp] = NewNode(u, mp, k, v)
      /\ \A y \in NodesOf(u) : y # mp => w.node[y] = u.node[y]
  BY <1>1, <1>2, <1>4, <1>5, PutIs
<1>7. w.node[mp].key = k /\ w.node[mp].val = v /\ w.node[mp].next = u.node[mp].next
  BY <1>6, NewNodeIs
<1>8. w.asserts = u.asserts
  BY <1>3, <1>6
<1>9. /\ \A j : mainposition(w, j) = mainposition(u, j)
      /\ NodesOf(w) = NodesOf(u) /\ haslastfree(w) = haslastfree(u)
  BY <1>6, AlikePlaces
<1>10. k \notin Unkeyed /\ k \notin DeadKeys /\ Original(k) = k
  BY <1>1, KeyFacts
<1>11. Keyed(w) = Keyed(u) \cup {mp}
  BY <1>4, <1>6, <1>7, <1>9, <1>10 DEF Keyed
<1>12. Nexts(w) = Nexts(u)
  BY <1>6, <1>7, <1>9 DEF Nexts
<1>13. Homes(w) = HomeHere(Keyed(u), Homes(u), mp)
  <2>1. Home(w, mp) = mp
    BY <1>7, <1>9, <1>10 DEF Home
  <2>2. \A y \in Keyed(u) : y # mp => Home(w, y) = Home(u, y)
    BY <1>3, <1>6, <1>9 DEF Home
  <2> QED
    BY <1>11, <2>1, <2>2 DEF Homes, HomeHere
<1>14. Chains(NodesOf(w), Keyed(w), Nexts(w), Homes(w), pos)
  <2>1. Chains(NodesOf(u), Keyed(u) \cup {mp}, Nexts(u), HomeHere(Keyed(u), Homes(u), mp), pos)
    BY <1>2, <1>4, ChainsPut
  <2> QED
    BY <1>9, <1>11, <1>12, <1>13, <2>1, Zenon
<1>15. DeadLast(w, pos)
  <2>1. SUFFICES ASSUME NEW m \in Keyed(w), NEW n \in Keyed(w), w.node[m].key \in Keys, w.node[n].key \notin Keys,
                        Original(w.node[n].key) = w.node[m].key
                 PROVE  pos[n] < pos[m]
    BY DEF DeadLast
  <2>2. n # mp /\ n \in Keyed(u) /\ w.node[n] = u.node[n] /\ n \in NodesOf(u)
    BY <1>1, <1>3, <1>6, <1>7, <1>11, <2>1
  <2>3. CASE m = mp
    <3>1. Home(u, n) = mp
      BY <1>7, <2>1, <2>2, <2>3 DEF Home
    <3>2. pos[n] <= pos[mp]
      BY <1>1, <2>2, <3>1, HomeFacts
    <3>3. pos[n] # pos[mp]
      BY <1>3, <1>4, <2>2
    <3>4. pos[n] \in Nat /\ pos[mp] \in Nat
      BY <1>3, <1>4, <2>2
    <3> QED
      BY <2>3, <3>2, <3>3, <3>4
  <2>4. CASE m # mp
    BY <1>2, <1>3, <1>6, <1>11, <2>1, <2>2, <2>4 DEF DeadLast
  <2> QED
    BY <2>3, <2>4
<1>16. Shaped(w)
  BY <1>6, <1>9 DEF Alike, Shaped
<1>17. Plain(w)
  BY <1>1, <1>2, <1>6, <1>7, <1>9, <1>10 DEF Plain
<1>18. Unique(w)
  BY <1>1, <1>2, <1>6, <1>7, <1>9 DEF Unique
<1>19. DummyOK(w)
  BY <1>1, <1>2, <1>6, <1>7, <1>9, <1>10 DEF DummyOK, Alike, Unkeyed
<1>20. FreesBelow(w)
  BY <1>2, <1>6, <1>7, <1>9, <1>10 DEF FreesBelow, Unkeyed
<1>21. HashOK(w)
  BY <1>14, <1>15, <1>16, <1>17, <1>18, <1>19, <1>20 DEF HashOK, HashWith
<1>22. Pairs(w) = Pairs(u) \cup {<<k, v>>}
  <2>1. Carried(u, mp, w)
    BY <1>6, <1>7, <1>9 DEF Carried, Moved
  <2> QED
    BY <1>4, <1>5, <1>7, <1>9, <2>1, PairsGrow
<1>23. FullNodes(u) => FullNodes(w)
  BY <1>5, <1>6, <1>7, <1>9 DEF FullNodes
<1> QED
  BY <1>6, <1>8, <1>21, <1>22, <1>23 DEF Inserted

(* A key to its main position, whose node makes room.                      *)
LEMMA MoveInserts ==
  ASSUME NEW u, NEW pos, NEW k, NEW v, Inserting(u, pos, k, v),
         NEW mp, mp = mainposition(u, k), u.node[mp].val # Empty,
         mainposition(u, u.node[mp].key) # mp,
         NEW f, f = getfreepos(u), f # Absent,
         NEW t1, t1 = Looked(u, f), NEW t2, t2 = MoveAway(t1, mp, f), NEW w, w = Put(t2, mp, k, v)
  PROVE  Inserted(u, w, k, v)
<1>1. /\ HashWith(u, pos) /\ k \in Keys /\ v \in Values /\ ~u.dummy
      /\ \A n \in NodesOf(u) : u.node[n].key # k
  BY DEF Inserting
<1>2. /\ Shaped(u) /\ Plain(u) /\ Unique(u) /\ DummyOK(u) /\ FreesBelow(u) /\ DeadLast(u, pos)
      /\ Chains(NodesOf(u), Keyed(u), Nexts(u), Homes(u), pos)
  BY <1>1 DEF HashWith
<1>3. /\ u.lsizenode \in Nat /\ u.asserts \in BOOLEAN /\ Keyed(u) \subseteq NodesOf(u) /\ pos \in [NodesOf(u) -> Nat]
      /\ NodesOf(u) \subseteq Nat /\ HashOK(u)
      /\ \A m, n \in NodesOf(u) : pos[m] = pos[n] => m = n
  BY <1>1, HashParts
<1>4. mp \in NodesOf(u)
  BY <1>1, <1>3, MainPosition
<1>5. v # Empty /\ v \in Cell
  BY <1>1, ValueFacts
<1>10. k \notin Unkeyed /\ k \notin DeadKeys /\ Original(k) = k /\ NoKey \notin Keys
  BY <1>1, KeyFacts DEF Unkeyed
<1>a. f \in NodesOf(u) /\ u.node[f].key = NoKey /\ \A n \in NodesOf(u) : u.node[n].key = NoKey => n <= f
  BY <1>3, FreePlace
<1>b. u.node[mp].key \in Keys
  BY <1>2, <1>4 DEF Plain
<1>c. Home(u, mp) = mainposition(u, u.node[mp].key) /\ mp \in Keyed(u) /\ f \notin Keyed(u) /\ f # mp
  BY <1>4, <1>a, <1>b, KeyFacts DEF Home, Keyed, Unkeyed
<1> DEFINE prev == Previous(u, Home(u, mp), mp)
<1>d. prev \in NodesOf(u) /\ u.node[prev].next # 0 /\ prev + u.node[prev].next = mp
  BY <1>1, <1>c, PreviousFound
<1> HIDE DEF prev
<1>e. prev # f /\ prev # mp /\ prev \in Keyed(u)
  <2>1. u.node[f].next = 0
    BY <1>2, <1>a DEF Plain, Unkeyed
  <2>2. pos[mp] = pos[prev] - 1 /\ pos[prev] \in Nat
    BY <1>1, <1>d, Links
  <2>3. prev # mp
    BY <2>2
  <2>4. prev \in Keyed(u)
    BY <1>2, <1>d DEF Plain, Keyed
  <2> QED
    BY <1>d, <2>1, <2>3, <2>4
<1>f. /\ Alike(u, t1) /\ t1.asserts = u.asserts /\ t1.node = u.node
      /\ t1.lastfree = (IF haslastfree(u) THEN f ELSE u.lastfree)
  BY <1>2, <1>3, <1>a, LookedIs
<1>g. Shaped(t1) /\ NodesOf(t1) = NodesOf(u) /\ \A j : mainposition(t1, j) = mainposition(u, j)
  BY <1>f, AlikePlaces DEF Alike, Shaped
<1>h. prev = Previous(t1, mainposition(t1, t1.node[mp].key), mp)
  BY <1>c, <1>f, <1>g DEF prev, Previous
<1>i. /\ Alike(t1, t2) /\ t2.asserts = t1.asserts /\ t2.lastfree = t1.lastfree
      /\ t2.node[prev] = Relinked(t1, prev, f - prev)
      /\ t2.node[f] = Relinked(t1, mp, IF t1.node[mp].next = 0 THEN 0 ELSE t1.node[mp].next + mp - f)
      /\ t2.node[mp].next = 0 /\ t2.node[mp].val = Empty
      /\ \A y \in NodesOf(t1) : y \notin {prev, f, mp} => t2.node[y] = t1.node[y]
  BY <1>3, <1>4, <1>a, <1>c, <1>d, <1>e, <1>g, <1>h, MoveAwayIs
<1>j. Shaped(t2) /\ NodesOf(t2) = NodesOf(u)
  BY <1>g, <1>i, AlikePlaces DEF Alike, Shaped
<1>k. /\ Alike(t2, w) /\ w.asserts = (t2.asserts /\ t2.node[mp].val = Empty) /\ w.lastfree = t2.lastfree
      /\ w.node[mp] = NewNode(t2, mp, k, v)
      /\ \A y \in NodesOf(t2) : y # mp => w.node[y] = t2.node[y]
  BY <1>1, <1>4, <1>5, <1>j, PutIs
<1>6. /\ Alike(u, w) /\ w.asserts = u.asserts
      /\ w.lastfree = (IF haslastfree(u) THEN f ELSE u.lastfree)
  BY <1>3, <1>f, <1>i, <1>k DEF Alike
<1>7. /\ w.node[mp].key = k /\ w.node[mp].val = v /\ w.node[mp].next = 0
      /\ w.node[prev].key = u.node[prev].key /\ w.node[prev].val = u.node[prev].val /\ w.node[prev].next = f - prev
      /\ w.node[f].key = u.node[mp].key /\ w.node[f].val = u.node[mp].val
      /\ w.node[f].next = (IF u.node[mp].next = 0 THEN 0 ELSE u.node[mp].next + mp - f)
      /\ \A y \in NodesOf(u) : y \notin {prev, f, mp} => w.node[y] = u.node[y]
  <2>1. w.node[mp].key = k /\ w.node[mp].val = v /\ w.node[mp].next = 0
    BY <1>i, <1>k, NewNodeIs
  <2>2. w.node[prev] = Relinked(t1, prev, f - prev) /\ f - prev \in Int
    BY <1>3, <1>a, <1>d, <1>e, <1>i, <1>j, <1>k
  <2>3. w.node[prev].key = u.node[prev].key /\ w.node[prev].val = u.node[prev].val /\ w.node[prev].next = f - prev
    BY <1>d, <1>f, <1>g, <2>2, RelinkedIs
  <2> DEFINE i == IF t1.node[mp].next = 0 THEN 0 ELSE t1.node[mp].next + mp - f
  <2>4. i \in Int /\ w.node[f] = Relinked(t1, mp, i)
    <3>1. t1.node[mp].next \in Int
      BY <1>1, <1>4, <1>f, HashParts
    <3>2. w.node[f] = t2.node[f]
      BY <1>a, <1>c, <1>j, <1>k
    <3> QED
      BY <1>3, <1>4, <1>a, <1>i, <3>1, <3>2
  <2> HIDE DEF i
  <2>5. w.node[f].key = u.node[mp].key /\ w.node[f].val = u.node[mp].val /\ w.node[f].next = i
    BY <1>4, <1>f, <1>g, <2>4, RelinkedIs
  <2>6. \A y \in NodesOf(u) : y \notin {prev, f, mp} => w.node[y] = u.node[y]
    BY <1>f, <1>g, <1>i, <1>j, <1>k
  <2> QED
    BY <1>f, <2>1, <2>3, <2>5, <2>6 DEF i
<1>9. /\ \A j : mainposition(w, j) = mainposition(u, j)
      /\ NodesOf(w) = NodesOf(u) /\ haslastfree(w) = haslastfree(u)
  BY <1>6, AlikePlaces
<1>8. \A y \in NodesOf(u) : y \notin {f, mp} => w.node[y].key = u.node[y].key /\ w.node[y].val = u.node[y].val
  BY <1>7
<1>11. Keyed(w) = Keyed(u) \cup {f}
  <2>1. \A y \in NodesOf(u) : y \in Keyed(w) <=> w.node[y].key \notin Unkeyed
    BY <1>9 DEF Keyed
  <2>2. \A y \in NodesOf(u) : y \in Keyed(u) <=> u.node[y].key \notin Unkeyed
    BY DEF Keyed
  <2>3. f \in Keyed(w) /\ mp \in Keyed(w)
    BY <1>4, <1>7, <1>10, <1>a, <1>c, <2>1, <2>2
  <2>4. Keyed(w) \subseteq NodesOf(u)
    BY <1>9 DEF Keyed
  <2> QED
    BY <1>3, <1>8, <1>a, <1>c, <2>1, <2>2, <2>3, <2>4
<1>12. Nexts(w) = MovedNext(NodesOf(u), Nexts(u), prev, mp, f)
  <2>1. \A y \in NodesOf(u) : Nexts(u)[y] = u.node[y].next
    BY DEF Nexts
  <2>2. \A y \in NodesOf(u) : w.node[y].next = MovedNext(NodesOf(u), Nexts(u), prev, mp, f)[y]
    BY <1>4, <1>7, <1>c, <1>e, <2>1 DEF MovedNext
  <2> QED
    BY <1>9, <2>2 DEF Nexts, MovedNext
<1>13. Homes(w) = MovedHome(Keyed(u), Homes(u), mp, f)
  <2>1. Home(w, mp) = mp /\ Home(w, f) = Home(u, mp)
    BY <1>7, <1>9, <1>10 DEF Home
  <2>2. \A y \in Keyed(u) : y # mp => Home(w, y) = Home(u, y)
    BY <1>3, <1>8, <1>9, <1>c DEF Home
  <2>3. \A y \in Keyed(u) : Homes(u)[y] = Home(u, y)
    BY DEF Homes
  <2>4. \A y \in Keyed(u) \cup {f} : Home(w, y) = IF y = f THEN Homes(u)[mp] ELSE IF y = mp THEN mp ELSE Homes(u)[y]
    BY <1>c, <2>1, <2>2, <2>3
  <2> QED
    BY <1>11, <2>4 DEF Homes, MovedHome
<1> DEFINE q == MovedPos(NodesOf(u), pos, mp, f)
<1>14. Chains(NodesOf(w), Keyed(w), Nexts(w), Homes(w), q)
  <2>1. Homes(u)[mp] # mp
    BY <1>c DEF Homes
  <2>2. Nexts(u)[prev] # 0 /\ prev + Nexts(u)[prev] = mp
    BY <1>d DEF Nexts
  <2>3. f \in NodesOf(u) \ Keyed(u)
    BY <1>a, <1>c
  <2>4. Chains(NodesOf(u), Keyed(u) \cup {f}, MovedNext(NodesOf(u), Nexts(u), prev, mp, f),
               MovedHome(Keyed(u), Homes(u), mp, f), q)
    BY <1>2, <1>c, <1>d, <2>1, <2>2, <2>3, ChainsMove
  <2> QED
    BY <1>9, <1>11, <1>12, <1>13, <2>4, Zenon
<1>q. q[f] = pos[mp] /\ \A y \in NodesOf(u) : y \notin {f, mp} => q[y] = pos[y]
  BY <1>4, <1>a DEF MovedPos
<1> HIDE DEF q
<1>l. \A n \in Keyed(u) : Home(u, n) # mp
  <2> TAKE n \in Keyed(u)
  <2>1. Home(u, Home(u, n)) = Home(u, n)
    BY <1>1, HomeFacts
  <2> QED
    BY <1>c, <2>1
<1>15. DeadLast(w, q)
  <2>1. SUFFICES ASSUME NEW m \in Keyed(w), NEW n \in Keyed(w), w.node[m].key \in Keys, w.node[n].key \notin Keys,
                        Original(w.node[n].key) = w.node[m].key
                 PROVE  q[n] < q[m]
    BY DEF DeadLast
  <2>2. n # mp /\ n # f /\ n \in Keyed(u) /\ w.node[n].key = u.node[n].key /\ n \in NodesOf(u) /\ q[n] = pos[n]
    BY <1>1, <1>3, <1>7, <1>8, <1>11, <1>b, <1>q, <2>1
  <2>3. CASE m = mp
    <3>1. Home(u, n) = mp
      BY <1>7, <2>1, <2>2, <2>3 DEF Home
    <3> QED
      BY <1>l, <2>2, <3>1
  <2> DEFINE o == IF m = f THEN mp ELSE m
  <2>4. CASE m # mp
    <3>1. o \in Keyed(u) /\ u.node[o].key = w.node[m].key /\ q[m] = pos[o]
      BY <1>3, <1>7, <1>8, <1>11, <1>c, <1>q, <2>4
    <3> HIDE DEF o
    <3>2. pos[n] < pos[o]
      BY <1>2, <2>1, <2>2, <3>1 DEF DeadLast
    <3> QED
      BY <2>2, <3>1, <3>2
  <2> QED
    BY <2>3, <2>4
<1>16. Shaped(w)
  BY <1>6, <1>9 DEF Alike, Shaped
<1>17. Plain(w)
  <2>1. SUFFICES ASSUME NEW n \in NodesOf(u)
                 PROVE  /\ w.node[n].key \notin Keys => w.node[n].val = Empty
                        /\ w.node[n].key \in Unkeyed => w.node[n].next = 0
    BY <1>9 DEF Plain
  <2>2. CASE n \in {mp, f}
    BY <1>1, <1>7, <1>10, <1>b, <1>c, <2>2, KeyFacts
  <2>3. CASE n = prev
    BY <1>2, <1>7, <1>e, <2>3 DEF Plain, Keyed
  <2>4. CASE n \notin {prev, f, mp}
    BY <1>2, <1>7, <2>4 DEF Plain
  <2> QED
    BY <2>2, <2>3, <2>4
<1>18. Unique(w)
  <2>1. SUFFICES ASSUME NEW m \in NodesOf(u), NEW n \in NodesOf(u), w.node[m].key \in Keys, w.node[m].key = w.node[n].key
                 PROVE  m = n
    BY <1>9 DEF Unique
  <2> DEFINE old(y) == IF y = f THEN mp ELSE y
  <2>2. \A y \in NodesOf(u) : y # mp => old(y) \in NodesOf(u) /\ w.node[y].key = u.node[old(y)].key
    BY <1>4, <1>7, <1>8
  <2>3. CASE m # mp /\ n # mp
    <3>1. old(m) = old(n)
      <4> HIDE DEF old
      <4> QED
        BY <1>2, <2>1, <2>2, <2>3 DEF Unique
    <3> QED
      BY <2>3, <3>1
  <2>4. CASE m = mp \/ n = mp
    <3> HIDE DEF old
    <3> QED
      BY <1>1, <1>7, <2>1, <2>2, <2>4
  <2> QED
    BY <2>3, <2>4
<1>19. DummyOK(w)
  <2>1. \A n \in NodesOf(u) : u.node[n].key # <<"dummy", 0>>
    BY <1>1, <1>2 DEF DummyOK
  <2>2. ASSUME NEW n \in NodesOf(u) PROVE w.node[n].key # <<"dummy", 0>>
    <3>1. CASE n = mp
      BY <1>7, <1>10, <3>1 DEF Unkeyed
    <3>2. CASE n = f
      BY <1>4, <1>7, <2>1, <3>2
    <3>3. CASE n \notin {f, mp}
      BY <1>8, <2>1, <3>3
    <3> QED
      BY <3>1, <3>2, <3>3
  <2>3. ~w.dummy
    BY <1>1, <1>6 DEF Alike
  <2> QED
    BY <1>9, <2>2, <2>3 DEF DummyOK
<1>20. FreesBelow(w)
  <2>1. SUFFICES ASSUME haslastfree(u), NEW n \in NodesOf(u), w.node[n].key = NoKey PROVE n < w.lastfree
    BY <1>9 DEF FreesBelow
  <2>2. n \notin {f, mp}
    BY <1>7, <1>10, <1>b, <2>1 DEF Unkeyed
  <2>3. n <= f /\ n # f /\ w.lastfree = f
    BY <1>6, <1>8, <1>a, <2>1, <2>2
  <2> QED
    BY <1>3, <1>a, <2>3
<1>21. HashOK(w)
  BY <1>14, <1>15, <1>16, <1>17, <1>18, <1>19, <1>20 DEF HashOK, HashWith
<1>22. Pairs(w) = Pairs(u) \cup {<<k, v>>}
  <2>1. ASSUME NEW y \in NodesOf(u), y # mp
        PROVE  \E z \in NodesOf(u) : u.node[z].key = w.node[y].key /\ u.node[z].val = w.node[y].val
    <3>1. CASE y = f
      BY <1>4, <1>7, <3>1
    <3>2. CASE y # f
      BY <1>8, <2>1, <3>2
    <3> QED
      BY <3>1, <3>2
  <2>2. ASSUME NEW y \in NodesOf(u), u.node[y].val # Empty
        PROVE  \E z \in NodesOf(u) : w.node[z].key = u.node[y].key /\ w.node[z].val = u.node[y].val
    <3>1. CASE y = mp
      BY <1>7, <1>a, <3>1
    <3>2. CASE y = f
      BY <1>2, <1>10, <1>a, <2>2, <3>2 DEF Plain
    <3>3. CASE y \notin {f, mp}
      BY <1>8, <3>3
    <3> QED
      BY <3>1, <3>2, <3>3
  <2>3. Carried(u, mp, w)
    BY <1>9, <2>1, <2>2 DEF Carried, Moved
  <2> QED
    BY <1>4, <1>5, <1>7, <1>9, <2>3, PairsGrow
<1>23. FullNodes(u) => FullNodes(w)
  BY <1>4, <1>5, <1>7, <1>8, <1>9 DEF FullNodes
<1> QED
  BY <1>6, <1>21, <1>22, <1>23 DEF Inserted

(* A key to a free node, as its main position is that of the key there.    *)
LEMMA ExtendInserts ==
  ASSUME NEW u, NEW pos, NEW k, NEW v, Inserting(u, pos, k, v),
         NEW mp, mp = mainposition(u, k), u.node[mp].val # Empty,
         mainposition(u, u.node[mp].key) = mp,
         NEW f, f = getfreepos(u), f # Absent,
         NEW t1, t1 = Looked(u, f), NEW t2, t2 = Extend(t1, mp, f), NEW w, w = Put(t2, f, k, v)
  PROVE  Inserted(u, w, k, v)
<1>1. /\ HashWith(u, pos) /\ k \in Keys /\ v \in Values /\ ~u.dummy
      /\ \A n \in NodesOf(u) : u.node[n].key # k
  BY DEF Inserting
<1>2. /\ Shaped(u) /\ Plain(u) /\ Unique(u) /\ DummyOK(u) /\ FreesBelow(u) /\ DeadLast(u, pos)
      /\ Chains(NodesOf(u), Keyed(u), Nexts(u), Homes(u), pos)
  BY <1>1 DEF HashWith
<1>3. /\ u.lsizenode \in Nat /\ u.asserts \in BOOLEAN /\ Keyed(u) \subseteq NodesOf(u) /\ pos \in [NodesOf(u) -> Nat]
      /\ NodesOf(u) \subseteq Nat /\ HashOK(u)
      /\ \A m, n \in NodesOf(u) : pos[m] = pos[n] => m = n
  BY <1>1, HashParts
<1>4. mp \in NodesOf(u)
  BY <1>1, <1>3, MainPosition
<1>5. v # Empty /\ v \in Cell
  BY <1>1, ValueFacts
<1>10. k \notin Unkeyed /\ k \notin DeadKeys /\ Original(k) = k /\ NoKey \notin Keys
  BY <1>1, KeyFacts DEF Unkeyed
<1>a. f \in NodesOf(u) /\ u.node[f].key = NoKey /\ \A n \in NodesOf(u) : u.node[n].key = NoKey => n <= f
  BY <1>3, FreePlace
<1>b. u.node[mp].key \in Keys
  BY <1>2, <1>4 DEF Plain
<1>c. Home(u, mp) = mp /\ mp \in Keyed(u) /\ f \notin Keyed(u) /\ f # mp
  BY <1>4, <1>a, <1>b, KeyFacts DEF Home, Keyed, Unkeyed
<1>e. u.node[f].next = 0 /\ u.node[f].val = Empty
  BY <1>2, <1>10, <1>a DEF Plain, Unkeyed
<1>f. /\ Alike(u, t1) /\ t1.asserts = u.asserts /\ t1.node = u.node
      /\ t1.lastfree = (IF haslastfree(u) THEN f ELSE u.lastfree)
  BY <1>2, <1>3, <1>a, LookedIs
<1>g. Shaped(t1) /\ NodesOf(t1) = NodesOf(u)
  BY <1>f, AlikePlaces DEF Alike, Shaped
<1>i. /\ Alike(t1, t2) /\ t2.asserts = t1.asserts /\ t2.lastfree = t1.lastfree
      /\ t2.node[mp] = Relinked(t1, mp, f - mp)
      /\ t2.node[f] = Relinked(t1, f, IF t1.node[mp].next = 0 THEN 0 ELSE mp + t1.node[mp].next - f)
      /\ \A y \in NodesOf(t1) : y \notin {f, mp} => t2.node[y] = t1.node[y]
  BY <1>3, <1>4, <1>a, <1>c, <1>e, <1>f, <1>g, ExtendIs
<1>j. Shaped(t2) /\ NodesOf(t2) = NodesOf(u)
  BY <1>g, <1>i, AlikePlaces DEF Alike, Shaped
<1>k. /\ Alike(t2, w) /\ w.asserts = (t2.asserts /\ t2.node[f].val = Empty) /\ w.lastfree = t2.lastfree
      /\ w.node[f] = NewNode(t2, f, k, v)
      /\ \A y \in NodesOf(t2) : y # f => w.node[y] = t2.node[y]
  BY <1>1, <1>5, <1>a, <1>j, PutIs
<1> DEFINE i == IF t1.node[mp].next = 0 THEN 0 ELSE mp + t1.node[mp].next - f
<1>l. i \in Int /\ f - mp \in Int
  <2>1. t1.node[mp].next \in Int
    BY <1>1, <1>4, <1>f, HashParts
  <2> QED
    BY <1>3, <1>4, <1>a, <2>1
<1>m. /\ t2.node[f].next = i /\ t2.node[f].val = Empty
      /\ t2.node[mp].key = u.node[mp].key /\ t2.node[mp].val = u.node[mp].val /\ t2.node[mp].next = f - mp
  <2>1. t2.node[f] = Relinked(t1, f, i)
    BY <1>i
  <2> HIDE DEF i
  <2>2. t2.node[f].next = i /\ t2.node[f].val = u.node[f].val
    BY <1>a, <1>f, <1>g, <1>l, <2>1, RelinkedIs
  <2>3. t2.node[mp].key = u.node[mp].key /\ t2.node[mp].val = u.node[mp].val /\ t2.node[mp].next = f - mp
    BY <1>4, <1>f, <1>g, <1>i, <1>l, RelinkedIs
  <2> QED
    BY <1>e, <2>2, <2>3
<1>6. /\ Alike(u, w) /\ w.asserts = u.asserts
      /\ w.lastfree = (IF haslastfree(u) THEN f ELSE u.lastfree)
  BY <1>3, <1>f, <1>i, <1>k, <1>m DEF Alike
<1>7. /\ w.node[f].key = k /\ w.node[f].val = v
      /\ w.node[f].next = (IF u.node[mp].next = 0 THEN 0 ELSE mp + u.node[mp].next - f)
      /\ w.node[mp].key = u.node[mp].key /\ w.node[mp].val = u.node[mp].val /\ w.node[mp].next = f - mp
      /\ \A y \in NodesOf(u) : y \notin {f, mp} => w.node[y] = u.node[y]
  <2>1. w.node[f].key = k /\ w.node[f].val = v /\ w.node[f].next = i
    BY <1>k, <1>m, NewNodeIs
  <2>2. w.node[mp] = t2.node[mp]
    BY <1>4, <1>c, <1>j, <1>k
  <2>3. \A y \in NodesOf(u) : y \notin {f, mp} => w.node[y] = u.node[y]
    BY <1>f, <1>g, <1>i, <1>j, <1>k
  <2> QED
    BY <1>f, <1>m, <2>1, <2>2, <2>3
<1>9. /\ \A j : mainposition(w, j) = mainposition(u, j)
      /\ NodesOf(w) = NodesOf(u) /\ haslastfree(w) = haslastfree(u)
  BY <1>6, AlikePlaces
<1>8. \A y \in NodesOf(u) : y # f => w.node[y].key = u.node[y].key /\ w.node[y].val = u.node[y].val
  BY <1>7
<1> HIDE DEF i
<1>11. Keyed(w) = Keyed(u) \cup {f}
  <2>1. \A y \in NodesOf(u) : y \in Keyed(w) <=> w.node[y].key \notin Unkeyed
    BY <1>9 DEF Keyed
  <2>2. \A y \in NodesOf(u) : y \in Keyed(u) <=> u.node[y].key \notin Unkeyed
    BY DEF Keyed
  <2>3. f \in Keyed(w)
    BY <1>7, <1>10, <1>a, <2>1
  <2>4. Keyed(w) \subseteq NodesOf(u)
    BY <1>9 DEF Keyed
  <2> QED
    BY <1>3, <1>8, <1>a, <2>1, <2>2, <2>3, <2>4
<1>12. Nexts(w) = ExtendedNext(NodesOf(u), Nexts(u), mp, f)
  <2>1. \A y \in NodesOf(u) : Nexts(u)[y] = u.node[y].next
    BY DEF Nexts
  <2>2. \A y \in NodesOf(u) : w.node[y].next = ExtendedNext(NodesOf(u), Nexts(u), mp, f)[y]
    BY <1>4, <1>7, <1>c, <2>1 DEF ExtendedNext
  <2> QED
    BY <1>9, <2>2 DEF Nexts, ExtendedNext
<1>13. Homes(w) = ExtendedHome(Keyed(u), Homes(u), mp, f)
  <2>1. Home(w, f) = mp
    BY <1>7, <1>9, <1>10 DEF Home
  <2>2. \A y \in Keyed(u) : Home(w, y) = Home(u, y)
    BY <1>3, <1>8, <1>9, <1>c DEF Home
  <2>3. \A y \in Keyed(u) : Homes(u)[y] = Home(u, y)
    BY DEF Homes
  <2>4. \A y \in Keyed(u) \cup {f} : Home(w, y) = IF y = f THEN mp ELSE Homes(u)[y]
    BY <1>c, <2>1, <2>2, <2>3
  <2> QED
    BY <1>11, <2>4 DEF Homes, ExtendedHome
<1> DEFINE q == ExtendedPos(NodesOf(u), pos, mp, f)
<1>14. Chains(NodesOf(w), Keyed(w), Nexts(w), Homes(w), q)
  <2>1. Homes(u)[mp] = mp
    BY <1>c DEF Homes
  <2>3. f \in NodesOf(u) \ Keyed(u)
    BY <1>a, <1>c
  <2>4. Chains(NodesOf(u), Keyed(u) \cup {f}, ExtendedNext(NodesOf(u), Nexts(u), mp, f),
               ExtendedHome(Keyed(u), Homes(u), mp, f), q)
    BY <1>2, <1>c, <2>1, <2>3, ChainsExtend
  <2> QED
    BY <1>9, <1>11, <1>12, <1>13, <2>4, Zenon
<1>q. /\ q[f] = pos[mp] /\ pos[mp] \in Nat
      /\ \A y \in NodesOf(u) : y # f => pos[y] \in Nat /\ q[y] = IF pos[y] >= pos[mp] THEN pos[y] + 1 ELSE pos[y]
  BY <1>3, <1>4, <1>a DEF ExtendedPos
<1> HIDE DEF q
<1>15. DeadLast(w, q)
  <2>1. SUFFICES ASSUME NEW m \in Keyed(w), NEW n \in Keyed(w), w.node[m].key \in Keys, w.node[n].key \notin Keys,
                        Original(w.node[n].key) = w.node[m].key
                 PROVE  q[n] < q[m]
    BY DEF DeadLast
  <2>2. n # f /\ n \in Keyed(u) /\ w.node[n].key = u.node[n].key /\ n \in NodesOf(u) /\ n # mp
    BY <1>1, <1>3, <1>7, <1>8, <1>11, <1>b, <2>1
  <2>3. CASE m = f
    <3>1. Home(u, n) = mp
      BY <1>7, <2>1, <2>2, <2>3 DEF Home
    <3>2. pos[n] <= pos[mp]
      BY <1>1, <2>2, <3>1, HomeFacts
    <3>3. pos[n] # pos[mp]
      BY <1>3, <1>4, <2>2
    <3> QED
      BY <1>q, <2>2, <2>3, <3>2, <3>3
  <2>4. CASE m # f
    <3>1. m \in Keyed(u) /\ u.node[m].key = w.node[m].key /\ m \in NodesOf(u)
      BY <1>3, <1>8, <1>11, <2>4
    <3>2. pos[n] < pos[m]
      BY <1>2, <2>1, <2>2, <3>1 DEF DeadLast
    <3>3. /\ pos[m] \in Nat /\ pos[n] \in Nat
          /\ q[m] = (IF pos[m] >= pos[mp] THEN pos[m] + 1 ELSE pos[m])
          /\ q[n] = (IF pos[n] >= pos[mp] THEN pos[n] + 1 ELSE pos[n])
      BY <1>q, <2>2, <2>4, <3>1
    <3> QED
      BY <1>q, <3>2, <3>3
  <2> QED
    BY <2>3, <2>4
<1>16. Shaped(w)
  BY <1>6, <1>9 DEF Alike, Shaped
<1>17. Plain(w)
  <2>1. SUFFICES ASSUME NEW n \in NodesOf(u)
                 PROVE  /\ w.node[n].key \notin Keys => w.node[n].val = Empty
                        /\ w.node[n].key \in Unkeyed => w.node[n].next = 0
    BY <1>9 DEF Plain
  <2>2. CASE n \in {mp, f}
    BY <1>1, <1>7, <1>10, <1>b, <1>c, <2>2, KeyFacts
  <2>4. CASE n \notin {f, mp}
    BY <1>2, <1>7, <2>4 DEF Plain
  <2> QED
    BY <2>2, <2>4
<1>18. Unique(w)
  BY <1>1, <1>2, <1>7, <1>8, <1>9 DEF Unique
<1>19. DummyOK(w)
  <2>1. \A n \in NodesOf(u) : u.node[n].key # <<"dummy", 0>>
    BY <1>1, <1>2 DEF DummyOK
  <2>2. ASSUME NEW n \in NodesOf(u) PROVE w.node[n].key # <<"dummy", 0>>
    <3>1. CASE n = f
      BY <1>7, <1>10, <3>1 DEF Unkeyed
    <3>2. CASE n # f
      BY <1>8, <2>1, <3>2
    <3> QED
      BY <3>1, <3>2
  <2>3. ~w.dummy
    BY <1>1, <1>6 DEF Alike
  <2> QED
    BY <1>9, <2>2, <2>3 DEF DummyOK
<1>20. FreesBelow(w)
  <2>1. SUFFICES ASSUME haslastfree(u), NEW n \in NodesOf(u), w.node[n].key = NoKey PROVE n < w.lastfree
    BY <1>9 DEF FreesBelow
  <2>2. n # f
    BY <1>7, <1>10, <2>1 DEF Unkeyed
  <2>3. n <= f /\ n # f /\ w.lastfree = f
    BY <1>6, <1>8, <1>a, <2>1, <2>2
  <2> QED
    BY <1>3, <1>a, <2>3
<1>21. HashOK(w)
  BY <1>14, <1>15, <1>16, <1>17, <1>18, <1>19, <1>20 DEF HashOK, HashWith
<1>22. Pairs(w) = Pairs(u) \cup {<<k, v>>}
  <2>3. Carried(u, f, w)
    BY <1>8, <1>9, <1>e DEF Carried, Moved
  <2>4. v # Empty /\ f \in NodesOf(u) /\ NodesOf(w) = NodesOf(u) /\ w.node[f].key = k /\ w.node[f].val = v
    BY <1>5, <1>7, <1>9, <1>a
  <2> QED
    BY <2>3, <2>4, PairsGrow
<1>23. FullNodes(u) => FullNodes(w)
  BY <1>5, <1>7, <1>8, <1>9 DEF FullNodes
<1> QED
  BY <1>6, <1>21, <1>22, <1>23 DEF Inserted

(* insertkey, where there is room.                                         *)
LEMMA Inserts ==
  ASSUME NEW u, HashOK(u), NEW k \in Keys, NEW v \in Values,
         \A n \in NodesOf(u) : u.node[n].key # k, HasRoom(u, k)
  PROVE  Inserted(u, insertkey(u, k, v), k, v)
<1>1. PICK pos : HashWith(u, pos)
  BY DEF HashOK
<1> DEFINE mp == mainposition(u, k)
           f == getfreepos(u)
<1>2. u \in TableRec /\ u.asserts \in BOOLEAN /\ DummyOK(u) /\ u.lsizenode \in Nat
  BY <1>1, HashParts DEF HashWith
<1>3. getgeneric(u, k, FALSE) = Absent
  BY MissesKey
<1>4. [u EXCEPT !.asserts = @ /\ getgeneric(u, k, FALSE) = Absent /\ HasRoom(u, k)] = u
  BY <1>2, <1>3 DEF TableRec
<1>5. insertkey(u, k, v) =
        CASE ~Taken(u, mp) -> Put(u, mp, k, v)
          [] Taken(u, mp) /\ mainposition(u, u.node[mp].key) # mp -> Put(MoveAway(Looked(u, f), mp, f), mp, k, v)
          [] OTHER -> Put(Extend(Looked(u, f), mp, f), f, k, v)
  BY <1>4, Zenon DEF insertkey
<1>6. ~u.dummy
  <2>1. SUFFICES ASSUME u.dummy PROVE FALSE
    OBVIOUS
  <2>2. NodesOf(u) = {0}
    <3>1. u.lsizenode = 0
      BY <1>2, <2>1 DEF DummyOK
    <3>2. sizenode(u) = 1
      BY <3>1, TwoTo DEF sizenode
    <3> QED
      BY <3>2 DEF NodesOf
  <2>3. u.node[0].key # NoKey
    BY <1>2, <2>1 DEF DummyOK, dummynode, NoKey
  <2>4. f = Absent
    BY <2>2, <2>3, FreePlace
  <2> QED
    BY <2>1, <2>4 DEF HasRoom, Taken
<1>7. Inserting(u, pos, k, v)
  BY <1>1, <1>6 DEF Inserting
<1>8. CASE ~Taken(u, mp)
  <2>1. u.node[mp].val = Empty /\ insertkey(u, k, v) = Put(u, mp, k, v)
    BY <1>5, <1>8 DEF Taken
  <2> QED
    BY <1>7, <2>1, PutInserts
<1>9. CASE Taken(u, mp)
  <2>1. u.node[mp].val # Empty /\ f # Absent
    BY <1>6, <1>9 DEF Taken, HasRoom
  <2>2. CASE mainposition(u, u.node[mp].key) # mp
    <3>1. insertkey(u, k, v) = Put(MoveAway(Looked(u, f), mp, f), mp, k, v)
      BY <1>5, <1>9, <2>2
    <3> QED
      BY <1>7, <2>1, <2>2, <3>1, MoveInserts
  <2>3. CASE mainposition(u, u.node[mp].key) = mp
    <3>1. insertkey(u, k, v) = Put(Extend(Looked(u, f), mp, f), f, k, v)
      BY <1>5, <1>9, <2>3
    <3> QED
      BY <1>7, <2>1, <2>3, <3>1, ExtendInserts
  <2> QED
    BY <2>2, <2>3
<1> QED
  BY <1>8, <1>9

LEMMA InjectionBound ==
  ASSUME NEW S, NEW T, IsFiniteSet(T), NEW f \in [S -> T], \A x, y \in S : f[x] = f[y] => x = y
  PROVE  IsFiniteSet(S) /\ Cardinality(S) <= Cardinality(T)
<1>1. f \in Injection(S, T)
  BY DEF Injection, IsInjective
<1> QED
  BY <1>1, FS_Injection

(* The hash part is sound whatever the rest of the table is.               *)
LEMMA HashTransfer ==
  ASSUME NEW u, HashOK(u), NEW w, w \in TableRec, w.node = u.node, w.lsizenode = u.lsizenode,
         w.dummy = u.dummy, w.lastfree = u.lastfree
  PROVE  HashOK(w) /\ NodesOf(w) = NodesOf(u) /\ sizenode(w) = sizenode(u) /\ Pairs(w) = Pairs(u)
         /\ (FullNodes(w) <=> FullNodes(u)) /\ \A k : mainposition(w, k) = mainposition(u, k)
<1>1. PICK pos : HashWith(u, pos)
  BY DEF HashOK
<1>2. sizenode(w) = sizenode(u) /\ NodesOf(w) = NodesOf(u)
  BY DEF sizenode, NodesOf
<1>3. Mod(w) = Mod(u)
  BY <1>2, Zenon DEF Mod
<1>4. \A k : mainposition(w, k) = mainposition(u, k)
  BY <1>2, <1>3, Zenon DEF mainposition
<1>5. haslastfree(w) = haslastfree(u)
  BY DEF haslastfree
<1>6. Keyed(w) = Keyed(u) /\ Nexts(w) = Nexts(u)
  BY <1>2 DEF Keyed, Nexts
<1>7. \A n : Home(w, n) = Home(u, n)
  BY <1>4, Zenon DEF Home
<1>8. Homes(w) = Homes(u)
  BY <1>6, <1>7 DEF Homes
<1>9. /\ Shaped(u) /\ Plain(u) /\ Unique(u) /\ DummyOK(u) /\ FreesBelow(u) /\ DeadLast(u, pos)
      /\ Chains(NodesOf(u), Keyed(u), Nexts(u), Homes(u), pos)
  BY <1>1 DEF HashWith
<1>10. Chains(NodesOf(w), Keyed(w), Nexts(w), Homes(w), pos)
  BY <1>2, <1>6, <1>8, <1>9, Zenon
<1>11. Shaped(w)
  BY <1>2, <1>9 DEF Shaped
<1>12. Plain(w) /\ Unique(w)
  BY <1>2, <1>9 DEF Plain, Unique
<1>13. DummyOK(w)
  BY <1>2, <1>9 DEF DummyOK
<1>14. FreesBelow(w) /\ DeadLast(w, pos)
  BY <1>2, <1>5, <1>6, <1>9 DEF FreesBelow, DeadLast
<1>15. HashOK(w)
  BY <1>10, <1>11, <1>12, <1>13, <1>14 DEF HashOK, HashWith
<1>16. Pairs(w) = Pairs(u) /\ (FullNodes(w) <=> FullNodes(u))
  BY <1>2 DEF Pairs, Used, FullNodes
<1> QED
  BY <1>2, <1>4, <1>15, <1>16

(* A hash part without keys.                                               *)
LEMMA BareHash ==
  ASSUME NEW u, Shaped(u), \A n \in NodesOf(u) : u.node[n].key \in Unkeyed /\ u.node[n].val = Empty /\ u.node[n].next = 0,
         DummyOK(u), FreesBelow(u)
  PROVE  HashOK(u) /\ Pairs(u) = {} /\ (~u.dummy => FullNodes(u))
<1> DEFINE pos == [n \in NodesOf(u) |-> n]
<1>1. u.lsizenode \in Nat
  BY DEF Shaped, TableRec
<1>2. NodesOf(u) \subseteq Nat
  BY <1>1, Places
<1>3. Keyed(u) = {}
  BY DEF Keyed
<1>4. Nexts(u) = [n \in NodesOf(u) |-> 0]
  BY DEF Nexts
<1>5. Homes(u) \in [{} -> {}]
  BY <1>3 DEF Homes
<1>6. pos \in [NodesOf(u) -> Nat] /\ \A m, n \in NodesOf(u) : pos[m] = pos[n] => m = n
  BY <1>2
<1> HIDE DEF pos
<1>7. Chains(NodesOf(u), Keyed(u), Nexts(u), Homes(u), pos)
  BY <1>2, <1>3, <1>4, <1>5, <1>6 DEF Chains
<1>8. Plain(u) /\ DeadLast(u, pos)
  BY <1>3 DEF Plain, DeadLast
<1>9. Unique(u)
  <2>1. \A n \in NodesOf(u) : u.node[n].key \notin Keys
    BY KeyFacts
  <2> QED
    BY <2>1 DEF Unique
<1>10. HashOK(u)
  BY <1>7, <1>8, <1>9 DEF HashOK, HashWith
<1>11. Pairs(u) = {}
  BY DEF Pairs, Used
<1>12. ~u.dummy => FullNodes(u)
  BY DEF DummyOK, FullNodes, Unkeyed
<1> QED
  BY <1>10, <1>11, <1>12

LEMMA NewTable ==
  /\ luaH_new \in TableRec /\ HashOK(luaH_new) /\ Pairs(luaH_new) = {}
  /\ luaH_new.array = <<>> /\ luaH_new.asserts = TRUE /\ luaH_new.hint = 0 /\ luaH_new.dummy
<1> DEFINE u == luaH_new
           N == [n \in 0..0 |-> dummynode]
<1>1. NodesOf(u) = 0..0
  BY TwoTo DEF luaH_new, NodesOf, sizenode
<1>2. dummynode \in Node /\ dummynode.key = <<"dummy", 0>> /\ dummynode.val = Empty /\ dummynode.next = 0
  BY DEF dummynode, Node, Cell, Unkeyed
<1>3. N \in [0..0 -> Node] /\ N[0] = dummynode
  BY <1>2
<1> HIDE DEF N
<1>4. N \in UNION {[S -> Node] : S \in SUBSET Nat}
  <2>1. 0..0 \in SUBSET Nat
    OBVIOUS
  <2> QED
    BY <1>3, <2>1
<1>5. u \in TableRec /\ u.node = N /\ u.lsizenode = 0 /\ u.dummy /\ u.array = <<>> /\ u.asserts = TRUE /\ u.hint = 0
  <2>1. u = [array |-> <<>>, hint |-> 0, node |-> N, lsizenode |-> 0, dummy |-> TRUE, lastfree |-> 0, asserts |-> TRUE]
    BY DEF luaH_new, N
  <2>2. <<>> \in Seq(Cell)
    OBVIOUS
  <2> DEFINE A == Seq(Cell)
             B == UNION {[S -> Node] : S \in SUBSET Nat}
  <2>3. <<>> \in A /\ N \in B
    BY <1>4, <2>2
  <2> HIDE DEF A, B
  <2>4. u \in [array : A, hint : Nat, node : B, lsizenode : Nat, dummy : BOOLEAN, lastfree : Nat, asserts : BOOLEAN]
    BY <2>1, <2>3
  <2> QED
    BY <2>1, <2>4 DEF A, B, TableRec
<1> HIDE DEF u
<1>6. Shaped(u)
  BY <1>1, <1>3, <1>5 DEF Shaped
<1>7. \A n \in NodesOf(u) : u.node[n].key \in Unkeyed /\ u.node[n].val = Empty /\ u.node[n].next = 0
  <2> TAKE n \in NodesOf(u)
  <2>1. n = 0
    BY <1>1
  <2>2. u.node[n] = dummynode
    BY <1>3, <1>5, <2>1
  <2> QED
    BY <1>2, <2>2 DEF Unkeyed
<1>8. DummyOK(u)
  BY <1>3, <1>5 DEF DummyOK
<1>9. FreesBelow(u)
  BY <1>1, <1>2, <1>3, <1>5 DEF FreesBelow, NoKey
<1>10. HashOK(u) /\ Pairs(u) = {}
  BY <1>6, <1>7, <1>8, <1>9, BareHash
<1> QED
  BY <1>5, <1>10 DEF u

LEMMA NewNodes ==
  ASSUME NEW size \in Nat, NEW h, h = setnodevector(size)
  PROVE  /\ h \in TableRec /\ HashOK(h) /\ Pairs(h) = {} /\ sizenode(h) >= size
         /\ size > 0 => ~h.dummy /\ FullNodes(h)
<1>1. CASE size = 0
  <2>1. h = luaH_new
    BY <1>1 DEF setnodevector
  <2>2. h \in TableRec /\ HashOK(h) /\ Pairs(h) = {}
    BY <2>1, NewTable
  <2>3. sizenode(h) \in Nat
    BY <2>2, Places DEF TableRec
  <2> QED
    BY <1>1, <2>2, <2>3
<1>2. CASE size # 0
  <2> DEFINE l == ceillog2(size)
             z == twoto[l]
             N == [n \in 0..(z - 1) |-> FreeNode]
  <2>1. l \in Nat /\ z \in Nat /\ z >= size /\ z > 0
    <3>1. l \in Nat /\ twoto[l] >= size
      BY CeilLog
    <3>2. twoto[l] \in Nat /\ twoto[l] > l
      BY <3>1, TwoTo
    <3> QED
      BY <3>1, <3>2
  <2>2. h = [luaH_new EXCEPT !.node = N, !.lsizenode = l, !.dummy = FALSE, !.lastfree = z]
    BY <1>2 DEF setnodevector
  <2>3. FreeNode \in Node /\ FreeNode.key = NoKey /\ FreeNode.val = Empty /\ FreeNode.next = 0
    BY DEF FreeNode, Node, Cell, Unkeyed
  <2> HIDE DEF l, z
  <2>4. N \in [0..(z - 1) -> Node] /\ \A n \in 0..(z - 1) : N[n] = FreeNode
    BY <2>3
  <2>5. N \in UNION {[S -> Node] : S \in SUBSET Nat}
    <3>1. 0..(z - 1) \in SUBSET Nat
      BY <2>1
    <3> HIDE DEF N
    <3> QED
      BY <2>4, <3>1
  <2> HIDE DEF N
  <2>6. h \in TableRec /\ h.node = N /\ h.lsizenode = l /\ ~h.dummy /\ h.lastfree = z
    <3> DEFINE A == Seq(Cell)
               B == UNION {[S -> Node] : S \in SUBSET Nat}
    <3>1. luaH_new \in [array : A, hint : Nat, node : B, lsizenode : Nat, dummy : BOOLEAN, lastfree : Nat, asserts : BOOLEAN]
      BY NewTable DEF TableRec
    <3>2. N \in B
      BY <2>5
    <3> HIDE DEF A, B
    <3>3. h \in [array : A, hint : Nat, node : B, lsizenode : Nat, dummy : BOOLEAN, lastfree : Nat, asserts : BOOLEAN]
      BY <2>1, <2>2, <3>1, <3>2
    <3>4. h.node = N /\ h.lsizenode = l /\ ~h.dummy /\ h.lastfree = z
      BY <2>2, <3>1
    <3> QED
      BY <3>3, <3>4 DEF A, B, TableRec
  <2>7. sizenode(h) = z /\ NodesOf(h) = 0..(z - 1)
    BY <2>6 DEF sizenode, NodesOf, z
  <2>8. Shaped(h)
    BY <2>4, <2>6, <2>7 DEF Shaped
  <2>9. \A n \in NodesOf(h) : h.node[n].key = NoKey /\ h.node[n].val = Empty /\ h.node[n].next = 0
    BY <2>3, <2>4, <2>6, <2>7
  <2>10. DummyOK(h)
    BY <2>6, <2>9 DEF DummyOK, NoKey
  <2>11. FreesBelow(h)
    BY <2>1, <2>6, <2>7 DEF FreesBelow
  <2>12. HashOK(h) /\ Pairs(h) = {} /\ (~h.dummy => FullNodes(h))
    BY <2>8, <2>9, <2>10, <2>11, BareHash DEF Unkeyed
  <2> QED
    BY <2>1, <2>6, <2>7, <2>12
<1> QED
  BY <1>1, <1>2

----------------------------------------------------------------------------
(* Filling a hash part that was made for what goes there.                  *)

Functional(F) == \A p, q \in F : p[1] = q[1] => p = q
(* There is room for all of F, part of which is there and nothing else.    *)
Roomy(u, F) ==
  /\ HashOK(u) /\ Pairs(u) \subseteq F /\ F \subseteq Keys \X Values /\ Functional(F)
  /\ IsFiniteSet(F) /\ Cardinality(F) <= sizenode(u)
  /\ F # {} => ~u.dummy /\ FullNodes(u)

LEMMA UsedPairs ==
  ASSUME NEW u, HashOK(u)
  PROVE  /\ \A n \in NodesOf(u) : u.node[n].val # Empty => /\ <<u.node[n].key, u.node[n].val>> \in Pairs(u)
                                                           /\ u.node[n].key \in Keys /\ u.node[n].val \in Values
         /\ \A p \in Pairs(u) : \E n \in NodesOf(u) : u.node[n].val # Empty /\ p = <<u.node[n].key, u.node[n].val>>
         /\ Pairs(u) \subseteq Keys \X Values /\ Functional(Pairs(u))
<1>1. PICK pos : HashWith(u, pos)
  BY DEF HashOK
<1>2. \A n \in NodesOf(u) : u.node[n].val \in Cell
  BY <1>1, HashParts
<1>3. Plain(u) /\ Unique(u)
  BY <1>1 DEF HashWith
<1>4. \A n \in NodesOf(u) : u.node[n].val # Empty => /\ <<u.node[n].key, u.node[n].val>> \in Pairs(u)
                                                     /\ u.node[n].key \in Keys /\ u.node[n].val \in Values
  BY <1>2, <1>3 DEF Plain, Pairs, Used, Cell
<1>5. \A p \in Pairs(u) : \E n \in NodesOf(u) : u.node[n].val # Empty /\ p = <<u.node[n].key, u.node[n].val>>
  BY DEF Pairs, Used
<1>6. Pairs(u) \subseteq Keys \X Values
  BY <1>4, <1>5
<1>7. Functional(Pairs(u))
  <2>1. SUFFICES ASSUME NEW p \in Pairs(u), NEW q \in Pairs(u), p[1] = q[1] PROVE p = q
    BY DEF Functional
  <2>2. PICK m \in NodesOf(u) : u.node[m].val # Empty /\ p = <<u.node[m].key, u.node[m].val>>
    BY <1>5
  <2>3. PICK n \in NodesOf(u) : u.node[n].val # Empty /\ q = <<u.node[n].key, u.node[n].val>>
    BY <1>5
  <2>4. u.node[m].key = u.node[n].key /\ u.node[m].key \in Keys
    BY <1>4, <2>1, <2>2, <2>3
  <2>5. m = n
    BY <1>3, <2>4 DEF Unique
  <2> QED
    BY <2>2, <2>3, <2>5
<1> QED
  BY <1>4, <1>5, <1>6, <1>7

LEMMA RoomLeft ==
  ASSUME NEW u, NEW F, Roomy(u, F), NEW p \in F, p \notin Pairs(u), NEW k
  PROVE  HasRoom(u, k) /\ \A n \in NodesOf(u) : u.node[n].key # p[1]
<1>1. /\ HashOK(u) /\ Pairs(u) \subseteq F /\ Functional(F) /\ F \subseteq Keys \X Values
      /\ IsFiniteSet(F) /\ Cardinality(F) <= sizenode(u) /\ ~u.dummy /\ FullNodes(u)
  BY DEF Roomy
<1>2. PICK pos : HashWith(u, pos)
  BY <1>1 DEF HashOK
<1>3. u.lsizenode \in Nat /\ Unique(u)
  BY <1>2, HashParts DEF HashWith
<1>4. IsFiniteSet(NodesOf(u)) /\ Cardinality(NodesOf(u)) = sizenode(u) /\ sizenode(u) \in Nat
  BY <1>3, Places
<1> DEFINE G == F \ {p}
           S == Used(u)
           g == [n \in S |-> <<u.node[n].key, u.node[n].val>>]
<1>5. IsFiniteSet(G) /\ Cardinality(G) = Cardinality(F) - 1 /\ Cardinality(F) \in Nat
  BY <1>1, FS_RemoveElement, FS_CardinalityType
<1>6. \A n \in S : n \in NodesOf(u) /\ u.node[n].key \in Keys /\ <<u.node[n].key, u.node[n].val>> \in Pairs(u)
  BY <1>1, UsedPairs DEF Used
<1>7. g \in [S -> G]
  BY <1>1, <1>6
<1>8. \A x, y \in S : g[x] = g[y] => x = y
  BY <1>3, <1>6 DEF Unique
<1> HIDE DEF G, S, g
<1>9. IsFiniteSet(S) /\ Cardinality(S) <= Cardinality(G)
  BY <1>5, <1>7, <1>8, InjectionBound
<1>10. Cardinality(S) < Cardinality(NodesOf(u)) /\ S \subseteq NodesOf(u)
  <2>1. Cardinality(S) \in Nat
    BY <1>9, FS_CardinalityType
  <2>2. Cardinality(F) <= sizenode(u)
    BY <1>1
  <2>3. Cardinality(S) < Cardinality(NodesOf(u))
    BY <1>4, <1>5, <1>9, <2>1, <2>2
  <2>4. S \subseteq NodesOf(u)
    BY <1>6
  <2> QED
    BY <2>3, <2>4
<1>11. S # NodesOf(u)
  <2>1. Cardinality(S) \in Nat
    BY <1>9, FS_CardinalityType
  <2> QED
    BY <1>10, <2>1
<1>12. PICK n \in NodesOf(u) : n \notin S
  BY <1>10, <1>11
<1>13. u.node[n].key = NoKey
  BY <1>1, <1>12 DEF FullNodes, S, Used
<1>14. getfreepos(u) # Absent
  BY <1>1, <1>12, <1>13, FreePlace
<1>15. ASSUME NEW m \in NodesOf(u), u.node[m].key = p[1] PROVE FALSE
  <2>1. p[1] \in Keys /\ NoKey \notin Keys
    BY <1>1, KeyFacts DEF Unkeyed
  <2>2. u.node[m].val # Empty
    BY <1>1, <1>15, <2>1 DEF FullNodes
  <2> DEFINE q == <<u.node[m].key, u.node[m].val>>
  <2>3. q \in Pairs(u) /\ q[1] = p[1]
    BY <1>1, <1>15, <2>2, UsedPairs
  <2>4. q = p
    BY <1>1, <2>3 DEF Functional
  <2> QED
    BY <2>3, <2>4
<1> QED
  BY <1>14, <1>15 DEF HasRoom

LEMMA Fill ==
  ASSUME NEW u, NEW F, Roomy(u, F), NEW p \in F, p \notin Pairs(u), NEW w, w = insertkey(u, p[1], p[2])
  PROVE  /\ Roomy(w, F) /\ Pairs(w) = Pairs(u) \cup {p} /\ Alike(u, w) /\ w.asserts = u.asserts
         /\ HasRoom(u, p[1])
<1>1. /\ HashOK(u) /\ Pairs(u) \subseteq F /\ F \subseteq Keys \X Values /\ Functional(F)
      /\ IsFiniteSet(F) /\ Cardinality(F) <= sizenode(u) /\ ~u.dummy /\ FullNodes(u)
  BY DEF Roomy
<1>2. p[1] \in Keys /\ p[2] \in Values /\ p = <<p[1], p[2]>>
  BY <1>1
<1>3. HasRoom(u, p[1]) /\ \A n \in NodesOf(u) : u.node[n].key # p[1]
  BY RoomLeft
<1>4. Inserted(u, w, p[1], p[2])
  BY <1>1, <1>2, <1>3, Inserts
<1>5. /\ HashOK(w) /\ Alike(u, w) /\ w.asserts = u.asserts
      /\ Pairs(w) = Pairs(u) \cup {p} /\ FullNodes(w)
  BY <1>1, <1>2, <1>4 DEF Inserted
<1>6. sizenode(w) = sizenode(u) /\ ~w.dummy
  BY <1>1, <1>5, AlikePlaces DEF Alike
<1>7. Roomy(w, F)
  BY <1>1, <1>5, <1>6 DEF Roomy
<1> QED
  BY <1>3, <1>5, <1>7

(* The fields of a table, in its array and in all.                         *)
ArrayPairs(u) == {<<<<"int", i>>, u.array[i]>> : i \in InArrayNow(u)}
Items(u) == ArrayPairs(u) \cup Pairs(u)
OutOf(G, n) == {p \in G : ~(p[1][1] = "int" /\ p[1][2] \in 1..n)}
Slice(u, na, n) == {<<<<"int", i>>, u.array[i]>> : i \in {j \in (na + 1)..n : u.array[j] # Empty}}

ArrayKeys(u) == \A i \in 1..asize(u) : u.array[i] # Empty => <<"int", i>> \in Keys
Split(u) == \A n \in NodesOf(u) : u.node[n].val # Empty => ~InArray(u, u.node[n].key)
TableOK(u) ==
  /\ HashOK(u) /\ ArrayKeys(u) /\ Split(u)
  /\ u.hint <= asize(u)
  /\ u.asserts

LEMMA ArrayFacts ==
  ASSUME NEW u \in TableRec
  PROVE  /\ asize(u) \in Nat /\ asize(u) = Len(u.array) /\ DOMAIN u.array = 1..asize(u)
         /\ \A i \in 1..asize(u) : u.array[i] \in Cell
         /\ u.array \in [1..asize(u) -> Cell] /\ u.hint \in Nat /\ u.asserts \in BOOLEAN /\ u.dummy \in BOOLEAN
<1>1. u.array \in Seq(Cell) /\ u.hint \in Nat /\ u.asserts \in BOOLEAN /\ u.dummy \in BOOLEAN
  BY DEF TableRec
<1> QED
  BY <1>1 DEF asize

LEMMA HashTyped ==
  ASSUME NEW u, HashOK(u)
  PROVE  u \in TableRec /\ u.lsizenode \in Nat /\ NodesOf(u) \subseteq Nat /\ sizenode(u) \in Nat
         /\ NodesOf(u) = 0..(sizenode(u) - 1) /\ u.node \in [NodesOf(u) -> Node]
<1>1. PICK pos : HashWith(u, pos)
  BY DEF HashOK
<1>2. u \in TableRec /\ u.lsizenode \in Nat /\ NodesOf(u) \subseteq Nat /\ u.node \in [NodesOf(u) -> Node]
  BY <1>1, HashParts
<1>3. sizenode(u) \in Nat
  BY <1>2, Places
<1> QED
  BY <1>2, <1>3, Zenon DEF NodesOf

----------------------------------------------------------------------------
(* The part of the array that is cut off goes to the hash part.            *)

SliceNext(u, na, f, i) ==
  IF i = na THEN u
  ELSE IF u.array[i] = Empty THEN f[i - 1] ELSE insertkey(f[i - 1], <<"int", i>>, u.array[i])

LEMMA SliceRuns ==
  ASSUME NEW u \in TableRec, NEW na \in Nat, na < asize(u)
  PROVE  \E c : /\ \A i \in na..asize(u) : c[i] = SliceNext(u, na, c, i)
                /\ reinsertOldSlice(u, na) = c[asize(u)]
<1> DEFINE m == asize(u)
           Upto(b) == \E f : f = [i \in na..b |-> SliceNext(u, na, f, i)]
           P(g) == g = [i \in na..m |-> IF i = na THEN u
                                        ELSE IF u.array[i] = Empty THEN g[i - 1]
                                        ELSE insertkey(g[i - 1], <<"int", i>>, u.array[i])]
           Bad == {b \in Nat : na <= b /\ ~Upto(b)}
<1>1. m \in Nat
  BY ArrayFacts
<1>2. Upto(na)
  <2> DEFINE f == [i \in na..na |-> u]
  <2>1. f = [i \in na..na |-> SliceNext(u, na, f, i)]
    BY DEF SliceNext
  <2> QED
    BY <2>1
<1>3. ASSUME NEW b \in Nat, na <= b, Upto(b) PROVE Upto(b + 1)
  <2>1. PICK f : f = [i \in na..b |-> SliceNext(u, na, f, i)]
    BY <1>3
  <2> DEFINE g == [i \in na..(b + 1) |-> IF i <= b THEN f[i] ELSE SliceNext(u, na, f, i)]
  <2>2. \A i \in na..b : g[i] = f[i] /\ f[i] = SliceNext(u, na, f, i)
    BY <2>1
  <2>3. g[b + 1] = SliceNext(u, na, f, b + 1)
    BY <1>3
  <2>4. \A i \in na..(b + 1) : i = na \/ f[i - 1] = g[i - 1]
    BY <2>2
  <2>5. DOMAIN g = na..(b + 1) /\ g = [i \in na..(b + 1) |-> g[i]]
    OBVIOUS
  <2> HIDE DEF g
  <2>6. \A i \in na..(b + 1) : SliceNext(u, na, f, i) = SliceNext(u, na, g, i)
    BY <2>4, Zenon DEF SliceNext
  <2>7. \A i \in na..(b + 1) : i \in na..b \/ i = b + 1
    BY <1>3
  <2>8. \A i \in na..(b + 1) : g[i] = SliceNext(u, na, g, i)
    BY <2>2, <2>3, <2>6, <2>7
  <2>9. g = [i \in na..(b + 1) |-> SliceNext(u, na, g, i)]
    BY <2>5, <2>8
  <2> QED
    BY <2>9
<1> HIDE DEF Upto
<1>4. Upto(m)
  <2>1. SUFFICES ASSUME ~Upto(m) PROVE FALSE
    OBVIOUS
  <2>2. m \in Bad
    BY <1>1, <2>1
  <2>3. PICK b \in Bad : \A e \in Bad : b <= e
    BY <2>2, LeastNat
  <2>4. b # na
    BY <1>2, <2>3
  <2>5. b - 1 \in Nat /\ na <= b - 1 /\ b - 1 \notin Bad /\ b = (b - 1) + 1
    BY <2>3, <2>4
  <2> QED
    BY <1>3, <2>3, <2>5
<1>5. PICK f : P(f)
  BY <1>4, Zenon DEF Upto, SliceNext
<1> DEFINE c == CHOOSE g : P(g)
<1>6. reinsertOldSlice(u, na) = c[m]
  BY Zenon DEF reinsertOldSlice
<1>7. P(c)
  <2> HIDE DEF P
  <2> QED
    BY <1>5, Zenon
<1>8. \A i \in na..m : c[i] = SliceNext(u, na, c, i)
  <2> DEFINE cc == c
  <2>1. P(cc)
    BY <1>7
  <2> HIDE DEF c, cc
  <2>2. \A i \in na..m : cc[i] = SliceNext(u, na, cc, i)
    BY <2>1 DEF SliceNext
  <2> QED
    BY <2>2 DEF cc
<1> HIDE DEF c
<1> QED
  BY <1>6, <1>8

LEMMA SliceGrows ==
  ASSUME NEW u, NEW na \in Nat, NEW i \in Nat, i > na
  PROVE  Slice(u, na, i) = IF u.array[i] = Empty THEN Slice(u, na, i - 1)
                           ELSE Slice(u, na, i - 1) \cup {<<<<"int", i>>, u.array[i]>>}
<1> DEFINE S(n) == {j \in (na + 1)..n : u.array[j] # Empty}
<1>1. (na + 1)..i = ((na + 1)..(i - 1)) \cup {i}
  OBVIOUS
<1>2. S(i) = IF u.array[i] = Empty THEN S(i - 1) ELSE S(i - 1) \cup {i}
  BY <1>1
<1> HIDE DEF S
<1>3. Slice(u, na, i) = {<<<<"int", j>>, u.array[j]>> : j \in S(i)}
      /\ Slice(u, na, i - 1) = {<<<<"int", j>>, u.array[j]>> : j \in S(i - 1)}
  BY DEF Slice, S
<1>4. CASE u.array[i] = Empty
  BY <1>2, <1>3, <1>4
<1>5. CASE u.array[i] # Empty
  <2>1. S(i) = S(i - 1) \cup {i}
    BY <1>2, <1>5
  <2>2. {<<<<"int", j>>, u.array[j]>> : j \in S(i)} = {<<<<"int", j>>, u.array[j]>> : j \in S(i - 1)} \cup {<<<<"int", i>>, u.array[i]>>}
    BY <2>1
  <2> QED
    BY <1>3, <1>5, <2>2
<1> QED
  BY <1>4, <1>5

LEMMA SliceMoves ==
  ASSUME NEW u, NEW F, Roomy(u, F), Pairs(u) = {}, NEW na \in Nat, Slice(u, na, asize(u)) \subseteq F,
         NEW w, w = reinsertOldSlice(u, na)
  PROVE  Roomy(w, F) /\ Pairs(w) = Slice(u, na, asize(u)) /\ Alike(u, w) /\ w.asserts = u.asserts
<1>1. HashOK(u) /\ u \in TableRec /\ asize(u) \in Nat
  BY HashTyped, ArrayFacts DEF Roomy
<1>2. Alike(u, u)
  BY <1>1, HashTyped DEF Alike
<1>3. CASE ~(na < asize(u))
  <2>1. w = u
    BY <1>3 DEF reinsertOldSlice
  <2>2. Slice(u, na, asize(u)) = {}
    BY <1>1, <1>3 DEF Slice
  <2> QED
    BY <1>2, <2>1, <2>2
<1>4. CASE na < asize(u)
  <2> DEFINE m == asize(u)
  <2>1. PICK c : /\ \A i \in na..m : c[i] = SliceNext(u, na, c, i)
                 /\ w = c[m]
    BY <1>1, <1>4, SliceRuns
  <2> DEFINE Good(i) == Roomy(c[i], F) /\ Pairs(c[i]) = Slice(u, na, i) /\ Alike(u, c[i]) /\ c[i].asserts = u.asserts
             Bad == {i \in Nat : na <= i /\ i <= m /\ ~Good(i)}
  <2>2. Good(na)
    <3>0. na \in na..m
      BY <1>1, <1>4
    <3>1. c[na] = u
      <4>1. c[na] = SliceNext(u, na, c, na)
        BY <2>1, <3>0
      <4> QED
        BY <4>1 DEF SliceNext
    <3>2. Slice(u, na, na) = {}
      BY DEF Slice
    <3> QED
      BY <1>2, <3>1, <3>2
  <2>3. ASSUME NEW i \in Nat, na < i, i <= m, Good(i - 1) PROVE Good(i)
    <3> DEFINE p == <<<<"int", i>>, u.array[i]>>
    <3>1. c[i] = IF u.array[i] = Empty THEN c[i - 1] ELSE insertkey(c[i - 1], p[1], p[2])
      BY <1>1, <2>1, <2>3 DEF SliceNext
    <3>2. Slice(u, na, i) = IF u.array[i] = Empty THEN Slice(u, na, i - 1) ELSE Slice(u, na, i - 1) \cup {p}
      BY <2>3, SliceGrows
    <3>3. CASE u.array[i] = Empty
      BY <2>3, <3>1, <3>2, <3>3
    <3>4. CASE u.array[i] # Empty
      <4>1. p \in Slice(u, na, m)
        BY <1>1, <2>3, <3>4 DEF Slice
      <4>2. p \notin Slice(u, na, i - 1)
        BY <2>3 DEF Slice
      <4> DEFINE d == c[i - 1]
                 e == c[i]
      <4>3. Roomy(d, F) /\ Pairs(d) = Slice(u, na, i - 1) /\ Alike(u, d) /\ d.asserts = u.asserts
        BY <2>3
      <4>4. e = insertkey(d, p[1], p[2])
        BY <3>1, <3>4
      <4> HIDE DEF d, e, p
      <4>5. Roomy(e, F) /\ Pairs(e) = Pairs(d) \cup {p} /\ Alike(d, e) /\ e.asserts = d.asserts
        BY <4>1, <4>2, <4>3, <4>4, Fill
      <4>6. Alike(u, e)
        BY <4>3, <4>5 DEF Alike
      <4>7. Pairs(e) = Slice(u, na, i)
        BY <3>2, <3>4, <4>3, <4>5
      <4> QED
        BY <4>3, <4>5, <4>6, <4>7 DEF e
    <3> QED
      BY <3>3, <3>4
  <2> HIDE DEF Good
  <2>4. Good(m)
    <3>1. SUFFICES ASSUME ~Good(m) PROVE FALSE
      OBVIOUS
    <3>2. m \in Bad
      BY <1>1, <1>4, <3>1
    <3>3. PICK b \in Bad : \A e \in Bad : b <= e
      BY <3>2, LeastNat
    <3>4. b # na
      BY <2>2, <3>3
    <3>5. b - 1 \in Nat /\ na <= b - 1 /\ b - 1 <= m /\ b - 1 \notin Bad /\ na < b /\ b <= m /\ b \in Nat
      BY <1>1, <3>3, <3>4
    <3> QED
      BY <2>3, <3>3, <3>5
  <2> QED
    BY <2>1, <2>4 DEF Good
<1> QED
  BY <1>3, <1>4

----------------------------------------------------------------------------
(* What was in the hash part goes where it belongs now.                    *)

HashNext(old, u, f, j) ==
  IF j = 0 THEN u
  ELSE IF old.node[j - 1].val = Empty THEN f[j - 1]
       ELSE newcheckedkey(f[j - 1], old.node[j - 1].key, old.node[j - 1].val)

LEMMA HashRuns ==
  ASSUME NEW old, sizenode(old) \in Nat, NEW u
  PROVE  \E c : /\ \A j \in 0..sizenode(old) : c[j] = HashNext(old, u, c, j)
                /\ reinserthash(old, u) = c[sizenode(old)]
<1> DEFINE m == sizenode(old)
           Upto(b) == \E f : f = [j \in 0..b |-> HashNext(old, u, f, j)]
           P(g) == g = [j \in 0..m |-> IF j = 0 THEN u
                                       ELSE IF old.node[j - 1].val = Empty THEN g[j - 1]
                                            ELSE newcheckedkey(g[j - 1], old.node[j - 1].key, old.node[j - 1].val)]
           Bad == {b \in Nat : ~Upto(b)}
<1>1. m \in Nat
  OBVIOUS
<1>2. Upto(0)
  <2> DEFINE f == [j \in 0..0 |-> u]
  <2>1. f = [j \in 0..0 |-> HashNext(old, u, f, j)]
    BY DEF HashNext
  <2> QED
    BY <2>1
<1>3. ASSUME NEW b \in Nat, Upto(b) PROVE Upto(b + 1)
  <2>1. PICK f : f = [j \in 0..b |-> HashNext(old, u, f, j)]
    BY <1>3
  <2> DEFINE g == [j \in 0..(b + 1) |-> IF j <= b THEN f[j] ELSE HashNext(old, u, f, j)]
  <2>2. \A j \in 0..b : g[j] = f[j] /\ f[j] = HashNext(old, u, f, j)
    BY <2>1
  <2>3. g[b + 1] = HashNext(old, u, f, b + 1)
    BY <1>3
  <2>4. \A j \in 0..(b + 1) : j = 0 \/ f[j - 1] = g[j - 1]
    BY <2>2
  <2>5. DOMAIN g = 0..(b + 1) /\ g = [j \in 0..(b + 1) |-> g[j]]
    OBVIOUS
  <2> HIDE DEF g
  <2>6. \A j \in 0..(b + 1) : HashNext(old, u, f, j) = HashNext(old, u, g, j)
    BY <2>4, Zenon DEF HashNext
  <2>7. \A j \in 0..(b + 1) : j \in 0..b \/ j = b + 1
    BY <1>3
  <2>8. \A j \in 0..(b + 1) : g[j] = HashNext(old, u, g, j)
    BY <2>2, <2>3, <2>6, <2>7
  <2>9. g = [j \in 0..(b + 1) |-> HashNext(old, u, g, j)]
    BY <2>5, <2>8
  <2> QED
    BY <2>9
<1> HIDE DEF Upto
<1>4. Upto(m)
  <2>1. SUFFICES ASSUME ~Upto(m) PROVE FALSE
    OBVIOUS
  <2>2. m \in Bad
    BY <1>1, <2>1
  <2>3. PICK b \in Bad : \A e \in Bad : b <= e
    BY <2>2, LeastNat
  <2>4. b # 0
    BY <1>2, <2>3
  <2>5. b - 1 \in Nat /\ b - 1 \notin Bad /\ b = (b - 1) + 1
    BY <2>3, <2>4
  <2> QED
    BY <1>3, <2>3, <2>5
<1>5. PICK f : P(f)
  BY <1>4, Zenon DEF Upto, HashNext
<1> DEFINE c == CHOOSE g : P(g)
<1>6. reinserthash(old, u) = c[m]
  BY Zenon DEF reinserthash
<1>7. P(c)
  <2> HIDE DEF P
  <2> QED
    BY <1>5, Zenon
<1>8. \A j \in 0..m : c[j] = HashNext(old, u, c, j)
  <2> DEFINE cc == c
  <2>1. P(cc)
    BY <1>7
  <2> HIDE DEF c, cc
  <2>2. \A j \in 0..m : cc[j] = HashNext(old, u, cc, j)
    BY <2>1 DEF HashNext
  <2> QED
    BY <2>2 DEF cc
<1> HIDE DEF c
<1> QED
  BY <1>6, <1>8

(* A table in which there is room for what G has.                          *)
Ready(u, G) ==
  /\ Roomy(u, OutOf(G, asize(u))) /\ Items(u) \subseteq G
  /\ Functional(G) /\ G \subseteq Keys \X Values
SameFrame(u, w) ==
  asize(w) = asize(u) /\ w.hint = u.hint /\ w.asserts = u.asserts /\ w.dummy = u.dummy

LEMMA ArrayPut ==
  ASSUME NEW u, HashOK(u), NEW i \in 1..asize(u), NEW v \in Cell,
         NEW w, w = [u EXCEPT !.array[i] = v]
  PROVE  /\ w.array[i] = v /\ \A j \in 1..asize(u) : j # i => w.array[j] = u.array[j]
         /\ HashOK(w) /\ Pairs(w) = Pairs(u) /\ SameFrame(u, w) /\ sizenode(w) = sizenode(u)
         /\ (FullNodes(w) <=> FullNodes(u))
         /\ v # Empty /\ u.array[i] = Empty => ArrayPairs(w) = ArrayPairs(u) \cup {<<<<"int", i>>, v>>}
<1>1. u \in TableRec
  BY HashTyped
<1>2. /\ asize(u) \in Nat /\ asize(u) = Len(u.array) /\ u.array \in [1..asize(u) -> Cell]
      /\ u.array \in Seq(Cell)
  BY <1>1, ArrayFacts DEF TableRec
<1> DEFINE a == [u.array EXCEPT ![i] = v]
<1>3. a \in Seq(Cell) /\ Len(a) = asize(u) /\ a[i] = v /\ \A j \in 1..asize(u) : j # i => a[j] = u.array[j]
  BY <1>2
<1>4. w = [u EXCEPT !.array = a]
  BY <1>1 DEF TableRec
<1> HIDE DEF a
<1>5. /\ w \in TableRec /\ w.array = a /\ w.node = u.node /\ w.lsizenode = u.lsizenode /\ w.dummy = u.dummy
      /\ w.lastfree = u.lastfree /\ w.hint = u.hint /\ w.asserts = u.asserts
  <2> DEFINE A == Seq(Cell)
             B == UNION {[S -> Node] : S \in SUBSET Nat}
  <2>1. u \in [array : A, hint : Nat, node : B, lsizenode : Nat, dummy : BOOLEAN, lastfree : Nat, asserts : BOOLEAN]
    BY <1>1 DEF TableRec
  <2>2. a \in A
    BY <1>3
  <2> HIDE DEF A, B
  <2>3. /\ w \in [array : A, hint : Nat, node : B, lsizenode : Nat, dummy : BOOLEAN, lastfree : Nat, asserts : BOOLEAN]
        /\ w.array = a /\ w.node = u.node /\ w.lsizenode = u.lsizenode /\ w.dummy = u.dummy
        /\ w.lastfree = u.lastfree /\ w.hint = u.hint /\ w.asserts = u.asserts
    BY <1>4, <2>1, <2>2
  <2> QED
    BY <2>3 DEF A, B, TableRec
<1>6. HashOK(w) /\ Pairs(w) = Pairs(u) /\ sizenode(w) = sizenode(u) /\ (FullNodes(w) <=> FullNodes(u))
  BY <1>5, HashTransfer
<1>7. asize(w) = asize(u)
  BY <1>3, <1>5 DEF asize
<1>8. SameFrame(u, w)
  BY <1>5, <1>7 DEF SameFrame
<1>9. ASSUME v # Empty, u.array[i] = Empty PROVE ArrayPairs(w) = ArrayPairs(u) \cup {<<<<"int", i>>, v>>}
  <2>1. InArrayNow(w) = InArrayNow(u) \cup {i} /\ i \notin InArrayNow(u)
    BY <1>3, <1>5, <1>7, <1>9 DEF InArrayNow
  <2>2. \A j \in InArrayNow(u) : w.array[j] = u.array[j]
    BY <1>3, <1>5, <2>1 DEF InArrayNow
  <2>3. w.array[i] = v
    BY <1>3, <1>5
  <2> QED
    BY <2>1, <2>2, <2>3 DEF ArrayPairs
<1> QED
  BY <1>3, <1>5, <1>6, <1>8, <1>9

LEMMA Place ==
  ASSUME NEW u, NEW G, Ready(u, G), NEW p \in G, p \notin Items(u), NEW w, w = newcheckedkey(u, p[1], p[2])
  PROVE  Ready(w, G) /\ Items(w) = Items(u) \cup {p} /\ SameFrame(u, w)
<1>1. /\ Roomy(u, OutOf(G, asize(u))) /\ Items(u) \subseteq G /\ Functional(G) /\ G \subseteq Keys \X Values
      /\ HashOK(u)
  BY DEF Ready, Roomy
<1>2. p[1] \in Keys /\ p[2] \in Values /\ p = <<p[1], p[2]>> /\ p[2] # Empty /\ p[2] \in Cell
  BY <1>1, ValueFacts
<1>3. p[1] = <<p[1][1], p[1][2]>>
  BY <1>2, KeyFacts
<1>4. CASE InArray(u, p[1])
  <2> DEFINE i == p[1][2]
             v == p[2]
  <2>1. i \in 1..asize(u) /\ p[1] = <<"int", i>> /\ w = [u EXCEPT !.array[i] = v]
    BY <1>3, <1>4 DEF InArray, newcheckedkey
  <2> HIDE DEF i, v
  <2>2. u.array[i] = Empty
    <3>1. SUFFICES ASSUME u.array[i] # Empty PROVE FALSE
      OBVIOUS
    <3> DEFINE q == <<<<"int", i>>, u.array[i]>>
    <3>2. q \in Items(u)
      BY <2>1, <3>1 DEF Items, ArrayPairs, InArrayNow
    <3>3. q = p
      BY <1>1, <2>1, <3>2 DEF Functional
    <3> QED
      BY <3>2, <3>3
  <2>3. v \in Cell /\ v # Empty /\ p = <<<<"int", i>>, v>>
    BY <1>2, <2>1 DEF v
  <2>4. /\ HashOK(w) /\ Pairs(w) = Pairs(u) /\ SameFrame(u, w) /\ sizenode(w) = sizenode(u)
        /\ (FullNodes(w) <=> FullNodes(u)) /\ ArrayPairs(w) = ArrayPairs(u) \cup {p}
    BY <1>1, <2>1, <2>2, <2>3, ArrayPut
  <2>5. Items(w) = Items(u) \cup {p}
    BY <2>4 DEF Items
  <2>6. asize(w) = asize(u) /\ w.dummy = u.dummy
    BY <2>4 DEF SameFrame
  <2>7. Roomy(w, OutOf(G, asize(w)))
    BY <1>1, <2>4, <2>6 DEF Roomy
  <2>8. Items(w) \subseteq G
    BY <1>1, <2>5
  <2> QED
    BY <1>1, <2>4, <2>5, <2>7, <2>8 DEF Ready
<1>5. CASE ~InArray(u, p[1])
  <2>1. p \in OutOf(G, asize(u))
    BY <1>5 DEF OutOf, InArray
  <2>2. p \notin Pairs(u)
    BY DEF Items
  <2>3. HasRoom(u, p[1])
    BY <1>1, <2>1, <2>2, RoomLeft
  <2>4. w = insertkey(u, p[1], p[2])
    BY <1>5, <2>3 DEF newcheckedkey
  <2>5. /\ Roomy(w, OutOf(G, asize(u))) /\ Pairs(w) = Pairs(u) \cup {p} /\ Alike(u, w) /\ w.asserts = u.asserts
    BY <1>1, <2>1, <2>2, <2>4, Fill
  <2>6. SameFrame(u, w) /\ asize(w) = asize(u)
    BY <2>5 DEF SameFrame, Alike, asize
  <2>7. ArrayPairs(w) = ArrayPairs(u)
    BY <2>5, <2>6 DEF ArrayPairs, InArrayNow, Alike
  <2>8. Items(w) = Items(u) \cup {p}
    BY <2>5, <2>7 DEF Items
  <2>9. Items(w) \subseteq G
    BY <1>1, <2>8
  <2>10. Roomy(w, OutOf(G, asize(w)))
    BY <2>5, <2>6
  <2> QED
    BY <1>1, <2>6, <2>8, <2>9, <2>10 DEF Ready
<1> QED
  BY <1>4, <1>5

PairsBelow(u, j) == {<<u.node[n].key, u.node[n].val>> : n \in {m \in 0..(j - 1) : u.node[m].val # Empty}}

LEMMA HashMoves ==
  ASSUME NEW old, HashOK(old), NEW u, NEW G, Ready(u, G), Pairs(old) \subseteq G,
         Pairs(old) \cap Items(u) = {}, NEW w, w = reinserthash(old, u)
  PROVE  Ready(w, G) /\ Items(w) = Items(u) \cup Pairs(old) /\ SameFrame(u, w)
<1> DEFINE m == sizenode(old)
<1>1. m \in Nat /\ NodesOf(old) = 0..(m - 1)
  BY HashTyped
<1>2. PICK c : /\ \A j \in 0..m : c[j] = HashNext(old, u, c, j)
               /\ w = c[m]
  BY <1>1, HashRuns
<1>3. Unique(old)
  BY DEF HashOK, HashWith
<1> DEFINE Good(j) == Ready(c[j], G) /\ Items(c[j]) = Items(u) \cup PairsBelow(old, j) /\ SameFrame(u, c[j])
           Bad == {j \in Nat : j <= m /\ ~Good(j)}
<1>4. Good(0)
  <2>1. c[0] = u
    <3>1. c[0] = HashNext(old, u, c, 0)
      BY <1>1, <1>2
    <3> QED
      BY <3>1 DEF HashNext
  <2>2. PairsBelow(old, 0) = {}
    BY DEF PairsBelow
  <2>3. SameFrame(u, u)
    BY DEF SameFrame
  <2> QED
    BY <2>1, <2>2, <2>3
<1>5. ASSUME NEW j \in Nat, 0 < j, j <= m, Good(j - 1) PROVE Good(j)
  <2> DEFINE n == j - 1
             p == <<old.node[n].key, old.node[n].val>>
             d == c[j - 1]
             e == c[j]
  <2>0. n \in NodesOf(old) /\ 0..(j - 1) = (0..(j - 1 - 1)) \cup {n}
    BY <1>1, <1>5
  <2>1. e = IF old.node[n].val = Empty THEN d ELSE newcheckedkey(d, p[1], p[2])
    <3>1. e = HashNext(old, u, c, j)
      BY <1>1, <1>2, <1>5
    <3> QED
      BY <1>5, <3>1 DEF HashNext
  <2>2. Ready(d, G) /\ Items(d) = Items(u) \cup PairsBelow(old, j - 1) /\ SameFrame(u, d)
    BY <1>5
  <2> HIDE DEF n, d, e
  <2>3. PairsBelow(old, j) = IF old.node[n].val = Empty THEN PairsBelow(old, j - 1) ELSE PairsBelow(old, j - 1) \cup {p}
    <3> DEFINE S(b) == {i \in 0..(b - 1) : old.node[i].val # Empty}
    <3>1. S(j) = IF old.node[n].val = Empty THEN S(j - 1) ELSE S(j - 1) \cup {n}
      BY <2>0
    <3>2. /\ PairsBelow(old, j) = {<<old.node[i].key, old.node[i].val>> : i \in S(j)}
          /\ PairsBelow(old, j - 1) = {<<old.node[i].key, old.node[i].val>> : i \in S(j - 1)}
      BY DEF PairsBelow
    <3> HIDE DEF S
    <3>3. CASE old.node[n].val = Empty
      BY <3>1, <3>2, <3>3
    <3>4. CASE old.node[n].val # Empty
      BY <3>1, <3>2, <3>4
    <3> QED
      BY <3>3, <3>4
  <2>4. CASE old.node[n].val = Empty
    BY <2>1, <2>2, <2>3, <2>4 DEF d, e
  <2>5. CASE old.node[n].val # Empty
    <3>1. p \in Pairs(old) /\ old.node[n].key \in Keys
      BY <2>0, <2>5, UsedPairs
    <3>2. p \notin PairsBelow(old, j - 1)
      <4>1. SUFFICES ASSUME p \in PairsBelow(old, j - 1) PROVE FALSE
        OBVIOUS
      <4>2. PICK i \in 0..(j - 1 - 1) : p = <<old.node[i].key, old.node[i].val>>
        BY <4>1 DEF PairsBelow
      <4>3. i \in NodesOf(old) /\ i # n /\ old.node[i].key = old.node[n].key
        BY <1>1, <1>5, <4>2 DEF n
      <4> QED
        BY <1>3, <2>0, <3>1, <4>3 DEF Unique
    <3>3. p \in G /\ p \notin Items(d)
      BY <2>2, <3>1, <3>2
    <3>4. e = newcheckedkey(d, p[1], p[2])
      BY <2>1, <2>5
    <3> HIDE DEF p
    <3>5. Ready(e, G) /\ Items(e) = Items(d) \cup {p} /\ SameFrame(d, e)
      BY <2>2, <3>3, <3>4, Place
    <3>6. SameFrame(u, e)
      BY <2>2, <3>5 DEF SameFrame
    <3>7. Items(e) = Items(u) \cup PairsBelow(old, j)
      BY <2>2, <2>3, <2>5, <3>5
    <3> QED
      BY <3>5, <3>6, <3>7 DEF e
  <2> QED
    BY <2>4, <2>5
<1> HIDE DEF Good
<1>6. Good(m)
  <2>1. SUFFICES ASSUME ~Good(m) PROVE FALSE
    OBVIOUS
  <2>2. m \in Bad
    BY <1>1, <2>1
  <2>3. PICK b \in Bad : \A e \in Bad : b <= e
    BY <2>2, LeastNat
  <2>4. b # 0
    BY <1>4, <2>3
  <2>5. b - 1 \in Nat /\ b - 1 <= m /\ b - 1 \notin Bad /\ 0 < b /\ b <= m /\ b \in Nat
    BY <1>1, <2>3, <2>4
  <2> QED
    BY <1>5, <2>3, <2>5
<1>7. PairsBelow(old, m) = Pairs(old)
  BY <1>1 DEF PairsBelow, Pairs, Used
<1> QED
  BY <1>2, <1>6, <1>7 DEF Good

LEMMA ExchangeIs ==
  ASSUME NEW u \in TableRec, NEW h \in TableRec, NEW w, w = exchangehashpart(u, h)
  PROVE  /\ w \in TableRec /\ w.node = h.node /\ w.lsizenode = h.lsizenode /\ w.dummy = h.dummy
         /\ w.lastfree = h.lastfree /\ w.array = u.array /\ w.hint = u.hint /\ w.asserts = u.asserts
         /\ asize(w) = asize(u)
<1> DEFINE A == Seq(Cell)
           B == UNION {[S -> Node] : S \in SUBSET Nat}
           R == [array : A, hint : Nat, node : B, lsizenode : Nat, dummy : BOOLEAN, lastfree : Nat, asserts : BOOLEAN]
<1>1. u \in R /\ h \in R
  BY DEF TableRec
<1> HIDE DEF A, B
<1>2. /\ w \in R /\ w.node = h.node /\ w.lsizenode = h.lsizenode /\ w.dummy = h.dummy
      /\ w.lastfree = h.lastfree /\ w.array = u.array /\ w.hint = u.hint /\ w.asserts = u.asserts
  BY <1>1 DEF exchangehashpart
<1> QED
  BY <1>2 DEF A, B, TableRec, asize

LEMMA ResizeIs ==
  ASSUME NEW u \in TableRec, NEW na \in Nat, NEW w, w = resizearray(u, na)
  PROVE  /\ w \in TableRec /\ w.node = u.node /\ w.lsizenode = u.lsizenode /\ w.dummy = u.dummy
         /\ w.lastfree = u.lastfree /\ w.hint = na \div 2 /\ w.asserts = u.asserts /\ asize(w) = na
         /\ \A j \in 1..na : w.array[j] = IF j <= asize(u) THEN u.array[j] ELSE Empty
<1> DEFINE a == [j \in 1..na |-> IF j <= asize(u) THEN u.array[j] ELSE Empty]
           l == na \div 2
<1>1. asize(u) \in Nat /\ \A j \in 1..asize(u) : u.array[j] \in Cell
  BY ArrayFacts
<1>2. \A j \in 1..na : a[j] \in Cell /\ a[j] = IF j <= asize(u) THEN u.array[j] ELSE Empty
  BY <1>1 DEF Cell
<1>3. a \in [1..na -> Cell]
  BY <1>1 DEF Cell
<1>4. l \in Nat
  OBVIOUS
<1>5. w = [u EXCEPT !.array = a, !.hint = l]
  BY DEF resizearray
<1> HIDE DEF a, l
<1>6. a \in Seq(Cell) /\ Len(a) = na
  BY <1>3
<1> DEFINE A == Seq(Cell)
           B == UNION {[S -> Node] : S \in SUBSET Nat}
           R == [array : A, hint : Nat, node : B, lsizenode : Nat, dummy : BOOLEAN, lastfree : Nat, asserts : BOOLEAN]
<1>7. u \in R /\ a \in A
  BY <1>6 DEF TableRec
<1> HIDE DEF A, B
<1>8. /\ w \in R /\ w.node = u.node /\ w.lsizenode = u.lsizenode /\ w.dummy = u.dummy
      /\ w.lastfree = u.lastfree /\ w.array = a /\ w.hint = l /\ w.asserts = u.asserts
  BY <1>4, <1>5, <1>7
<1> QED
  BY <1>2, <1>6, <1>8 DEF A, B, TableRec, asize, l

LEMMA ItemFacts ==
  ASSUME NEW u, TableOK(u)
  PROVE  /\ Items(u) \subseteq Keys \X Values /\ Functional(Items(u))
         /\ ArrayPairs(u) \cap Pairs(u) = {}
<1>1. HashOK(u) /\ ArrayKeys(u) /\ Split(u)
  BY DEF TableOK
<1>2. u \in TableRec
  BY <1>1, HashTyped
<1>3. \A i \in 1..asize(u) : u.array[i] \in Cell
  BY <1>2, ArrayFacts
<1>4. Pairs(u) \subseteq Keys \X Values /\ Functional(Pairs(u))
  BY <1>1, UsedPairs
<1>5. ArrayPairs(u) \subseteq Keys \X Values
  BY <1>1, <1>3 DEF ArrayPairs, InArrayNow, ArrayKeys, Cell
<1>6. \A p \in ArrayPairs(u) : p[1][1] = "int" /\ p[1][2] \in 1..asize(u) /\ p[1] = <<"int", p[1][2]>>
                               /\ p = <<p[1], u.array[p[1][2]]>>
  BY DEF ArrayPairs, InArrayNow
<1>7. \A p \in Pairs(u) : ~(p[1][1] = "int" /\ p[1][2] \in 1..asize(u))
  <2> TAKE p \in Pairs(u)
  <2>1. PICK n \in NodesOf(u) : u.node[n].val # Empty /\ p = <<u.node[n].key, u.node[n].val>>
    BY <1>1, UsedPairs
  <2> QED
    BY <1>1, <2>1 DEF Split, InArray
<1>8. \A p, q \in ArrayPairs(u) : p[1] = q[1] => p = q
  <2> TAKE p \in ArrayPairs(u), q \in ArrayPairs(u)
  <2>1. p = <<p[1], u.array[p[1][2]]>> /\ q = <<q[1], u.array[q[1][2]]>>
    BY <1>6
  <2> QED
    BY <2>1
<1>9. Functional(Items(u))
  <2>1. SUFFICES ASSUME NEW p \in Items(u), NEW q \in Items(u), p[1] = q[1] PROVE p = q
    BY DEF Functional
  <2>2. p \in ArrayPairs(u) \/ p \in Pairs(u)
    BY DEF Items
  <2>3. q \in ArrayPairs(u) \/ q \in Pairs(u)
    BY DEF Items
  <2> QED
    BY <1>4, <1>6, <1>7, <1>8, <2>1, <2>2, <2>3 DEF Functional
<1>10. ArrayPairs(u) \cap Pairs(u) = {}
  BY <1>6, <1>7
<1> QED
  BY <1>4, <1>5, <1>9, <1>10 DEF Items

LEMMA ReadyOK ==
  ASSUME NEW u, NEW G, Ready(u, G), u.hint <= asize(u), u.asserts
  PROVE  TableOK(u)
<1>1. /\ HashOK(u) /\ Pairs(u) \subseteq OutOf(G, asize(u)) /\ Items(u) \subseteq G
      /\ G \subseteq Keys \X Values
  BY DEF Ready, Roomy
<1>2. ArrayKeys(u)
  <2>1. SUFFICES ASSUME NEW i \in 1..asize(u), u.array[i] # Empty PROVE <<"int", i>> \in Keys
    BY DEF ArrayKeys
  <2>2. <<<<"int", i>>, u.array[i]>> \in G
    BY <1>1, <2>1 DEF Items, ArrayPairs, InArrayNow
  <2> QED
    BY <1>1, <2>2
<1>3. Split(u)
  <2>1. SUFFICES ASSUME NEW n \in NodesOf(u), u.node[n].val # Empty PROVE ~InArray(u, u.node[n].key)
    BY DEF Split
  <2>2. <<u.node[n].key, u.node[n].val>> \in OutOf(G, asize(u))
    BY <1>1, <2>1, UsedPairs
  <2> QED
    BY <2>2 DEF OutOf, InArray
<1> QED
  BY <1>1, <1>2, <1>3 DEF TableOK

(* The old part is put away, the array shrunk and then grown.              *)
Fits(u, na, nh, G) ==
  /\ TableOK(u) /\ na \in Nat /\ nh \in Nat
  /\ Items(u) \subseteq G /\ G \subseteq Keys \X Values /\ Functional(G)
  /\ IsFiniteSet(OutOf(G, na)) /\ Cardinality(OutOf(G, na)) <= nh

LEMMA Shrinks ==
  ASSUME NEW u, NEW na, NEW nh, NEW G, Fits(u, na, nh, G),
         NEW s, s = reinsertOldSlice(exchangehashpart(u, setnodevector(nh)), na)
  PROVE  /\ Roomy(s, OutOf(G, na)) /\ Pairs(s) = Slice(u, na, asize(u))
         /\ s \in TableRec /\ s.array = u.array /\ s.hint = u.hint /\ s.asserts = u.asserts
<1>1. /\ TableOK(u) /\ na \in Nat /\ nh \in Nat
      /\ Items(u) \subseteq G /\ G \subseteq Keys \X Values /\ Functional(G)
      /\ IsFiniteSet(OutOf(G, na)) /\ Cardinality(OutOf(G, na)) <= nh /\ HashOK(u)
  BY DEF Fits, TableOK
<1>2. u \in TableRec
  BY <1>1, HashTyped
<1>2a. asize(u) \in Nat
  BY <1>2, ArrayFacts
<1> DEFINE h == setnodevector(nh)
           e == exchangehashpart(u, h)
           F == OutOf(G, na)
<1>3. /\ h \in TableRec /\ HashOK(h) /\ Pairs(h) = {} /\ sizenode(h) >= nh
      /\ nh > 0 => ~h.dummy /\ FullNodes(h)
  BY <1>1, NewNodes
<1> HIDE DEF h
<1>4. /\ e \in TableRec /\ e.node = h.node /\ e.lsizenode = h.lsizenode /\ e.dummy = h.dummy
      /\ e.lastfree = h.lastfree /\ e.array = u.array /\ e.hint = u.hint /\ e.asserts = u.asserts
      /\ asize(e) = asize(u)
  BY <1>2, <1>3, ExchangeIs
<1>5. s = reinsertOldSlice(e, na)
  BY DEF h
<1> HIDE DEF e, F
<1>6. HashOK(e) /\ sizenode(e) = sizenode(h) /\ Pairs(e) = Pairs(h) /\ (FullNodes(e) <=> FullNodes(h))
  BY <1>3, <1>4, HashTransfer
<1>7. F \subseteq Keys \X Values /\ Functional(F)
  BY <1>1 DEF F, OutOf, Functional
<1>8. sizenode(e) \in Nat
  BY <1>6, HashTyped
<1>9. IsFiniteSet(F) /\ Cardinality(F) <= nh /\ Cardinality(F) \in Nat
  <2>1. IsFiniteSet(F) /\ Cardinality(F) <= nh
    BY <1>1 DEF F
  <2> QED
    BY <2>1, FS_CardinalityType
<1>10. F # {} => nh > 0
  <2>1. Cardinality(F) = 0 <=> F = {}
    BY <1>9, FS_EmptySet
  <2> QED
    BY <1>1, <1>9, <2>1
<1>11. Cardinality(F) <= sizenode(e)
  BY <1>1, <1>3, <1>6, <1>8, <1>9
<1>12. Roomy(e, F)
  BY <1>3, <1>4, <1>6, <1>7, <1>9, <1>10, <1>11 DEF Roomy
<1>13. Slice(e, na, asize(e)) = Slice(u, na, asize(u))
  BY <1>4 DEF Slice
<1>14. Slice(e, na, asize(e)) \subseteq F
  <2>1. SUFFICES ASSUME NEW p \in Slice(u, na, asize(u)) PROVE p \in F
    BY <1>13
  <2>2. PICK i \in (na + 1)..asize(u) : u.array[i] # Empty /\ p = <<<<"int", i>>, u.array[i]>>
    BY DEF Slice
  <2>3. i \in 1..asize(u) /\ i \notin 1..na
    BY <1>1, <1>2a, <2>2
  <2>4. p \in G
    BY <1>1, <2>2, <2>3 DEF Items, ArrayPairs, InArrayNow
  <2> QED
    BY <2>2, <2>3, <2>4 DEF F, OutOf
<1>15. /\ Roomy(s, F) /\ Pairs(s) = Slice(e, na, asize(e)) /\ Alike(e, s) /\ s.asserts = e.asserts
  BY <1>1, <1>3, <1>5, <1>6, <1>12, <1>14, SliceMoves
<1> QED
  BY <1>4, <1>13, <1>15 DEF Alike, F

LEMMA ResizeMoves ==
  ASSUME NEW u, NEW na, NEW nh, NEW G, Fits(u, na, nh, G), NEW fail, ~Fails(u, na, nh, fail),
         NEW w, w = luaH_resize(u, na, nh, fail)
  PROVE  Ready(w, G) /\ Items(w) = Items(u) /\ asize(w) = na /\ TableOK(w)
<1>1. /\ TableOK(u) /\ na \in Nat /\ nh \in Nat
      /\ Items(u) \subseteq G /\ G \subseteq Keys \X Values /\ Functional(G)
      /\ IsFiniteSet(OutOf(G, na)) /\ Cardinality(OutOf(G, na)) <= nh /\ HashOK(u) /\ u.asserts
  BY DEF Fits, TableOK
<1> DEFINE s == reinsertOldSlice(exchangehashpart(u, setnodevector(nh)), na)
           r == resizearray(s, na)
           F == OutOf(G, na)
<1>2. w = reinserthash(u, r)
  BY DEF luaH_resize, Fails
<1>3. /\ Roomy(s, F) /\ Pairs(s) = Slice(u, na, asize(u))
      /\ s \in TableRec /\ s.array = u.array /\ s.hint = u.hint /\ s.asserts = u.asserts
  BY Shrinks
<1> HIDE DEF s
<1>4. u \in TableRec /\ asize(u) \in Nat /\ asize(s) = asize(u)
  BY <1>1, <1>3, HashTyped, ArrayFacts DEF asize
<1>5. /\ r \in TableRec /\ r.node = s.node /\ r.lsizenode = s.lsizenode /\ r.dummy = s.dummy
      /\ r.lastfree = s.lastfree /\ r.hint = na \div 2 /\ r.asserts = s.asserts /\ asize(r) = na
      /\ \A j \in 1..na : r.array[j] = IF j <= asize(s) THEN s.array[j] ELSE Empty
  BY <1>1, <1>3, ResizeIs
<1> HIDE DEF r
<1>6. HashOK(r) /\ sizenode(r) = sizenode(s) /\ Pairs(r) = Pairs(s) /\ (FullNodes(r) <=> FullNodes(s))
  BY <1>3, <1>5, HashTransfer DEF Roomy
<1>7. Roomy(r, F)
  BY <1>3, <1>5, <1>6 DEF Roomy
<1>8. Items(r) = ArrayPairs(u)
  <2>1. InArrayNow(r) = {j \in 1..na : j <= asize(u) /\ u.array[j] # Empty}
    BY <1>3, <1>4, <1>5 DEF InArrayNow
  <2>2. \A j \in InArrayNow(r) : r.array[j] = u.array[j]
    BY <1>3, <1>4, <1>5, <2>1
  <2>3. ArrayPairs(r) = {<<<<"int", j>>, u.array[j]>> : j \in InArrayNow(r)}
    BY <2>2 DEF ArrayPairs
  <2>4. InArrayNow(r) \cup {j \in (na + 1)..asize(u) : u.array[j] # Empty} = InArrayNow(u)
    BY <1>1, <1>4, <2>1 DEF InArrayNow
  <2>5. Pairs(r) = {<<<<"int", j>>, u.array[j]>> : j \in {i \in (na + 1)..asize(u) : u.array[i] # Empty}}
    BY <1>3, <1>6 DEF Slice
  <2> QED
    BY <2>3, <2>4, <2>5 DEF Items, ArrayPairs
<1>9. Ready(r, G)
  BY <1>1, <1>5, <1>7, <1>8 DEF Ready, F, Items
<1>10. Pairs(u) \subseteq G /\ Pairs(u) \cap Items(r) = {}
  BY <1>1, <1>8, ItemFacts DEF Items
<1>11. Ready(w, G) /\ Items(w) = Items(r) \cup Pairs(u) /\ SameFrame(r, w)
  BY <1>1, <1>2, <1>9, <1>10, HashMoves
<1>12. asize(w) = na /\ w.hint = na \div 2 /\ w.asserts
  BY <1>1, <1>3, <1>5, <1>11 DEF SameFrame
<1>13. w.hint <= asize(w)
  BY <1>1, <1>12
<1>14. Items(w) = Items(u)
  BY <1>8, <1>11 DEF Items
<1> QED
  BY <1>11, <1>12, <1>13, <1>14, ReadyOK

LEMMA ResizeFails ==
  ASSUME NEW u, NEW na, NEW nh, NEW G, Fits(u, na, nh, G), NEW fail, Fails(u, na, nh, fail),
         NEW w, w = luaH_resize(u, na, nh, fail)
  PROVE  Items(w) = Items(u) /\ TableOK(w)
<1>1. TableOK(u) /\ HashOK(u)
  BY DEF Fits, TableOK
<1>2. u \in TableRec
  BY <1>1, HashTyped
<1>3. CASE fail = "hash" /\ nh > 0
  BY <1>1, <1>3 DEF luaH_resize
<1>4. CASE ~(fail = "hash" /\ nh > 0)
  <2> DEFINE s == reinsertOldSlice(exchangehashpart(u, setnodevector(nh)), na)
  <2>1. w = exchangehashpart(s, u)
    BY <1>4 DEF luaH_resize, Fails
  <2>2. s \in TableRec /\ s.array = u.array /\ s.hint = u.hint /\ s.asserts = u.asserts
    BY Shrinks
  <2> HIDE DEF s
  <2>3. /\ w \in TableRec /\ w.node = u.node /\ w.lsizenode = u.lsizenode /\ w.dummy = u.dummy
        /\ w.lastfree = u.lastfree /\ w.array = u.array /\ w.hint = u.hint /\ w.asserts = u.asserts
        /\ asize(w) = asize(u)
    BY <1>2, <2>1, <2>2, ExchangeIs DEF asize
  <2>4. HashOK(w) /\ NodesOf(w) = NodesOf(u) /\ Pairs(w) = Pairs(u)
    BY <1>1, <2>3, HashTransfer
  <2>5. Items(w) = Items(u)
    BY <2>3, <2>4 DEF Items, ArrayPairs, InArrayNow
  <2>6. TableOK(w)
    BY <1>1, <2>3, <2>4 DEF TableOK, ArrayKeys, Split, InArray
  <2> QED
    BY <2>5, <2>6
<1> QED
  BY <1>3, <1>4

LEMMA SurjectionBound ==
  ASSUME NEW S, NEW T, IsFiniteSet(S), NEW f \in [S -> T], \A y \in T : \E x \in S : f[x] = y
  PROVE  IsFiniteSet(T) /\ Cardinality(T) <= Cardinality(S)
<1>1. f \in Surjection(S, T)
  BY DEF Surjection
<1> QED
  BY <1>1, FS_Surjection

LEMMA Sizes ==
  ASSUME NEW S, IsFiniteSet(S)
  PROVE  Cardinality(S) \in Nat
  BY FS_CardinalityType

(* How many fields there are.                                              *)
LEMMA ItemCount ==
  ASSUME NEW u, TableOK(u)
  PROVE  /\ IsFiniteSet(Used(u)) /\ IsFiniteSet(InArrayNow(u)) /\ IsFiniteSet(Items(u))
         /\ Cardinality(Items(u)) <= Cardinality(Used(u)) + Cardinality(InArrayNow(u))
<1>1. HashOK(u) /\ u \in TableRec /\ asize(u) \in Nat /\ u.lsizenode \in Nat
  <2>1. HashOK(u)
    BY DEF TableOK
  <2> QED
    BY <2>1, HashTyped, ArrayFacts
<1>2. IsFiniteSet(Used(u))
  <2>1. IsFiniteSet(NodesOf(u)) /\ Used(u) \in SUBSET NodesOf(u)
    BY <1>1, Places DEF Used
  <2> QED
    BY <2>1, FS_Subset
<1>3. IsFiniteSet(InArrayNow(u))
  <2>1. IsFiniteSet(1..asize(u)) /\ InArrayNow(u) \in SUBSET (1..asize(u))
    BY <1>1, FS_Interval DEF InArrayNow
  <2> QED
    BY <2>1, FS_Subset
<1>4. IsFiniteSet(Pairs(u)) /\ Cardinality(Pairs(u)) <= Cardinality(Used(u))
  <2> DEFINE f == [n \in Used(u) |-> <<u.node[n].key, u.node[n].val>>]
  <2>1. f \in [Used(u) -> Pairs(u)] /\ \A y \in Pairs(u) : \E n \in Used(u) : f[n] = y
    BY DEF Pairs
  <2> HIDE DEF f
  <2> QED
    BY <1>2, <2>1, SurjectionBound
<1>5. IsFiniteSet(ArrayPairs(u)) /\ Cardinality(ArrayPairs(u)) <= Cardinality(InArrayNow(u))
  <2> DEFINE f == [i \in InArrayNow(u) |-> <<<<"int", i>>, u.array[i]>>]
  <2>1. f \in [InArrayNow(u) -> ArrayPairs(u)] /\ \A y \in ArrayPairs(u) : \E i \in InArrayNow(u) : f[i] = y
    BY DEF ArrayPairs
  <2> HIDE DEF f
  <2> QED
    BY <1>3, <2>1, SurjectionBound
<1>6. IsFiniteSet(ArrayPairs(u) \cap Pairs(u))
  <2>1. ArrayPairs(u) \cap Pairs(u) \in SUBSET Pairs(u)
    OBVIOUS
  <2> QED
    BY <1>4, <2>1, FS_Subset
<1>7. /\ IsFiniteSet(Items(u))
      /\ Cardinality(Items(u)) = Cardinality(ArrayPairs(u)) + Cardinality(Pairs(u)) - Cardinality(ArrayPairs(u) \cap Pairs(u))
  BY <1>4, <1>5, FS_Union DEF Items
<1>8. /\ Cardinality(ArrayPairs(u)) \in Nat /\ Cardinality(Pairs(u)) \in Nat /\ Cardinality(Items(u)) \in Nat
      /\ Cardinality(ArrayPairs(u) \cap Pairs(u)) \in Nat /\ Cardinality(Used(u)) \in Nat /\ Cardinality(InArrayNow(u)) \in Nat
  BY <1>2, <1>3, <1>4, <1>5, <1>6, <1>7, Sizes
<1>9. Cardinality(Items(u)) <= Cardinality(Used(u)) + Cardinality(InArrayNow(u))
  BY <1>4, <1>5, <1>7, <1>8
<1> QED
  BY <1>2, <1>3, <1>7, <1>9

LEMMA SizesNat ==
  ASSUME NEW all, IsFiniteSet(all)
  PROVE  computesizes(all) \in Nat
<1> DEFINE c == 3 * Cardinality(all)
           Within(n) == Cardinality({i \in all : i <= n})
           Worth(l) == /\ twoto[l] <= 3 * Within(twoto[l])
                       /\ Within(twoto[l]) > IF l = 0 THEN 0 ELSE Within(twoto[l - 1])
           best == {l \in 0..c : twoto[l] <= c /\ Worth(l)}
<1>1. c \in Nat
  BY Sizes
<1>2. computesizes(all) = IF best = {} THEN 0 ELSE twoto[Largest(best)]
  BY DEF computesizes
<1> HIDE DEF Worth, c
<1>3. best \in SUBSET Nat /\ \A l \in best : l <= c
  BY <1>1
<1> HIDE DEF best
<1>4. best # {} => Largest(best) \in best
  BY <1>1, <1>3, LargestNat
<1>5. best # {} => twoto[Largest(best)] \in Nat
  BY <1>3, <1>4, TwoTo
<1> QED
  BY <1>2, <1>5

(* The sizes a rehash computes are enough.                                 *)
LEMMA RehashFits ==
  ASSUME NEW u, TableOK(u), NEW k \in Keys, NEW v \in Values, \A p \in Items(u) : p[1] # k,
         NEW G, G = Items(u) \cup {<<k, v>>}
  PROVE  Fits(u, rehashSizes(u, k)[1], rehashSizes(u, k)[2], G)
<1> DEFINE positive == {i \in InHash(u, k) : i > 0}
           now == InArrayNow(u)
           all == positive \cup now
           na == IF positive = {} THEN asize(u) ELSE computesizes(all)
           inside == {i \in all : i <= na}
           n0 == Cardinality(Used(u)) + 1 + (IF positive = {} THEN 0 ELSE Cardinality(now) - Cardinality(inside))
           nh == IF Deleted(u) THEN n0 + n0 \div 4 ELSE n0
           P == {p \in G : p[1][1] = "int" /\ p[1][2] \in 1..na}
<1>1. rehashSizes(u, k)[1] = na /\ rehashSizes(u, k)[2] = nh
  BY DEF rehashSizes
<1>2. HashOK(u) /\ u \in TableRec /\ asize(u) \in Nat /\ ArrayKeys(u)
  <2>1. HashOK(u) /\ ArrayKeys(u)
    BY DEF TableOK
  <2> QED
    BY <2>1, HashTyped, ArrayFacts
<1>3. /\ IsFiniteSet(Used(u)) /\ IsFiniteSet(now) /\ IsFiniteSet(Items(u))
      /\ Cardinality(Items(u)) <= Cardinality(Used(u)) + Cardinality(now)
  BY ItemCount
<1>4. G \subseteq Keys \X Values /\ Functional(G)
  <2>1. Items(u) \subseteq Keys \X Values /\ Functional(Items(u))
    BY ItemFacts
  <2> QED
    BY <2>1 DEF Functional
<1>5. IsFiniteSet(InHash(u, k))
  <2> DEFINE U == {m \in NodesOf(u) : u.node[m].val # Empty /\ u.node[m].key[1] = "int"}
             V == {u.node[n].key[2] : n \in U}
             f == [n \in U |-> u.node[n].key[2]]
  <2>1. IsFiniteSet(U)
    <3>1. U \in SUBSET Used(u)
      BY DEF Used
    <3> QED
      BY <1>3, <3>1, FS_Subset
  <2>2. f \in [U -> V] /\ \A y \in V : \E n \in U : f[n] = y
    OBVIOUS
  <2>3. InHash(u, k) = V \cup (IF k[1] = "int" THEN {k[2]} ELSE {})
    BY DEF InHash
  <2> HIDE DEF f, U, V
  <2>4. IsFiniteSet(V)
    BY <2>1, <2>2, SurjectionBound
  <2>5. IsFiniteSet(V \cup {k[2]})
    BY <2>4, FS_AddElement
  <2> QED
    BY <2>3, <2>4, <2>5
<1>6. \A i \in InHash(u, k) \cup now : \E p \in G : p[1] = <<"int", i>>
  <2> TAKE i \in InHash(u, k) \cup now
  <2>1. CASE i \in now
    <3>1. <<<<"int", i>>, u.array[i]>> \in G
      BY <2>1 DEF Items, ArrayPairs
    <3> QED
      BY <3>1
  <2>2. CASE i \in InHash(u, k) /\ k[1] = "int" /\ i = k[2]
    <3>1. k = <<"int", i>> /\ <<k, v>> \in G
      BY <2>2, KeyFacts
    <3> QED
      BY <3>1
  <2>3. CASE i \in InHash(u, k) /\ ~(k[1] = "int" /\ i = k[2])
    <3>1. PICK n \in NodesOf(u) : u.node[n].val # Empty /\ u.node[n].key[1] = "int" /\ i = u.node[n].key[2]
      BY <2>3 DEF InHash
    <3>2. <<u.node[n].key, u.node[n].val>> \in G /\ u.node[n].key \in Keys
      BY <1>2, <3>1, UsedPairs DEF Items
    <3>3. u.node[n].key = <<"int", i>>
      BY <3>1, <3>2, KeyFacts
    <3> QED
      BY <3>2, <3>3
  <2> QED
    BY <2>1, <2>2, <2>3
<1>7. \A i \in InHash(u, k) : i \in Int
  <2> TAKE i \in InHash(u, k)
  <2>1. PICK p \in G : p[1] = <<"int", i>>
    BY <1>6
  <2>2. p[1] \in Keys
    BY <1>4, <2>1
  <2> QED
    BY <2>1, <2>2, KeysAssumption
<1>8. IsFiniteSet(positive) /\ IsFiniteSet(all)
  <2>1. positive \in SUBSET InHash(u, k)
    OBVIOUS
  <2>2. IsFiniteSet(positive)
    BY <1>5, <2>1, FS_Subset
  <2> HIDE DEF positive
  <2> QED
    BY <1>3, <2>2, FS_Union
<1>9. \A i \in all : i \in Nat /\ i > 0 /\ \E p \in G : p[1] = <<"int", i>>
  BY <1>2, <1>6, <1>7 DEF InArrayNow
<1>10. positive = {} => inside = now /\ na = asize(u)
  BY <1>2 DEF InArrayNow
<1> HIDE DEF positive
<1> HIDE DEF all
<1>11. na \in Nat
  BY <1>2, <1>8, SizesNat
<1> HIDE DEF na
<1>12. IsFiniteSet(inside)
  <2>1. inside \in SUBSET all
    OBVIOUS
  <2> QED
    BY <1>8, <2>1, FS_Subset
<1>13. IsFiniteSet(G) /\ Cardinality(G) <= Cardinality(Used(u)) + Cardinality(now) + 1
  <2>1. IsFiniteSet(G) /\ Cardinality(G) = IF <<k, v>> \in Items(u) THEN Cardinality(Items(u)) ELSE Cardinality(Items(u)) + 1
    BY <1>3, FS_AddElement
  <2>2. Cardinality(Items(u)) \in Nat /\ Cardinality(Used(u)) \in Nat /\ Cardinality(now) \in Nat
    BY <1>3, Sizes
  <2> QED
    BY <1>3, <2>1, <2>2
<1>14. IsFiniteSet(P) /\ Cardinality(inside) <= Cardinality(P)
  <2>1. P \in SUBSET G
    OBVIOUS
  <2>2. IsFiniteSet(P)
    BY <1>13, <2>1, FS_Subset
  <2> DEFINE f == [i \in inside |-> CHOOSE p \in G : p[1] = <<"int", i>>]
  <2>3. \A i \in inside : f[i] \in G /\ f[i][1] = <<"int", i>>
    BY <1>9
  <2>4. f \in [inside -> P]
    <3>1. \A i \in inside : i \in 1..na
      BY <1>9, <1>11
    <3>4. \A i \in 1..na : \A p \in G : p[1] = <<"int", i>> => p \in P
      OBVIOUS
    <3>2. \A i \in inside : f[i] \in P
      <4> HIDE DEF f, P, inside
      <4> QED
        BY <2>3, <3>1, <3>4
    <3>3. f = [i \in inside |-> f[i]]
      OBVIOUS
    <3> HIDE DEF f, P, inside
    <3> QED
      BY <3>2, <3>3
  <2>5. \A i, j \in inside : f[i] = f[j] => i = j
    BY <2>3
  <2> HIDE DEF f, P, inside
  <2> QED
    BY <2>2, <2>4, <2>5, InjectionBound
<1>15. IsFiniteSet(OutOf(G, na)) /\ Cardinality(G) = Cardinality(P) + Cardinality(OutOf(G, na))
  <2>1. OutOf(G, na) \in SUBSET G /\ P \cup OutOf(G, na) = G /\ P \cap OutOf(G, na) = {}
    BY DEF OutOf
  <2>2. IsFiniteSet(OutOf(G, na))
    BY <1>13, <2>1, FS_Subset
  <2> HIDE DEF P
  <2>3. Cardinality(G) = Cardinality(P) + Cardinality(OutOf(G, na)) - Cardinality({})
    BY <1>14, <2>1, <2>2, FS_Union
  <2>4. Cardinality(P) \in Nat /\ Cardinality(OutOf(G, na)) \in Nat
    BY <1>14, <2>2, Sizes
  <2> QED
    BY <2>2, <2>3, <2>4, FS_EmptySet
<1>16. nh \in Nat /\ Cardinality(OutOf(G, na)) <= nh
  <2>1. /\ Cardinality(Used(u)) \in Nat /\ Cardinality(now) \in Nat /\ Cardinality(inside) \in Nat
        /\ Cardinality(P) \in Nat /\ Cardinality(OutOf(G, na)) \in Nat /\ Cardinality(G) \in Nat
    BY <1>3, <1>12, <1>13, <1>14, <1>15, Sizes
  <2>2. n0 = Cardinality(Used(u)) + 1 + Cardinality(now) - Cardinality(inside)
    <3>0. n0 = Cardinality(Used(u)) + 1 + (IF positive = {} THEN 0 ELSE Cardinality(now) - Cardinality(inside))
      OBVIOUS
    <3>1. CASE positive = {}
      <4>1. inside = now
        BY <1>10, <3>1
      <4> HIDE DEF n0, P, inside, now
      <4> QED
        BY <2>1, <3>0, <3>1, <4>1
    <3>2. CASE positive # {}
      <4> HIDE DEF n0, P, inside, now
      <4> QED
        BY <2>1, <3>0, <3>2
    <3> QED
      BY <3>1, <3>2
  <2> HIDE DEF n0, P, inside
  <2>3. n0 \in Nat /\ Cardinality(OutOf(G, na)) <= n0
    BY <1>13, <1>14, <1>15, <2>1, <2>2
  <2> QED
    BY <2>1, <2>3
<1> QED
  BY <1>1, <1>4, <1>11, <1>15, <1>16 DEF Fits

----------------------------------------------------------------------------
(* Reading a field.                                                        *)

LEMMA KeyNormal ==
  ASSUME NEW k \in Keys
  PROVE  Normal(k) = k /\ k[1] \notin {"nil", "nan"} /\ k[1] \in {"int", "str", "flt"} /\ k = <<k[1], k[2]>>
BY KeysAssumption

LEMMA GetIs ==
  ASSUME NEW u, TableOK(u), NEW k \in Keys
  PROVE  \/ luaH_get(u, k) = Empty /\ \A p \in Items(u) : p[1] # k
         \/ luaH_get(u, k) \in Values /\ <<k, luaH_get(u, k)>> \in Items(u)
<1> DEFINE g == getgeneric(u, k, FALSE)
<1>1. /\ HashOK(u) /\ ArrayKeys(u) /\ Split(u) /\ Functional(Items(u)) /\ Items(u) \subseteq Keys \X Values
  BY ItemFacts DEF TableOK
<1>2. k[1] \notin {"nil", "nan"} /\ Normal(k) = k /\ k = <<k[1], k[2]>>
  BY KeyNormal
<1>3. luaH_get(u, k) = IF InArray(u, k) THEN u.array[k[2]] ELSE ValueAt(u, g)
  BY <1>2 DEF luaH_get
<1> HIDE DEF g
<1>4. \A p \in Pairs(u) : ~InArray(u, p[1])
  <2> TAKE p \in Pairs(u)
  <2>1. PICK n \in NodesOf(u) : u.node[n].val # Empty /\ p = <<u.node[n].key, u.node[n].val>>
    BY <1>1, UsedPairs
  <2> QED
    BY <1>1, <2>1 DEF Split
<1>5. \A p \in ArrayPairs(u) : p[1][1] = "int" /\ p[1][2] \in InArrayNow(u) /\ InArray(u, p[1])
  BY DEF ArrayPairs, InArrayNow, InArray
<1>6. CASE InArray(u, k)
  <2> DEFINE i == k[2]
  <2>1. i \in 1..asize(u) /\ k = <<"int", i>> /\ luaH_get(u, k) = u.array[i]
    BY <1>2, <1>3, <1>6 DEF InArray
  <2>2. CASE u.array[i] = Empty
    <3>1. ASSUME NEW p \in Items(u), p[1] = k PROVE FALSE
      <4>1. p \in ArrayPairs(u)
        BY <1>4, <1>6, <3>1 DEF Items
      <4> QED
        BY <1>5, <2>2, <3>1, <4>1 DEF InArrayNow
    <3> QED
      BY <2>1, <2>2, <3>1
  <2>3. CASE u.array[i] # Empty
    <3>1. <<k, u.array[i]>> \in Items(u)
      BY <2>1, <2>3 DEF Items, ArrayPairs, InArrayNow
    <3>2. u.array[i] \in Values
      BY <1>1, <3>1
    <3> QED
      BY <2>1, <3>1, <3>2
  <2> QED
    BY <2>2, <2>3
<1>7. CASE ~InArray(u, k) /\ g = Absent
  <2>1. \A n \in NodesOf(u) : u.node[n].key # k
    BY <1>1, <1>7, FoundHasKey DEF g
  <2>2. ASSUME NEW p \in Items(u), p[1] = k PROVE FALSE
    <3>1. p \in Pairs(u)
      BY <1>5, <1>7, <2>2 DEF Items
    <3>2. PICK n \in NodesOf(u) : u.node[n].val # Empty /\ p = <<u.node[n].key, u.node[n].val>>
      BY <1>1, <3>1, UsedPairs
    <3> QED
      BY <2>1, <2>2, <3>2
  <2> QED
    BY <1>3, <1>7, <2>2 DEF ValueAt
<1>8. CASE ~InArray(u, k) /\ g # Absent
  <2>1. g \in NodesOf(u) /\ u.node[g].key = k
    BY <1>1, <1>8, FoundHasKey DEF g
  <2>2. luaH_get(u, k) = u.node[g].val
    BY <1>3, <1>8 DEF ValueAt
  <2>3. CASE u.node[g].val = Empty
    <3>1. ASSUME NEW p \in Items(u), p[1] = k PROVE FALSE
      <4>1. p \in Pairs(u)
        BY <1>5, <1>8, <3>1 DEF Items
      <4>2. PICK n \in NodesOf(u) : u.node[n].val # Empty /\ p = <<u.node[n].key, u.node[n].val>>
        BY <1>1, <4>1, UsedPairs
      <4>3. u.node[n].key = k
        BY <3>1, <4>2
      <4>4. n = g
        BY <1>1, <2>1, <4>3 DEF HashOK, HashWith, Unique
      <4> QED
        BY <2>3, <4>2, <4>4
    <3> QED
      BY <2>2, <2>3, <3>1
  <2>4. CASE u.node[g].val # Empty
    <3>1. <<k, u.node[g].val>> \in Items(u) /\ u.node[g].val \in Values
      BY <1>1, <2>1, <2>4, UsedPairs DEF Items
    <3> QED
      BY <2>2, <3>1
  <2> QED
    BY <2>3, <2>4
<1> QED
  BY <1>6, <1>7, <1>8

(* What a program reads depends on the fields alone.                       *)
LEMMA GetSame ==
  ASSUME NEW u, TableOK(u), NEW w, TableOK(w), NEW k \in Keys,
         \A v : <<k, v>> \in Items(u) <=> <<k, v>> \in Items(w)
  PROVE  luaH_get(u, k) = luaH_get(w, k)
<1>1. Functional(Items(u)) /\ Functional(Items(w)) /\ Items(u) \subseteq Keys \X Values /\ Items(w) \subseteq Keys \X Values
  BY ItemFacts
<1> DEFINE a == luaH_get(u, k)
           b == luaH_get(w, k)
<1>2. (a = Empty /\ \A p \in Items(u) : p[1] # k) \/ <<k, a>> \in Items(u)
  BY GetIs
<1>3. (b = Empty /\ \A p \in Items(w) : p[1] # k) \/ <<k, b>> \in Items(w)
  BY GetIs
<1> HIDE DEF a, b
<1>4. CASE <<k, a>> \in Items(u)
  <2>1. <<k, a>> \in Items(w)
    BY <1>4
  <2>2. <<k, a>>[1] = k /\ <<k, b>>[1] = k
    OBVIOUS
  <2>3. <<k, b>> \in Items(w)
    BY <1>3, <2>1, <2>2
  <2>4. <<k, a>> = <<k, b>>
    BY <1>1, <2>1, <2>2, <2>3 DEF Functional
  <2> QED
    BY <2>4 DEF a, b
<1>5. CASE a = Empty /\ (\A p \in Items(u) : p[1] # k)
  <2>1. <<k, b>> \notin Items(w)
    <3>1. SUFFICES ASSUME <<k, b>> \in Items(w) PROVE FALSE
      OBVIOUS
    <3>2. <<k, b>> \in Items(u) /\ <<k, b>>[1] = k
      BY <3>1
    <3> QED
      BY <1>5, <3>2
  <2>2. b = Empty
    BY <1>3, <2>1
  <2> QED
    BY <1>5, <2>2 DEF a, b
<1> QED
  BY <1>2, <1>4, <1>5

----------------------------------------------------------------------------
(* Steps that leave the keys where they are.                               *)

Revalued(u, w) ==
  /\ Alike(u, w) /\ w.lastfree = u.lastfree
  /\ u.dummy => w.node = u.node
  /\ \A n \in NodesOf(u) :
       /\ w.node[n].next = u.node[n].next
       /\ w.node[n].key \in Keys \cup Unkeyed => w.node[n].key = u.node[n].key
       /\ u.node[n].key \in Unkeyed => w.node[n].key = u.node[n].key
       /\ Original(w.node[n].key) = Original(u.node[n].key)
       /\ w.node[n].key \notin Keys => w.node[n].val = Empty

LEMMA RevaluedOK ==
  ASSUME NEW u, NEW pos, HashWith(u, pos), NEW w, Revalued(u, w)
  PROVE  HashWith(w, pos)
<1>1. /\ Alike(u, w) /\ w.lastfree = u.lastfree /\ (u.dummy => w.node = u.node)
      /\ \A n \in NodesOf(u) :
           /\ w.node[n].next = u.node[n].next
           /\ w.node[n].key \in Keys \cup Unkeyed => w.node[n].key = u.node[n].key
           /\ u.node[n].key \in Unkeyed => w.node[n].key = u.node[n].key
           /\ Original(w.node[n].key) = Original(u.node[n].key)
           /\ w.node[n].key \notin Keys => w.node[n].val = Empty
  BY DEF Revalued
<1>2. /\ Shaped(u) /\ Plain(u) /\ Unique(u) /\ DummyOK(u) /\ FreesBelow(u) /\ DeadLast(u, pos)
      /\ Chains(NodesOf(u), Keyed(u), Nexts(u), Homes(u), pos)
  BY DEF HashWith
<1>3. /\ \A k : mainposition(w, k) = mainposition(u, k)
      /\ NodesOf(w) = NodesOf(u) /\ haslastfree(w) = haslastfree(u)
  BY <1>1, AlikePlaces
<1>4. \A n \in NodesOf(u) : u.node[n].key \in Keys \cup DeadKeys \cup Unkeyed
  BY HashParts
<1>5. Keyed(w) = Keyed(u)
  BY <1>1, <1>3 DEF Keyed
<1>6. Nexts(w) = Nexts(u)
  BY <1>1, <1>3 DEF Nexts
<1>7. Homes(w) = Homes(u)
  <2>1. \A n \in NodesOf(u) : Home(w, n) = Home(u, n)
    BY <1>1, <1>3 DEF Home
  <2>2. Keyed(u) \subseteq NodesOf(u)
    BY DEF Keyed
  <2> QED
    BY <1>5, <2>1, <2>2 DEF Homes
<1>8. Chains(NodesOf(w), Keyed(w), Nexts(w), Homes(w), pos)
  BY <1>2, <1>3, <1>5, <1>6, <1>7, Zenon
<1>9. Shaped(w)
  BY <1>1, <1>3 DEF Shaped, Alike
<1>10. Plain(w)
  BY <1>1, <1>2, <1>3 DEF Plain
<1>11. Unique(w)
  BY <1>1, <1>2, <1>3 DEF Unique
<1>12. DummyOK(w)
  <2>1. w.dummy = u.dummy /\ w.lsizenode = u.lsizenode
    BY <1>1 DEF Alike
  <2>2. <<"dummy", 0>> \in Unkeyed
    BY DEF Unkeyed
  <2> QED
    BY <1>1, <1>2, <1>3, <2>1, <2>2 DEF DummyOK
<1>13. FreesBelow(w)
  <2>1. NoKey \in Unkeyed
    BY DEF Unkeyed
  <2> QED
    BY <1>1, <1>2, <1>3, <2>1 DEF FreesBelow
<1>14. DeadLast(w, pos)
  <2>1. SUFFICES ASSUME NEW m \in Keyed(w), NEW n \in Keyed(w), w.node[m].key \in Keys, w.node[n].key \notin Keys,
                        Original(w.node[n].key) = w.node[m].key
                 PROVE  pos[n] < pos[m]
    BY DEF DeadLast
  <2>2. m \in NodesOf(u) /\ n \in NodesOf(u) /\ m \in Keyed(u) /\ n \in Keyed(u)
    BY <1>3, <1>5, <2>1 DEF Keyed
  <2>3. u.node[m].key = w.node[m].key /\ Original(u.node[n].key) = w.node[m].key
    BY <1>1, <2>1, <2>2
  <2>4. CASE u.node[n].key \in Keys
    <3>1. u.node[n].key = u.node[m].key
      BY <2>3, <2>4, KeyFacts
    <3>2. m = n
      BY <1>2, <2>2, <2>4, <3>1 DEF Unique
    <3> QED
      BY <2>1, <3>2
  <2>5. CASE u.node[n].key \notin Keys
    BY <1>2, <2>1, <2>2, <2>3, <2>5 DEF DeadLast
  <2> QED
    BY <2>4, <2>5
<1> QED
  BY <1>8, <1>9, <1>10, <1>11, <1>12, <1>13, <1>14 DEF HashWith

(* The hash part is changed, the rest of the table is not.                 *)
LEMMA HashOnly ==
  ASSUME NEW u, TableOK(u), NEW w, Alike(u, w), HashOK(w), w.asserts = u.asserts,
         \A p \in Pairs(w) : ~InArray(u, p[1])
  PROVE  TableOK(w) /\ Items(w) = ArrayPairs(u) \cup Pairs(w)
<1>1. ArrayKeys(u) /\ u.hint <= asize(u) /\ u.asserts /\ w.array = u.array /\ w.hint = u.hint
  BY DEF TableOK, Alike
<1>2. asize(w) = asize(u)
  BY <1>1 DEF asize
<1>3. Split(w)
  <2>1. SUFFICES ASSUME NEW n \in NodesOf(w), w.node[n].val # Empty PROVE ~InArray(w, w.node[n].key)
    BY DEF Split
  <2>2. <<w.node[n].key, w.node[n].val>> \in Pairs(w)
    BY <2>1, UsedPairs
  <2> QED
    BY <1>2, <2>2 DEF InArray
<1>4. ArrayKeys(w)
  BY <1>1, <1>2 DEF ArrayKeys
<1>5. TableOK(w)
  BY <1>1, <1>2, <1>3, <1>4 DEF TableOK
<1>6. ArrayPairs(w) = ArrayPairs(u)
  BY <1>1, <1>2 DEF ArrayPairs, InArrayNow
<1> QED
  BY <1>5, <1>6 DEF Items

LEMMA PairsNotInArray ==
  ASSUME NEW u, TableOK(u), NEW p \in Pairs(u)
  PROVE  ~InArray(u, p[1])
<1>1. HashOK(u) /\ Split(u)
  BY DEF TableOK
<1>2. PICK n \in NodesOf(u) : u.node[n].val # Empty /\ p = <<u.node[n].key, u.node[n].val>>
  BY <1>1, UsedPairs
<1> QED
  BY <1>1, <1>2 DEF Split

----------------------------------------------------------------------------
(* Writing a field.                                                        *)

(* The fields of u, those of key k apart, and <<k, v>> if v is something.  *)
Changed(u, k, v) == {p \in Items(u) : p[1] # k} \cup (IF v = Empty THEN {} ELSE {<<k, v>>})
IsSet(u, w, k, v) == TableOK(w) /\ Items(w) = Changed(u, k, v)

Celled(u, i, v) == [u EXCEPT !.array[i] = v]
Valued(u, n, v) == [u EXCEPT !.node[n].val = v]

LEMMA ArraySets ==
  ASSUME NEW u, TableOK(u), NEW k \in Keys, InArray(u, k), NEW v \in Cell,
         NEW w, w = Celled(u, k[2], v)
  PROVE  IsSet(u, w, k, v)
<1> DEFINE i == k[2]
<1>1. i \in 1..asize(u) /\ k = <<"int", i>>
  BY KeyNormal DEF InArray
<1>2. HashOK(u) /\ ArrayKeys(u) /\ Split(u) /\ u.hint <= asize(u) /\ u.asserts
  BY DEF TableOK
<1>1a. w = Celled(u, i, v)
  OBVIOUS
<1> HIDE DEF i
<1>1b. v \in Cell /\ w = [u EXCEPT !.array[i] = v]
  BY <1>1a DEF Celled
<1>3. /\ w.array[i] = v /\ \A j \in 1..asize(u) : j # i => w.array[j] = u.array[j]
      /\ HashOK(w) /\ Pairs(w) = Pairs(u) /\ SameFrame(u, w)
  BY <1>1, <1>1b, <1>2, ArrayPut
<1>4. asize(w) = asize(u) /\ w.hint = u.hint /\ w.asserts = u.asserts
  BY <1>3 DEF SameFrame
<1>5. \A p \in Pairs(w) : ~InArray(w, p[1])
  BY <1>3, <1>4, PairsNotInArray DEF InArray
<1>6. Split(w)
  <2>1. SUFFICES ASSUME NEW n \in NodesOf(w), w.node[n].val # Empty PROVE ~InArray(w, w.node[n].key)
    BY DEF Split
  <2>2. <<w.node[n].key, w.node[n].val>> \in Pairs(w)
    BY <1>3, <2>1, UsedPairs
  <2> QED
    BY <1>5, <2>2
<1>7. ArrayKeys(w)
  BY <1>1, <1>2, <1>3, <1>4 DEF ArrayKeys
<1>8. TableOK(w)
  BY <1>2, <1>3, <1>4, <1>6, <1>7 DEF TableOK
<1>9. InArrayNow(w) = (InArrayNow(u) \ {i}) \cup (IF v = Empty THEN {} ELSE {i})
  BY <1>1, <1>3, <1>4 DEF InArrayNow
<1>10. \A j \in InArrayNow(u) \ {i} : w.array[j] = u.array[j]
  BY <1>3 DEF InArrayNow
<1>11. ArrayPairs(w) = {p \in ArrayPairs(u) : p[1] # k} \cup (IF v = Empty THEN {} ELSE {<<k, v>>})
  <2>1. ASSUME NEW p \in ArrayPairs(w) PROVE p \in {q \in ArrayPairs(u) : q[1] # k} \cup (IF v = Empty THEN {} ELSE {<<k, v>>})
    <3>1. PICK j \in InArrayNow(w) : p = <<<<"int", j>>, w.array[j]>>
      BY DEF ArrayPairs
    <3>2. CASE j = i
      <4>1. v # Empty
        BY <1>9, <3>1, <3>2
      <4>2. p = <<k, v>>
        BY <1>1, <1>3, <3>1, <3>2
      <4> QED
        BY <4>1, <4>2
    <3>3. CASE j # i
      <4>1. j \in InArrayNow(u) \ {i} /\ w.array[j] = u.array[j]
        BY <1>9, <1>10, <3>1, <3>3
      <4>2. p \in ArrayPairs(u) /\ p[1] # k
        BY <1>1, <3>1, <3>3, <4>1 DEF ArrayPairs
      <4> QED
        BY <4>2
    <3> QED
      BY <3>2, <3>3
  <2>2. ASSUME NEW p \in ArrayPairs(u), p[1] # k PROVE p \in ArrayPairs(w)
    <3>1. PICK j \in InArrayNow(u) : p = <<<<"int", j>>, u.array[j]>>
      BY DEF ArrayPairs
    <3>2. j # i
      BY <1>1, <2>2, <3>1
    <3>3. j \in InArrayNow(w) /\ w.array[j] = u.array[j]
      BY <1>9, <1>10, <3>1, <3>2
    <3> QED
      BY <3>1, <3>3 DEF ArrayPairs
  <2>3. ASSUME v # Empty PROVE <<k, v>> \in ArrayPairs(w)
    BY <1>1, <1>3, <1>9, <2>3 DEF ArrayPairs
  <2> QED
    BY <2>1, <2>2, <2>3
<1>12. \A p \in Pairs(u) : p[1] # k
  BY PairsNotInArray
<1>13. Items(w) = Changed(u, k, v)
  BY <1>3, <1>11, <1>12 DEF Items, Changed
<1> QED
  BY <1>8, <1>13 DEF IsSet

LEMMA NodeSets ==
  ASSUME NEW u, TableOK(u), NEW n \in NodesOf(u), u.node[n].key \in Keys, ~InArray(u, u.node[n].key), NEW v \in Cell,
         NEW w, w = Valued(u, n, v)
  PROVE  /\ IsSet(u, w, u.node[n].key, v) /\ Revalued(u, w)
         /\ \A y \in NodesOf(u) : w.node[y].key = u.node[y].key /\ (y # n => w.node[y].val = u.node[y].val)
<1> DEFINE k == u.node[n].key
           new == NewNode(u, n, k, v)
           nodes == [u.node EXCEPT ![n] = new]
<1>1. HashOK(u) /\ u.asserts
  BY DEF TableOK
<1>2. PICK pos : HashWith(u, pos)
  BY <1>1 DEF HashOK
<1>3. /\ Shaped(u) /\ u \in TableRec /\ u.node \in [NodesOf(u) -> Node] /\ u.lastfree \in Nat /\ u.asserts \in BOOLEAN
      /\ Unique(u) /\ DummyOK(u) /\ Plain(u) /\ u.lsizenode \in Nat
  BY <1>2, HashParts DEF HashWith
<1>4. new \in Node /\ new.key = k /\ new.val = v /\ new.next = u.node[n].next
  BY <1>3 DEF NewNode, Node
<1>5. nodes \in [NodesOf(u) -> Node] /\ nodes[n] = new /\ \A y \in NodesOf(u) : y # n => nodes[y] = u.node[y]
  BY <1>3, <1>4
<1>6. new = [u.node[n] EXCEPT !.val = v]
  BY <1>3 DEF NewNode, Node
<1>7. w = With(u, nodes, u.asserts, u.lastfree)
  <2>1. w = [u EXCEPT !.node = nodes]
    BY <1>6 DEF Valued
  <2> HIDE DEF nodes
  <2> QED
    BY <1>3, <2>1 DEF With, TableRec
<1> HIDE DEF nodes, new
<1>8. Alike(u, w) /\ w.node = nodes /\ w.asserts = u.asserts /\ w.lastfree = u.lastfree
  BY <1>3, <1>5, <1>7, SetNodes
<1>9. ~u.dummy
  <2>1. SUFFICES ASSUME u.dummy PROVE FALSE
    OBVIOUS
  <2>2. NodesOf(u) = 0..0
    BY <1>3, <2>1, TwoTo DEF DummyOK, NodesOf, sizenode
  <2>3. u.node[n] = dummynode
    BY <1>3, <2>1, <2>2 DEF DummyOK
  <2> QED
    BY <2>3, KeyFacts DEF dummynode, Unkeyed
<1>10. \A y \in NodesOf(u) : /\ w.node[y].key = u.node[y].key /\ w.node[y].next = u.node[y].next
                             /\ y # n => w.node[y].val = u.node[y].val
  BY <1>4, <1>5, <1>8
<1>11. w.node[n].val = v
  BY <1>4, <1>5, <1>8
<1>12. Revalued(u, w)
  BY <1>3, <1>8, <1>9, <1>10 DEF Revalued, Plain
<1>13. HashOK(w)
  BY <1>2, <1>12, RevaluedOK DEF HashOK
<1>14. NodesOf(w) = NodesOf(u)
  BY <1>8 DEF Alike
<1>15. Pairs(w) = {p \in Pairs(u) : p[1] # k} \cup (IF v = Empty THEN {} ELSE {<<k, v>>})
  <2>1. ASSUME NEW p \in Pairs(w) PROVE p \in {q \in Pairs(u) : q[1] # k} \cup (IF v = Empty THEN {} ELSE {<<k, v>>})
    <3>1. PICK y \in NodesOf(w) : w.node[y].val # Empty /\ p = <<w.node[y].key, w.node[y].val>>
      BY DEF Pairs, Used
    <3>2. CASE y = n
      BY <1>10, <1>11, <3>1, <3>2
    <3>3. CASE y # n
      <4>1. p = <<u.node[y].key, u.node[y].val>> /\ u.node[y].val # Empty /\ y \in NodesOf(u)
        BY <1>10, <1>14, <3>1, <3>3
      <4>2. p \in Pairs(u) /\ u.node[y].key \in Keys
        BY <1>1, <4>1, UsedPairs
      <4>3. u.node[y].key # k
        BY <1>3, <3>3, <4>1, <4>2 DEF Unique
      <4> QED
        BY <4>1, <4>2, <4>3
    <3> QED
      BY <3>2, <3>3
  <2>2. ASSUME NEW p \in Pairs(u), p[1] # k PROVE p \in Pairs(w)
    <3>1. PICK y \in NodesOf(u) : u.node[y].val # Empty /\ p = <<u.node[y].key, u.node[y].val>>
      BY <1>1, UsedPairs
    <3>2. y # n
      BY <2>2, <3>1
    <3>3. w.node[y].val # Empty /\ p = <<w.node[y].key, w.node[y].val>> /\ y \in NodesOf(w)
      BY <1>10, <1>14, <3>1, <3>2
    <3> QED
      BY <1>13, <3>3, UsedPairs
  <2>3. ASSUME v # Empty PROVE <<k, v>> \in Pairs(w)
    <3>1. w.node[n].val # Empty /\ <<k, v>> = <<w.node[n].key, w.node[n].val>> /\ n \in NodesOf(w)
      BY <1>10, <1>11, <1>14, <2>3
    <3> QED
      BY <1>13, <3>1, UsedPairs
  <2> HIDE DEF k
  <2> QED
    BY <2>1, <2>2, <2>3
<1>16. \A p \in Pairs(w) : ~InArray(u, p[1])
  BY <1>15, PairsNotInArray
<1>17. TableOK(w) /\ Items(w) = ArrayPairs(u) \cup Pairs(w)
  BY <1>8, <1>13, <1>16, HashOnly
<1>18. \A p \in ArrayPairs(u) : p[1] # k
  BY DEF ArrayPairs, InArrayNow, InArray
<1>19. Items(w) = Changed(u, k, v)
  BY <1>15, <1>17, <1>18 DEF Items, Changed
<1> QED
  BY <1>10, <1>12, <1>17, <1>19 DEF IsSet

LEMMA InsertSets ==
  ASSUME NEW u, TableOK(u), NEW k \in Keys, NEW v \in Values, ~InArray(u, k),
         \A n \in NodesOf(u) : u.node[n].key # k, HasRoom(u, k), NEW w, w = insertkey(u, k, v)
  PROVE  IsSet(u, w, k, v)
<1>1. HashOK(u)
  BY DEF TableOK
<1>2. /\ HashOK(w) /\ Alike(u, w) /\ w.asserts = u.asserts /\ Pairs(w) = Pairs(u) \cup {<<k, v>>}
  BY <1>1, Inserts DEF Inserted
<1>3. \A p \in Pairs(w) : ~InArray(u, p[1])
  BY <1>2, PairsNotInArray
<1>4. TableOK(w) /\ Items(w) = ArrayPairs(u) \cup Pairs(w)
  BY <1>2, <1>3, HashOnly
<1>5. \A p \in ArrayPairs(u) : p[1] # k
  BY DEF ArrayPairs, InArrayNow, InArray
<1>6. \A p \in Pairs(u) : p[1] # k
  BY <1>1, UsedPairs
<1>7. v # Empty
  BY ValueFacts
<1> QED
  BY <1>2, <1>4, <1>5, <1>6, <1>7 DEF IsSet, Changed, Items

(* A full table that has been looked at for a free node.                   *)
LEMMA FullTable ==
  ASSUME NEW u, TableOK(u), getfreepos(u) = Absent, NEW w, w = Looked(u, Absent)
  PROVE  TableOK(w) /\ Items(w) = Items(u) /\ asize(w) = asize(u)
<1> DEFINE l == IF haslastfree(u) THEN 0 ELSE u.lastfree
<1>1. HashOK(u)
  BY DEF TableOK
<1>2. PICK pos : HashWith(u, pos)
  BY <1>1 DEF HashOK
<1>3. /\ Shaped(u) /\ u \in TableRec /\ u.node \in [NodesOf(u) -> Node] /\ u.lastfree \in Nat /\ u.asserts \in BOOLEAN
      /\ Plain(u) /\ Unique(u) /\ DummyOK(u) /\ FreesBelow(u) /\ DeadLast(u, pos)
      /\ Chains(NodesOf(u), Keyed(u), Nexts(u), Homes(u), pos)
  BY <1>2, HashParts DEF HashWith
<1>4. l \in Nat
  BY <1>3
<1>5. w = With(u, u.node, u.asserts, l)
  BY <1>3, <1>4 DEF Looked, TableRec, With
<1> HIDE DEF l
<1>6. Alike(u, w) /\ w.node = u.node /\ w.asserts = u.asserts /\ w.lastfree = l
  BY <1>3, <1>4, <1>5, SetNodes
<1>7. /\ \A k : mainposition(w, k) = mainposition(u, k)
      /\ NodesOf(w) = NodesOf(u) /\ haslastfree(w) = haslastfree(u)
  BY <1>6, AlikePlaces
<1>8. Keyed(w) = Keyed(u) /\ Nexts(w) = Nexts(u)
  BY <1>6, <1>7 DEF Keyed, Nexts
<1>9. \A n : Home(w, n) = Home(u, n)
  BY <1>6, <1>7, Zenon DEF Home
<1>10. Homes(w) = Homes(u)
  BY <1>8, <1>9 DEF Homes
<1>11. Chains(NodesOf(w), Keyed(w), Nexts(w), Homes(w), pos)
  BY <1>3, <1>7, <1>8, <1>10, Zenon
<1>12. Shaped(w)
  BY <1>6, <1>7 DEF Shaped, Alike
<1>13. Plain(w) /\ Unique(w)
  BY <1>3, <1>6, <1>7 DEF Plain, Unique
<1>14. DummyOK(w)
  BY <1>3, <1>6, <1>7 DEF DummyOK, Alike
<1>15. FreesBelow(w)
  <2>1. \A n \in NodesOf(u) : u.node[n].key # NoKey
    BY <1>1, FreePlace
  <2> QED
    BY <1>6, <1>7, <2>1 DEF FreesBelow
<1>16. DeadLast(w, pos)
  BY <1>3, <1>6, <1>8 DEF DeadLast
<1>17. HashOK(w)
  BY <1>11, <1>12, <1>13, <1>14, <1>15, <1>16 DEF HashOK, HashWith
<1>18. Pairs(w) = Pairs(u)
  BY <1>6, <1>7 DEF Pairs, Used
<1>19. TableOK(w) /\ Items(w) = Items(u)
  BY <1>6, <1>17, <1>18, HashOnly, PairsNotInArray DEF Items
<1>20. asize(w) = asize(u)
  BY <1>6 DEF Alike, asize
<1> QED
  BY <1>19, <1>20

LEMMA NewKeySets ==
  ASSUME NEW u, TableOK(u), NEW k \in Keys, NEW v \in Values, ~InArray(u, k),
         \A n \in NodesOf(u) : u.node[n].key # k, NEW fail, NEW w, w = luaH_newkey(u, k, v, fail)
  PROVE  \/ IsSet(u, w, k, v)
         \/ TableOK(w) /\ Items(w) = Items(u)
<1> DEFINE na == rehashSizes(u, k)[1]
           nh == rehashSizes(u, k)[2]
           full == Looked(u, Absent)
           p == <<k, v>>
           G == Items(u) \cup {p}
<1>1. CASE HasRoom(u, k)
  <2>1. w = insertkey(u, k, v)
    BY <1>1 DEF luaH_newkey
  <2> QED
    BY <1>1, <2>1, InsertSets
<1>2. CASE ~HasRoom(u, k)
  <2>1. getfreepos(u) = Absent
    BY <1>2 DEF HasRoom
  <2>2. TableOK(full) /\ Items(full) = Items(u) /\ asize(full) = asize(u)
    BY <2>1, FullTable
  <2>3. HashOK(u)
    BY DEF TableOK
  <2>4. \A q \in Items(u) : q[1] # k
    <3>1. \A q \in Pairs(u) : q[1] # k
      BY <2>3, UsedPairs
    <3>2. \A q \in ArrayPairs(u) : q[1] # k
      BY DEF ArrayPairs, InArrayNow, InArray
    <3> QED
      BY <3>1, <3>2 DEF Items
  <2>5. Fits(u, na, nh, G)
    BY <2>4, RehashFits
  <2> HIDE DEF na, nh, full, G
  <2>6. Fits(full, na, nh, G)
    BY <2>2, <2>5 DEF Fits
  <2>7. CASE Fails(u, na, nh, fail)
    <3>1. w = luaH_resize(full, na, nh, fail)
      BY <1>2, <2>7 DEF luaH_newkey, na, nh, full
    <3>2. Fails(full, na, nh, fail)
      BY <2>2, <2>7 DEF Fails
    <3>3. Items(w) = Items(full) /\ TableOK(w)
      BY <2>6, <3>1, <3>2, ResizeFails
    <3> QED
      BY <2>2, <3>3
  <2>8. CASE ~Fails(u, na, nh, fail)
    <3> DEFINE r == luaH_resize(full, na, nh, "none")
    <3>1. w = newcheckedkey(r, p[1], p[2])
      BY <1>2, <2>8 DEF luaH_newkey, na, nh, full
    <3>2. ~Fails(full, na, nh, "none")
      BY DEF Fails
    <3>3. Ready(r, G) /\ Items(r) = Items(full) /\ TableOK(r)
      BY <2>6, <3>2, ResizeMoves
    <3> HIDE DEF r
    <3>4. p \in G /\ p \notin Items(r)
      BY <2>2, <2>4, <3>3 DEF G
    <3> HIDE DEF p
    <3>5. Ready(w, G) /\ Items(w) = Items(r) \cup {p} /\ SameFrame(r, w)
      BY <3>1, <3>3, <3>4, Place
    <3>6. w.hint <= asize(w) /\ w.asserts
      BY <3>3, <3>5 DEF SameFrame, TableOK
    <3>7. TableOK(w)
      BY <3>5, <3>6, ReadyOK
    <3>8. v # Empty
      BY ValueFacts
    <3>9. Items(w) = Changed(u, k, v)
      BY <2>2, <2>4, <3>3, <3>5, <3>8 DEF Changed, p
    <3> QED
      BY <3>7, <3>9 DEF IsSet
  <2> QED
    BY <2>7, <2>8
<1> QED
  BY <1>1, <1>2

LEMMA SetIs ==
  ASSUME NEW u, TableOK(u), NEW k \in Keys, NEW v \in Cell, NEW fail, NEW w, w = luaH_set(u, k, v, fail)
  PROVE  \/ IsSet(u, w, k, v)
         \/ TableOK(w) /\ Items(w) = Items(u)
<1> DEFINE n == getgeneric(u, k, FALSE)
<1>1. Normal(k) = k /\ k[1] \notin {"nil", "nan"}
  BY KeyNormal
<1>2. HashOK(u)
  BY DEF TableOK
<1>3. \/ n \in NodesOf(u) /\ n # Absent /\ u.node[n].key = k
      \/ n = Absent /\ \A y \in NodesOf(u) : u.node[y].key # k
  BY <1>2, FoundHasKey
<1>4. w = CASE InArray(u, k) -> Celled(u, k[2], v)
            [] ~InArray(u, k) /\ n # Absent -> Valued(u, n, v)
            [] OTHER -> IF v = Empty THEN u ELSE luaH_newkey(u, k, v, fail)
  BY <1>1 DEF luaH_set, Celled, Valued
<1> HIDE DEF n
<1>5. CASE InArray(u, k)
  <2>1. w = Celled(u, k[2], v)
    BY <1>4, <1>5
  <2> QED
    BY <1>5, <2>1, ArraySets
<1>6. CASE ~InArray(u, k) /\ n # Absent
  <2>1. w = Valued(u, n, v)
    BY <1>4, <1>6
  <2>2. n \in NodesOf(u) /\ u.node[n].key = k
    BY <1>3, <1>6
  <2>3. IsSet(u, w, u.node[n].key, v)
    BY <1>6, <2>1, <2>2, NodeSets
  <2> QED
    BY <2>2, <2>3
<1>7. CASE ~InArray(u, k) /\ n = Absent
  <2>1. w = IF v = Empty THEN u ELSE luaH_newkey(u, k, v, fail)
    BY <1>4, <1>7
  <2>2. CASE v = Empty
    BY <2>1, <2>2
  <2>3. CASE v # Empty
    <3>1. v \in Values /\ w = luaH_newkey(u, k, v, fail) /\ \A y \in NodesOf(u) : u.node[y].key # k
      BY <1>3, <1>7, <2>1, <2>3 DEF Cell
    <3> QED
      BY <1>7, <3>1, NewKeySets
  <2> QED
    BY <2>2, <2>3
<1> QED
  BY <1>5, <1>6, <1>7

(* What the program reads after a change to one field.                     *)
LEMMA ReadAfter ==
  ASSUME NEW u, TableOK(u), NEW k \in Keys, NEW v \in Cell, NEW w,
         IsSet(u, w, k, v) \/ (TableOK(w) /\ Items(w) = Items(u))
  PROVE  /\ TableOK(w) /\ luaH_get(w, k) \in Cell
         /\ \A j \in Keys \ {k} : luaH_get(w, j) = luaH_get(u, j)
<1>1. TableOK(w)
  BY DEF IsSet
<1>2. ASSUME NEW j \in Keys \ {k} PROVE luaH_get(w, j) = luaH_get(u, j)
  <2>1. \A x : <<j, x>> \in Items(u) <=> <<j, x>> \in Items(w)
    <3> TAKE x
    <3>1. <<j, x>>[1] = j /\ j # k /\ <<j, x>> # <<k, v>>
      BY <1>2
    <3> QED
      BY <3>1 DEF IsSet, Changed
  <2> QED
    BY <1>1, <1>2, <2>1, GetSame
<1>3. luaH_get(w, k) \in Cell
  BY <1>1, GetIs DEF Cell
<1> QED
  BY <1>1, <1>2, <1>3

----------------------------------------------------------------------------
(* The other steps.                                                        *)

LEMMA ClearIs ==
  ASSUME NEW u, TableOK(u), NEW w, w = clearkeys(u)
  PROVE  /\ TableOK(w) /\ Items(w) = Items(u) /\ Revalued(u, w)
         /\ \A n \in NodesOf(u) : w.node[n].val = u.node[n].val
         /\ \A n \in NodesOf(u) : w.node[n] = u.node[n] \/ /\ u.node[n].val = Empty /\ u.node[n].key[1] = "str"
                                                           /\ w.node[n].key = <<"dead", u.node[n].key[2]>>
<1> DEFINE Clear(node) == IF node.val = Empty /\ node.key[1] = "str"
                          THEN [key |-> <<"dead", node.key[2]>>, val |-> node.val, next |-> node.next] ELSE node
           nodes == [n \in NodesOf(u) |-> Clear(u.node[n])]
<1>1. HashOK(u)
  BY DEF TableOK
<1>2. PICK pos : HashWith(u, pos)
  BY <1>1 DEF HashOK
<1>3. /\ Shaped(u) /\ u \in TableRec /\ u.node \in [NodesOf(u) -> Node] /\ u.lastfree \in Nat /\ u.asserts \in BOOLEAN
      /\ Unique(u) /\ DummyOK(u) /\ Plain(u) /\ u.lsizenode \in Nat
      /\ \A n \in NodesOf(u) : /\ u.node[n].key \in Keys \cup DeadKeys \cup Unkeyed
                               /\ u.node[n].val \in Cell /\ u.node[n].next \in Int
  BY <1>2, HashParts DEF HashWith
<1>4. \A k \in Keys \cup DeadKeys \cup Unkeyed :
        k[1] = "str" => /\ k \in Keys /\ k = <<"str", k[2]>> /\ <<"dead", k[2]>> \in DeadKeys
                        /\ <<"dead", k[2]>> \notin Keys /\ <<"dead", k[2]>> \notin Unkeyed
                        /\ Original(<<"dead", k[2]>>) = Original(k)
  <2> TAKE k \in Keys \cup DeadKeys \cup Unkeyed
  <2> HAVE k[1] = "str"
  <2>1. k \in Keys
    <3>1. k \notin DeadKeys
      BY KeyFacts
    <3>2. k \notin Unkeyed
      BY DEF Unkeyed, NoKey
    <3> QED
      BY <3>1, <3>2
  <2>2. k = <<"str", k[2]>> /\ Original(k) = k
    BY <2>1, KeyFacts
  <2>3. <<"dead", k[2]>> \in DeadKeys
    BY <2>1 DEF DeadKeys
  <2>4. Original(<<"dead", k[2]>>) = <<"str", k[2]>>
    BY DEF Original
  <2> QED
    BY <2>1, <2>2, <2>3, <2>4, KeyFacts
<1>5. ASSUME NEW n \in NodesOf(u)
      PROVE  /\ Clear(u.node[n]) \in Node /\ Clear(u.node[n]).val = u.node[n].val /\ Clear(u.node[n]).next = u.node[n].next
             /\ Clear(u.node[n]) = u.node[n] \/ /\ u.node[n].val = Empty /\ u.node[n].key[1] = "str"
                                                /\ Clear(u.node[n]).key = <<"dead", u.node[n].key[2]>>
  <2>1. u.node[n] \in Node
    BY <1>3
  <2>2. CASE u.node[n].val = Empty /\ u.node[n].key[1] = "str"
    <3>1. <<"dead", u.node[n].key[2]>> \in DeadKeys
      BY <1>3, <1>4, <2>2
    <3> QED
      BY <1>3, <2>2, <3>1 DEF Node
  <2>3. CASE ~(u.node[n].val = Empty /\ u.node[n].key[1] = "str")
    BY <2>1, <2>3
  <2> QED
    BY <2>2, <2>3
<1>6. nodes \in [NodesOf(u) -> Node] /\ \A n \in NodesOf(u) : nodes[n] = Clear(u.node[n])
  BY <1>5
<1>7. w = With(u, nodes, u.asserts, u.lastfree)
  <2>1. w = [u EXCEPT !.node = [n \in NodesOf(u) |-> clearkey(u.node[n])]]
    <3>1. DOMAIN u.node = NodesOf(u)
      BY <1>3
    <3> QED
      BY <3>1, Zenon DEF clearkeys
  <2>2. \A n \in NodesOf(u) : clearkey(u.node[n]) = Clear(u.node[n])
    BY <1>3 DEF Node, clearkey
  <2>3. w = [u EXCEPT !.node = nodes]
    BY <2>1, <2>2
  <2> HIDE DEF nodes
  <2> QED
    BY <1>3, <2>3 DEF With, TableRec
<1> HIDE DEF nodes, Clear
<1>8. Alike(u, w) /\ w.node = nodes /\ w.asserts = u.asserts /\ w.lastfree = u.lastfree
  BY <1>3, <1>6, <1>7, SetNodes
<1>9. \A n \in NodesOf(u) : /\ w.node[n].val = u.node[n].val /\ w.node[n].next = u.node[n].next
                            /\ w.node[n] = u.node[n] \/ /\ u.node[n].val = Empty /\ u.node[n].key[1] = "str"
                                                        /\ w.node[n].key = <<"dead", u.node[n].key[2]>>
  BY <1>5, <1>6, <1>8
<1>10. u.dummy => w.node = u.node
  <2>1. SUFFICES ASSUME u.dummy PROVE w.node = u.node
    OBVIOUS
  <2>2. NodesOf(u) = 0..0
    BY <1>3, <2>1, TwoTo DEF DummyOK, NodesOf, sizenode
  <2>3. u.node[0] = dummynode
    BY <1>3, <2>1 DEF DummyOK
  <2>4. w.node[0] = u.node[0]
    BY <1>9, <2>2, <2>3 DEF dummynode
  <2> QED
    BY <1>3, <1>6, <1>8, <2>2, <2>4
<1>11. Revalued(u, w)
  <2>1. ASSUME NEW n \in NodesOf(u)
        PROVE  /\ w.node[n].key \in Keys \cup Unkeyed => w.node[n].key = u.node[n].key
               /\ u.node[n].key \in Unkeyed => w.node[n].key = u.node[n].key
               /\ Original(w.node[n].key) = Original(u.node[n].key)
               /\ w.node[n].key \notin Keys => w.node[n].val = Empty
    <3>1. CASE w.node[n] = u.node[n]
      BY <1>3, <3>1 DEF Plain
    <3>2. CASE /\ u.node[n].val = Empty /\ u.node[n].key[1] = "str"
               /\ w.node[n].key = <<"dead", u.node[n].key[2]>>
      <4>1. u.node[n].key \in Keys /\ w.node[n].key \notin Keys \cup Unkeyed /\ Original(w.node[n].key) = Original(u.node[n].key)
        BY <1>3, <1>4, <3>2
      <4> QED
        BY <1>9, <3>2, <4>1, KeyFacts
    <3> QED
      BY <1>9, <3>1, <3>2
  <2> QED
    BY <1>8, <1>9, <1>10, <2>1 DEF Revalued
<1>12. HashOK(w)
  BY <1>2, <1>11, RevaluedOK DEF HashOK
<1>13. NodesOf(w) = NodesOf(u)
  BY <1>8 DEF Alike
<1>14. \A n \in NodesOf(u) : w.node[n].val # Empty => w.node[n] = u.node[n]
  BY <1>9
<1>15. Pairs(w) = Pairs(u)
  <2>1. Used(w) = Used(u)
    BY <1>9, <1>13 DEF Used
  <2>2. \A n \in Used(u) : w.node[n] = u.node[n]
    BY <1>9 DEF Used
  <2> QED
    BY <2>1, <2>2 DEF Pairs
<1>16. \A p \in Pairs(w) : ~InArray(u, p[1])
  BY <1>15, PairsNotInArray
<1>17. TableOK(w) /\ Items(w) = Items(u)
  BY <1>8, <1>12, <1>15, <1>16, HashOnly DEF Items
<1> QED
  BY <1>9, <1>11, <1>17

LEMMA HintIs ==
  ASSUME NEW u, TableOK(u), NEW n \in Nat, n <= asize(u), NEW w, w = [u EXCEPT !.hint = n]
  PROVE  /\ TableOK(w) /\ Items(w) = Items(u) /\ HashOK(w) /\ NodesOf(w) = NodesOf(u) /\ asize(w) = asize(u)
         /\ w.node = u.node /\ w.lsizenode = u.lsizenode /\ w.array = u.array /\ w.dummy = u.dummy
<1>1. HashOK(u) /\ ArrayKeys(u) /\ Split(u) /\ u.asserts
  BY DEF TableOK
<1>2. u \in TableRec
  BY <1>1, HashTyped
<1>3. /\ w \in TableRec /\ w.node = u.node /\ w.lsizenode = u.lsizenode /\ w.dummy = u.dummy
      /\ w.lastfree = u.lastfree /\ w.array = u.array /\ w.hint = n /\ w.asserts = u.asserts
  <2> DEFINE A == Seq(Cell)
             B == UNION {[S -> Node] : S \in SUBSET Nat}
  <2>1. u \in [array : A, hint : Nat, node : B, lsizenode : Nat, dummy : BOOLEAN, lastfree : Nat, asserts : BOOLEAN]
    BY <1>2 DEF TableRec
  <2> HIDE DEF A, B
  <2>2. /\ w \in [array : A, hint : Nat, node : B, lsizenode : Nat, dummy : BOOLEAN, lastfree : Nat, asserts : BOOLEAN]
        /\ w.node = u.node /\ w.lsizenode = u.lsizenode /\ w.dummy = u.dummy
        /\ w.lastfree = u.lastfree /\ w.array = u.array /\ w.hint = n /\ w.asserts = u.asserts
    BY <2>1
  <2> QED
    BY <2>2 DEF A, B, TableRec
<1>4. HashOK(w) /\ Pairs(w) = Pairs(u) /\ NodesOf(w) = NodesOf(u)
  BY <1>1, <1>3, HashTransfer
<1>5. asize(w) = asize(u)
  BY <1>3 DEF asize
<1>6. TableOK(w)
  BY <1>1, <1>3, <1>4, <1>5 DEF TableOK, ArrayKeys, Split, InArray
<1>7. Items(w) = Items(u)
  BY <1>3, <1>4, <1>5 DEF Items, ArrayPairs, InArrayNow
<1> QED
  BY <1>3, <1>4, <1>5, <1>6, <1>7

----------------------------------------------------------------------------
(* Halving an interval.                                                    *)

Middle(i, j) == (i + j) \div 2
HalfNext(there, f, i, j) ==
  IF j - i <= 1 THEN i
  ELSE IF Middle(i, j) \in there THEN f[<<Middle(i, j), j>>] ELSE f[<<i, Middle(i, j)>>]

LEMMA Between ==
  ASSUME NEW i \in Nat, NEW j \in Nat, ~(j - i <= 1)
  PROVE  Middle(i, j) \in Nat /\ i < Middle(i, j) /\ Middle(i, j) < j
BY DEF Middle

LEMMA HalfRuns ==
  ASSUME NEW there, NEW i0 \in Nat, NEW j0 \in Nat
  PROVE  \E c : /\ \A i, j \in Nat : c[<<i, j>>] = HalfNext(there, c, i, j)
                /\ Halved(there, i0, j0) = c[<<i0, j0>>]
<1> DEFINE D == Nat \X Nat
           next(f, n) == HalfNext(there, f, n[1], n[2])
           mu == [n \in D |-> IF n[1] <= n[2] THEN n[2] - n[1] ELSE 0]
           step == [nf \in D \X [D -> Nat] |-> next(nf[2], nf[1])]
           P(g) == g = [ij \in Nat \X Nat |->
                          LET i == ij[1]
                              j == ij[2]
                              m == (i + j) \div 2
                          IN IF j - i <= 1 THEN i ELSE IF m \in there THEN g[<<m, j>>] ELSE g[<<i, m>>]]
<1>1. ASSUME NEW f \in [D -> Nat], NEW n \in D PROVE next(f, n) \in Nat
  <2>1. n[1] \in Nat /\ n[2] \in Nat
    OBVIOUS
  <2>2. CASE n[2] - n[1] <= 1
    BY <2>1, <2>2 DEF HalfNext
  <2>3. CASE ~(n[2] - n[1] <= 1)
    <3>1. <<Middle(n[1], n[2]), n[2]>> \in D /\ <<n[1], Middle(n[1], n[2])>> \in D
      BY <2>1, <2>3, Between
    <3> QED
      BY <2>3, <3>1 DEF HalfNext
  <2> QED
    BY <2>2, <2>3
<1>2. /\ step \in [D \X [D -> Nat] -> Nat]
      /\ \A f \in [D -> Nat], n \in D : step[<<n, f>>] = next(f, n)
  <2> HIDE DEF next, D
  <2> QED
    BY <1>1
<1>3. mu \in [D -> Nat] /\ \A n \in D : mu[n] = IF n[1] <= n[2] THEN n[2] - n[1] ELSE 0
  OBVIOUS
<1>4. ASSUME NEW n \in D, NEW g \in [D -> Nat], NEW h \in [D -> Nat],
             \A y \in D : mu[y] < mu[n] => g[y] = h[y]
      PROVE  next(g, n) = next(h, n)
  <2>1. n[1] \in Nat /\ n[2] \in Nat
    OBVIOUS
  <2>2. CASE n[2] - n[1] <= 1
    BY <2>1, <2>2 DEF HalfNext
  <2>3. CASE ~(n[2] - n[1] <= 1)
    <3> DEFINE m == Middle(n[1], n[2])
               a == <<m, n[2]>>
               b == <<n[1], m>>
    <3>1. m \in Nat /\ n[1] < m /\ m < n[2]
      BY <2>1, <2>3, Between
    <3>2. a \in D /\ b \in D /\ a[1] = m /\ a[2] = n[2] /\ b[1] = n[1] /\ b[2] = m
      BY <2>1, <3>1
    <3>3. mu[a] = n[2] - m /\ mu[b] = m - n[1] /\ mu[n] = n[2] - n[1]
      BY <1>3, <2>1, <3>1, <3>2
    <3>4. g[a] = h[a] /\ g[b] = h[b]
      <4> HIDE DEF mu, a, b, m
      <4>1. mu[a] < mu[n] /\ mu[b] < mu[n]
        BY <2>1, <3>1, <3>3
      <4> QED
        BY <1>4, <3>2, <4>1
    <3> QED
      BY <2>3, <3>4 DEF HalfNext
  <2> QED
    BY <2>2, <2>3
<1>5. Local(D, Nat, mu, step)
  <2> HIDE DEF next, step, mu, D
  <2>1. ASSUME NEW n \in D, NEW g \in [D -> Nat], NEW h \in [D -> Nat],
               \A y \in D : mu[y] < mu[n] => g[y] = h[y]
        PROVE  step[<<n, g>>] = step[<<n, h>>]
    <3>1. next(g, n) = next(h, n)
      BY <1>4, <2>1
    <3> QED
      BY <1>2, <3>1
  <2> QED
    BY <2>1, Zenon DEF Local
<1>6. \E f \in [D -> Nat] : Solves(f, D, step)
  <2>1. 0 \in Nat
    OBVIOUS
  <2> HIDE DEF step, D, mu
  <2> QED
    BY <1>2, <1>3, <1>5, <2>1, Recursion
<1>7. PICK f \in [D -> Nat] : \A n \in D : f[n] = next(f, n)
  <2> HIDE DEF next, D, step
  <2> QED
    BY <1>2, <1>6 DEF Solves
<1>8. P(f)
  <2>1. f = [n \in D |-> next(f, n)]
    <3> HIDE DEF next, D
    <3> QED
      BY <1>7
  <2> QED
    BY <2>1, Zenon DEF HalfNext, Middle
<1> DEFINE c == CHOOSE g : P(g)
<1>9. Halved(there, i0, j0) = c[<<i0, j0>>]
  BY Zenon DEF Halved
<1>10. P(c)
  <2> HIDE DEF P
  <2> QED
    BY <1>8, Zenon
<1>11. \A i, j \in Nat : c[<<i, j>>] = HalfNext(there, c, i, j)
  <2> DEFINE cc == c
  <2>1. P(cc)
    BY <1>10
  <2> HIDE DEF c, cc
  <2>2. \A n \in Nat \X Nat : cc[n] = HalfNext(there, cc, n[1], n[2])
    BY <2>1, Zenon DEF HalfNext, Middle
  <2>3. \A i, j \in Nat : <<i, j>> \in Nat \X Nat /\ <<i, j>>[1] = i /\ <<i, j>>[2] = j
    OBVIOUS
  <2>4. \A i, j \in Nat : cc[<<i, j>>] = HalfNext(there, cc, i, j)
    BY <2>2, <2>3
  <2> QED
    BY <2>4 DEF cc
<1> HIDE DEF c
<1> QED
  BY <1>9, <1>11

LEMMA HalvedIs ==
  ASSUME NEW there, NEW i0 \in Nat, NEW j0 \in Nat, i0 < j0, j0 \notin there,
         NEW r, r = Halved(there, i0, j0)
  PROVE  r \in Nat /\ i0 <= r /\ r < j0 /\ (r = i0 \/ r \in there) /\ r + 1 \notin there
<1>1. PICK c : /\ \A i, j \in Nat : c[<<i, j>>] = HalfNext(there, c, i, j)
               /\ r = c[<<i0, j0>>]
  BY HalfRuns
<1> DEFINE Good(i, j) == /\ c[<<i, j>>] \in Nat /\ i <= c[<<i, j>>] /\ c[<<i, j>>] < j
                         /\ (c[<<i, j>>] = i \/ c[<<i, j>>] \in there) /\ c[<<i, j>>] + 1 \notin there
           Bad == {d \in Nat : \E i, j \in Nat : i < j /\ j \notin there /\ d = j - i /\ ~Good(i, j)}
<1>2. ASSUME NEW i \in Nat, NEW j \in Nat, i < j, j \notin there,
             \A k, l \in Nat : k < l /\ l \notin there /\ l - k < j - i => Good(k, l)
      PROVE  Good(i, j)
  <2>1. CASE j - i <= 1
    <3>1. c[<<i, j>>] = i
      BY <1>1, <2>1 DEF HalfNext
    <3>2. i + 1 = j
      BY <1>2, <2>1
    <3> QED
      BY <1>2, <3>1, <3>2
  <2>2. CASE ~(j - i <= 1)
    <3> DEFINE m == Middle(i, j)
    <3>1. m \in Nat /\ i < m /\ m < j
      BY <2>2, Between
    <3>2. c[<<i, j>>] = IF m \in there THEN c[<<m, j>>] ELSE c[<<i, m>>]
      BY <1>1, <2>2 DEF HalfNext
    <3> HIDE DEF m, Good
    <3>3. CASE m \in there
      <4>1. j - m < j - i
        BY <3>1
      <4>2. Good(m, j)
        BY <1>2, <3>1, <4>1
      <4>3. c[<<i, j>>] = c[<<m, j>>]
        BY <3>2, <3>3
      <4> QED
        BY <3>1, <3>3, <4>2, <4>3 DEF Good
    <3>4. CASE m \notin there
      <4>1. m - i < j - i
        BY <3>1
      <4>2. Good(i, m)
        BY <1>2, <3>1, <3>4, <4>1
      <4>3. c[<<i, j>>] = c[<<i, m>>]
        BY <3>2, <3>4
      <4> QED
        BY <3>1, <4>2, <4>3 DEF Good
    <3> QED
      BY <3>3, <3>4
  <2> QED
    BY <2>1, <2>2
<1> HIDE DEF Good
<1>3. Good(i0, j0)
  <2>1. SUFFICES ASSUME ~Good(i0, j0) PROVE FALSE
    OBVIOUS
  <2>2. j0 - i0 \in Bad
    BY <2>1
  <2>3. PICK d \in Bad : \A e \in Bad : d <= e
    BY <2>2, LeastNat
  <2>4. PICK i \in Nat, j \in Nat : i < j /\ j \notin there /\ d = j - i /\ ~Good(i, j)
    BY <2>3
  <2>5. \A k, l \in Nat : k < l /\ l \notin there /\ l - k < j - i => Good(k, l)
    <3> TAKE k, l \in Nat
    <3> HAVE k < l /\ l \notin there /\ l - k < j - i
    <3>1. SUFFICES ASSUME ~Good(k, l) PROVE FALSE
      OBVIOUS
    <3>2. l - k \in Bad /\ l - k \in Nat
      BY <3>1
    <3>3. d <= l - k /\ d \in Nat
      BY <2>3, <3>2
    <3> QED
      BY <2>4, <3>2, <3>3
  <2> QED
    BY <1>2, <2>4, <2>5
<1> QED
  BY <1>1, <1>3 DEF Good

----------------------------------------------------------------------------
(* Which integers are keys.                                                *)

Has(u, i) == \E v : <<<<"int", i>>, v>> \in Items(u)

LEMMA IntPosition ==
  ASSUME NEW u, u.lsizenode \in Nat, NEW i \in Int
  PROVE  mainposition(u, <<"int", i>>) \in NodesOf(u)
<1> DEFINE z == sizenode(u)
<1>1. z \in Nat /\ z > 0 /\ NodesOf(u) = 0..(z - 1)
  BY Places, Zenon DEF NodesOf
<1>2. Mod(u) = (IF z <= 2 THEN 1 ELSE z - 1)
  BY Zenon DEF Mod
<1> HIDE DEF z
<1>3. Mod(u) \in Nat /\ Mod(u) > 0 /\ Mod(u) <= z
  BY <1>1, <1>2
<1>4. i % Mod(u) \in 0..(Mod(u) - 1)
  BY <1>3, ModRange
<1>5. mainposition(u, <<"int", i>>) = i % Mod(u)
  BY DEF mainposition
<1> QED
  BY <1>1, <1>3, <1>4, <1>5

LEMMA HasFacts ==
  ASSUME NEW u, TableOK(u), NEW i \in Int
  PROVE  /\ Has(u, i) => <<"int", i>> \in Keys /\ i <= MaxInteger
         /\ i \in 1..asize(u) => (Has(u, i) <=> u.array[i] # Empty)
         /\ i \notin 1..asize(u) => (Has(u, i) <=> InHashPart(u, i))
         /\ <<"int", i>> \in Keys => (luaH_get(u, <<"int", i>>) # Empty <=> Has(u, i))
<1> DEFINE k == <<"int", i>>
<1>1. HashOK(u) /\ Items(u) \subseteq Keys \X Values /\ ArrayKeys(u)
  BY ItemFacts DEF TableOK
<1>2. PICK pos : HashWith(u, pos)
  BY <1>1 DEF HashOK
<1>3. /\ u.lsizenode \in Nat /\ DummyOK(u) /\ u.dummy \in BOOLEAN
      /\ \A n \in NodesOf(u) : u.node[n].key \in Keys \cup DeadKeys \cup Unkeyed
  BY <1>2, HashParts DEF HashWith
<1>4. Has(u, i) => k \in Keys /\ i <= MaxInteger
  <2>1. Has(u, i) => k \in Keys
    BY <1>1 DEF Has
  <2>2. k[1] = "int" /\ k[2] = i
    OBVIOUS
  <2> QED
    BY <2>1, <2>2, KeysAssumption
<1>5. \A p \in Pairs(u) : ~InArray(u, p[1])
  BY PairsNotInArray
<1>6. ASSUME i \in 1..asize(u) PROVE Has(u, i) <=> u.array[i] # Empty
  <2>1. InArray(u, k)
    BY <1>6 DEF InArray
  <2>2. \A v : <<k, v>> \notin Pairs(u)
    BY <1>5, <2>1
  <2>3. Has(u, i) <=> \E v : <<k, v>> \in ArrayPairs(u)
    BY <2>2 DEF Has, Items
  <2>4. ASSUME NEW v, <<k, v>> \in ArrayPairs(u) PROVE u.array[i] # Empty
    <3>1. PICK j \in InArrayNow(u) : <<k, v>> = <<<<"int", j>>, u.array[j]>>
      BY <2>4 DEF ArrayPairs
    <3>2. j = i
      BY <3>1
    <3> QED
      BY <3>1, <3>2 DEF InArrayNow
  <2>5. u.array[i] # Empty => <<k, u.array[i]>> \in ArrayPairs(u)
    BY <1>6 DEF ArrayPairs, InArrayNow
  <2> QED
    BY <2>3, <2>4, <2>5
<1>7. ASSUME i \notin 1..asize(u) PROVE Has(u, i) <=> InHashPart(u, i)
  <2> DEFINE g == getgeneric(u, k, FALSE)
  <2>1. ASSUME NEW v, <<k, v>> \in ArrayPairs(u) PROVE FALSE
    <3>1. PICK j \in InArrayNow(u) : <<k, v>> = <<<<"int", j>>, u.array[j]>>
      BY <2>1 DEF ArrayPairs
    <3>2. j = i
      BY <3>1
    <3> QED
      BY <1>7, <3>1, <3>2 DEF InArrayNow
  <2>2. Has(u, i) <=> \E v : <<k, v>> \in Pairs(u)
    BY <2>1 DEF Has, Items
  <2>3. InHashPart(u, i) <=> ~u.dummy /\ ValueAt(u, g) # Empty
    BY DEF InHashPart
  <2> HIDE DEF g
  <2>4. CASE k \in Keys /\ g # Absent
    <3>1. g \in NodesOf(u) /\ u.node[g].key = k
      BY <1>1, <2>4, FoundHasKey DEF g
    <3>2. ~u.dummy
      <4>1. SUFFICES ASSUME u.dummy PROVE FALSE
        OBVIOUS
      <4>2. NodesOf(u) = 0..0
        BY <1>3, <4>1, TwoTo DEF DummyOK, NodesOf, sizenode
      <4>3. u.node[g] = dummynode
        BY <1>3, <3>1, <4>1, <4>2 DEF DummyOK
      <4> QED
        BY <3>1, <4>3 DEF dummynode
    <3>3. InHashPart(u, i) <=> u.node[g].val # Empty
      BY <2>3, <2>4, <3>2 DEF ValueAt
    <3>4. u.node[g].val # Empty => <<k, u.node[g].val>> \in Pairs(u)
      BY <1>1, <3>1, UsedPairs
    <3>5. ASSUME NEW v, <<k, v>> \in Pairs(u) PROVE u.node[g].val # Empty
      <4>1. PICK n \in NodesOf(u) : u.node[n].val # Empty /\ <<k, v>> = <<u.node[n].key, u.node[n].val>>
        BY <1>1, <3>5, UsedPairs
      <4>2. n = g
        BY <1>2, <2>4, <3>1, <4>1 DEF HashWith, Unique
      <4> QED
        BY <4>1, <4>2
    <3> QED
      BY <2>2, <3>3, <3>4, <3>5
  <2>5. CASE k \in Keys /\ g = Absent
    <3>1. \A n \in NodesOf(u) : u.node[n].key # k
      BY <1>1, <2>5, FoundHasKey DEF g
    <3>2. \A v : <<k, v>> \notin Pairs(u)
      <4>1. SUFFICES ASSUME NEW v, <<k, v>> \in Pairs(u) PROVE FALSE
        OBVIOUS
      <4>2. PICK n \in NodesOf(u) : <<k, v>> = <<u.node[n].key, u.node[n].val>>
        BY <1>1, <4>1, UsedPairs
      <4> QED
        BY <3>1, <4>2
    <3> QED
      BY <2>2, <2>3, <2>5, <3>2 DEF ValueAt
  <2>6. CASE k \notin Keys
    <3>1. \A n \in NodesOf(u) : ~equalkey(k, u.node[n], FALSE)
      <4>1. SUFFICES ASSUME NEW n \in NodesOf(u), u.node[n].key = k PROVE FALSE
        BY DEF equalkey
      <4>2. k[1] = "int"
        OBVIOUS
      <4>3. k \notin DeadKeys
        BY <4>2 DEF DeadKeys
      <4>4. k \notin Unkeyed
        BY <4>2 DEF Unkeyed, NoKey
      <4> HIDE DEF k
      <4> QED
        BY <1>3, <2>6, <4>1, <4>3, <4>4
    <3>2. mainposition(u, k) \in NodesOf(u)
      BY <1>3, IntPosition
    <3> HIDE DEF k
    <3>3. g = Absent
      BY <1>2, <3>1, <3>2, Misses DEF g
    <3>4. ~InHashPart(u, i)
      BY <2>3, <3>3 DEF ValueAt
    <3> QED
      BY <1>4, <2>6, <3>4
  <2> QED
    BY <2>4, <2>5, <2>6
<1>8. ASSUME k \in Keys PROVE luaH_get(u, k) # Empty <=> Has(u, i)
  <2> DEFINE g == luaH_get(u, k)
  <2>1. \/ g = Empty /\ \A p \in Items(u) : p[1] # k
        \/ g \in Values /\ <<k, g>> \in Items(u)
    BY <1>8, GetIs
  <2> HIDE DEF g
  <2>2. CASE g = Empty /\ \A p \in Items(u) : p[1] # k
    <3>1. \A v : <<k, v>>[1] = k
      OBVIOUS
    <3> QED
      BY <2>2, <3>1 DEF Has, g
  <2>3. CASE g \in Values /\ <<k, g>> \in Items(u)
    BY <2>3, ValueFacts DEF Has, g
  <2> QED
    BY <2>1, <2>2, <2>3
<1> QED
  BY <1>4, <1>6, <1>7, <1>8

----------------------------------------------------------------------------
(* The length when it may be in the hash part.                             *)

Positive == Nat \ {0}
Further(j, rnd) == 2 * j + (rnd % 2)
DoubleNext(u, f, i, j, rnd) ==
  IF ~InHashPart(u, j) THEN halve(u, i, j)
  ELSE IF j <= MaxInteger \div 2 - 1 THEN f[<<j, Further(j, rnd), rnd \div 2>>]
  ELSE IF InHashPart(u, MaxInteger) THEN MaxInteger ELSE halve(u, j, MaxInteger)

LEMMA Furthers ==
  ASSUME NEW j \in Positive, NEW rnd \in Nat, j <= MaxInteger \div 2 - 1
  PROVE  Further(j, rnd) \in Positive /\ j < Further(j, rnd) /\ Further(j, rnd) <= MaxInteger /\ rnd \div 2 \in Nat
BY BoundsAssumption DEF Further, Positive

LEMMA QuotientNat ==
  ASSUME NEW i \in Nat, NEW m \in Nat, m > 0
  PROVE  i \div m \in Nat
  OBVIOUS

LEMMA DoubleRuns ==
  ASSUME NEW u, NEW rnd0 \in Nat, asize(u) \in Nat
  PROVE  \E c, j, rnd :
           /\ \A x \in Positive, y \in Positive, r \in Nat : c[<<x, y, r>>] = DoubleNext(u, c, x, y, r)
           /\ j \in Positive /\ j > asize(u) + 1 /\ rnd \in Nat
           /\ hash_search(u, rnd0) = c[<<asize(u) + 1, j, rnd>>]
<1> DEFINE D == Positive \X Positive \X Nat
           V == {halve(u, n[1], n[2]) : n \in Nat \X Nat} \cup {MaxInteger}
           next(f, n) == DoubleNext(u, f, n[1], n[2], n[3])
           mu == [n \in D |-> IF n[2] <= MaxInteger THEN MaxInteger - n[2] ELSE 0]
           step == [nf \in D \X [D -> V] |-> next(nf[2], nf[1])]
           P(g) == g = [ijr \in (Nat \ {0}) \X (Nat \ {0}) \X Nat |->
                          LET i == ijr[1]
                              j == ijr[2]
                              rnd == ijr[3]
                          IN IF ~InHashPart(u, j) THEN halve(u, i, j)
                             ELSE IF j <= MaxInteger \div 2 - 1 THEN g[<<j, 2 * j + (rnd % 2), rnd \div 2>>]
                             ELSE IF InHashPart(u, MaxInteger) THEN MaxInteger ELSE halve(u, j, MaxInteger)]
<1>0. MaxInteger \in Nat
  BY BoundsAssumption
<1>1. ASSUME NEW f \in [D -> V], NEW n \in D PROVE next(f, n) \in V
  <2>1. n[1] \in Positive /\ n[2] \in Positive /\ n[3] \in Nat /\ n[1] \in Nat /\ n[2] \in Nat
    BY DEF Positive
  <2>2. halve(u, n[1], n[2]) \in V /\ halve(u, n[2], MaxInteger) \in V /\ MaxInteger \in V
    <3>1. <<n[1], n[2]>> \in Nat \X Nat /\ <<n[2], MaxInteger>> \in Nat \X Nat
      BY <1>0, <2>1
    <3>2. \A m \in Nat \X Nat : halve(u, m[1], m[2]) \in V
      OBVIOUS
    <3> HIDE DEF V
    <3>3. halve(u, <<n[1], n[2]>>[1], <<n[1], n[2]>>[2]) \in V /\ halve(u, <<n[2], MaxInteger>>[1], <<n[2], MaxInteger>>[2]) \in V
      BY <3>1, <3>2
    <3>4. MaxInteger \in V
      BY DEF V
    <3> QED
      BY <3>3, <3>4
  <2>3. n[2] <= MaxInteger \div 2 - 1 => <<n[2], Further(n[2], n[3]), n[3] \div 2>> \in D
    BY <2>1, Furthers
  <2> HIDE DEF V, D
  <2> QED
    BY <2>2, <2>3 DEF DoubleNext
<1>2. /\ step \in [D \X [D -> V] -> V]
      /\ \A f \in [D -> V], n \in D : step[<<n, f>>] = next(f, n)
  <2> HIDE DEF next, D, V
  <2> QED
    BY <1>1
<1>3. mu \in [D -> Nat] /\ \A n \in D : mu[n] = IF n[2] <= MaxInteger THEN MaxInteger - n[2] ELSE 0
  BY <1>0 DEF Positive
<1>4. ASSUME NEW n \in D, NEW g \in [D -> V], NEW h \in [D -> V],
             \A y \in D : mu[y] < mu[n] => g[y] = h[y]
      PROVE  next(g, n) = next(h, n)
  <2>1. n[1] \in Positive /\ n[2] \in Positive /\ n[3] \in Nat /\ n[2] \in Nat
    BY DEF Positive
  <2>2. CASE n[2] <= MaxInteger \div 2 - 1
    <3> DEFINE a == <<n[2], Further(n[2], n[3]), n[3] \div 2>>
    <3>1. a \in D /\ a[2] = Further(n[2], n[3]) /\ n[2] < a[2] /\ a[2] <= MaxInteger /\ a[2] \in Nat
      BY <2>1, <2>2, Furthers DEF Positive
    <3> HIDE DEF a
    <3>2. mu[a] = MaxInteger - a[2] /\ mu[n] = MaxInteger - n[2]
      BY <1>0, <1>3, <2>1, <3>1
    <3> HIDE DEF mu
    <3>3. mu[a] < mu[n]
      BY <1>0, <2>1, <3>1, <3>2
    <3>4. g[a] = h[a]
      BY <1>4, <3>1, <3>3
    <3> QED
      BY <3>4 DEF DoubleNext, a
  <2>3. CASE ~(n[2] <= MaxInteger \div 2 - 1)
    BY <2>3 DEF DoubleNext
  <2> QED
    BY <2>2, <2>3
<1>5. Local(D, V, mu, step)
  <2> HIDE DEF next, step, mu, D, V
  <2>1. ASSUME NEW n \in D, NEW g \in [D -> V], NEW h \in [D -> V],
               \A y \in D : mu[y] < mu[n] => g[y] = h[y]
        PROVE  step[<<n, g>>] = step[<<n, h>>]
    <3>1. next(g, n) = next(h, n)
      BY <1>4, <2>1
    <3> QED
      BY <1>2, <3>1
  <2> QED
    BY <2>1, Zenon DEF Local
<1>6. \E f \in [D -> V] : Solves(f, D, step)
  <2>1. MaxInteger \in V
    OBVIOUS
  <2> HIDE DEF step, D, mu, V
  <2> QED
    BY <1>2, <1>3, <1>5, <2>1, Recursion
<1>7. PICK f \in [D -> V] : \A n \in D : f[n] = next(f, n)
  <2> HIDE DEF next, D, step, V
  <2> QED
    BY <1>2, <1>6 DEF Solves
<1>8. P(f)
  <2>1. f = [n \in D |-> next(f, n)]
    <3> HIDE DEF next, D, V
    <3> QED
      BY <1>7
  <2> QED
    BY <2>1, Zenon DEF DoubleNext, Further, Positive
<1> DEFINE c == CHOOSE g : P(g)
           width == IF asize(u) > 0 THEN ceillog2(asize(u)) ELSE 0
           incr == (rnd0 % twoto[width]) + 1
           j0 == IF incr <= MaxInteger - (asize(u) + 1) THEN asize(u) + 1 + incr ELSE asize(u) + 1 + 1
           r0 == rnd0 \div twoto[width]
<1>9. hash_search(u, rnd0) = c[<<asize(u) + 1, j0, r0>>]
  BY Zenon DEF hash_search
<1>10. P(c)
  <2> HIDE DEF P
  <2> QED
    BY <1>8, Zenon
<1>11. \A x \in Positive, y \in Positive, r \in Nat : c[<<x, y, r>>] = DoubleNext(u, c, x, y, r)
  <2> DEFINE cc == c
  <2>1. P(cc)
    BY <1>10
  <2> HIDE DEF c, cc
  <2>2. \A n \in D : cc[n] = DoubleNext(u, cc, n[1], n[2], n[3])
    BY <2>1, Zenon DEF DoubleNext, Further, Positive
  <2>3. \A x \in Positive, y \in Positive, r \in Nat :
          <<x, y, r>> \in D /\ <<x, y, r>>[1] = x /\ <<x, y, r>>[2] = y /\ <<x, y, r>>[3] = r
    OBVIOUS
  <2> HIDE DEF D
  <2>4. \A x \in Positive, y \in Positive, r \in Nat : cc[<<x, y, r>>] = DoubleNext(u, cc, x, y, r)
    BY <2>2, <2>3
  <2> QED
    BY <2>4 DEF cc
<1>12. j0 \in Positive /\ j0 > asize(u) + 1 /\ r0 \in Nat
  <2>1. width \in Nat
    BY CeilLog
  <2> HIDE DEF width
  <2>2. twoto[width] \in Nat /\ twoto[width] > 0
    <3>1. twoto[width] \in Nat /\ twoto[width] > width
      BY <2>1, TwoTo
    <3> QED
      BY <2>1, <3>1
  <2>3. r0 \in Nat /\ rnd0 % twoto[width] \in 0..(twoto[width] - 1)
    BY <2>2, QuotientNat, ModRange
  <2>4. incr \in Nat /\ incr > 0
    BY <2>2, <2>3
  <2> HIDE DEF incr
  <2> QED
    BY <1>0, <2>3, <2>4 DEF Positive
<1> HIDE DEF c, j0, r0
<1> QED
  BY <1>9, <1>11, <1>12

(* A border: a key, or 0, with none after it.                              *)
Border(u, n) == n \in Nat /\ (n = 0 \/ Has(u, n)) /\ (n = MaxInteger \/ ~Has(u, n + 1))

LEMMA HalveIs ==
  ASSUME NEW u, TableOK(u), NEW i \in Nat, NEW j \in Nat, asize(u) < i, i < j,
         j > MaxInteger \/ ~InHashPart(u, j), Has(u, i)
  PROVE  Border(u, halve(u, i, j))
<1> DEFINE there == {m \in 1..MaxInteger : InHashPart(u, m)}
           r == halve(u, i, j)
<1>0. MaxInteger \in Nat /\ asize(u) \in Nat
  <2>1. asize(u) \in Nat
    BY HashTyped, ArrayFacts DEF TableOK
  <2> QED
    BY <2>1, BoundsAssumption
<1>1. r = Halved(there, i, j)
  BY DEF halve
<1>2. j \notin there
  BY <1>0
<1> HIDE DEF there, r
<1>3. r \in Nat /\ i <= r /\ r < j /\ (r = i \/ r \in there) /\ r + 1 \notin there
  BY <1>1, <1>2, HalvedIs
<1>4. r \in Int /\ r + 1 \in Int /\ r \notin 1..asize(u) /\ r + 1 \notin 1..asize(u)
  BY <1>0, <1>3
<1>5. Has(u, r)
  <2>1. r \in there => InHashPart(u, r)
    BY DEF there
  <2> QED
    BY <1>3, <1>4, <2>1, HasFacts
<1>6. ~Has(u, r + 1)
  <2>1. SUFFICES ASSUME Has(u, r + 1) PROVE FALSE
    OBVIOUS
  <2>2. r + 1 <= MaxInteger /\ InHashPart(u, r + 1)
    BY <1>4, <2>1, HasFacts
  <2>3. r + 1 \in there
    BY <1>0, <1>3, <2>2 DEF there
  <2> QED
    BY <1>3, <2>3
<1> QED
  BY <1>3, <1>5, <1>6 DEF Border, r

LEMMA SearchIs ==
  ASSUME NEW u, TableOK(u), NEW rnd0 \in Nat, InHashPart(u, asize(u) + 1)
  PROVE  Border(u, hash_search(u, rnd0))
<1>0. MaxInteger \in Nat /\ asize(u) \in Nat /\ MaxInteger > 0
  <2>1. asize(u) \in Nat
    BY HashTyped, ArrayFacts DEF TableOK
  <2> QED
    BY <2>1, BoundsAssumption
<1>1. PICK c, j0, rnd : /\ \A x \in Positive, y \in Positive, r \in Nat : c[<<x, y, r>>] = DoubleNext(u, c, x, y, r)
                        /\ j0 \in Positive /\ j0 > asize(u) + 1 /\ rnd \in Nat
                        /\ hash_search(u, rnd0) = c[<<asize(u) + 1, j0, rnd>>]
  BY <1>0, DoubleRuns
<1> DEFINE Left(j) == IF j <= MaxInteger THEN MaxInteger - j ELSE 0
           Start0(i, j) == i \in Positive /\ j \in Positive /\ asize(u) < i /\ i < j /\ Has(u, i)
           Bad == {d \in Nat : \E i, j, r : Start0(i, j) /\ r \in Nat /\ d = Left(j) /\ ~Border(u, c[<<i, j, r>>])}
<1>2. ASSUME NEW i, NEW j, Start0(i, j), NEW r \in Nat,
             \A y, s : Start0(j, y) /\ s \in Nat /\ Left(y) < Left(j) => Border(u, c[<<j, y, s>>])
      PROVE  Border(u, c[<<i, j, r>>])
  <2>1. /\ i \in Positive /\ j \in Positive /\ asize(u) < i /\ i < j /\ Has(u, i)
        /\ i \in Nat /\ j \in Nat /\ j \notin 1..asize(u)
    BY <1>0, <1>2 DEF Positive
  <2>2. c[<<i, j, r>>] = DoubleNext(u, c, i, j, r)
    BY <1>1, <2>1
  <2>3. CASE ~InHashPart(u, j)
    <3>1. c[<<i, j, r>>] = halve(u, i, j)
      BY <2>2, <2>3 DEF DoubleNext
    <3> QED
      BY <2>1, <2>3, <3>1, HalveIs
  <2>4. CASE InHashPart(u, j)
    <3>0. j \in Int
      BY <2>1
    <3>1. Has(u, j) /\ j <= MaxInteger
      BY <2>1, <2>4, <3>0, HasFacts, Zenon
    <3>2. CASE j <= MaxInteger \div 2 - 1
      <4>1. c[<<i, j, r>>] = c[<<j, Further(j, r), r \div 2>>]
        BY <2>2, <2>4, <3>2 DEF DoubleNext
      <4>2. Further(j, r) \in Positive /\ j < Further(j, r) /\ Further(j, r) <= MaxInteger /\ r \div 2 \in Nat
        BY <2>1, <3>2, Furthers
      <4>3. Start0(j, Further(j, r)) /\ Left(Further(j, r)) < Left(j)
        <5>1. asize(u) < j /\ Further(j, r) \in Nat
          BY <1>0, <2>1, <4>2 DEF Positive
        <5> QED
          BY <1>0, <2>1, <3>1, <4>2, <5>1
      <4> HIDE DEF Start0, Left
      <4> QED
        BY <1>2, <4>1, <4>2, <4>3
    <3>3. CASE ~(j <= MaxInteger \div 2 - 1) /\ InHashPart(u, MaxInteger)
      <4>1. c[<<i, j, r>>] = MaxInteger
        BY <2>2, <2>4, <3>3 DEF DoubleNext
      <4>2. MaxInteger \notin 1..asize(u)
        BY <1>0, <2>1, <3>1
      <4>3. Has(u, MaxInteger)
        <5>1. MaxInteger \in Int
          BY <1>0
        <5> QED
          BY <3>3, <4>2, <5>1, HasFacts, Zenon
      <4> QED
        BY <1>0, <4>1, <4>3 DEF Border
    <3>4. CASE ~(j <= MaxInteger \div 2 - 1) /\ ~InHashPart(u, MaxInteger)
      <4>1. c[<<i, j, r>>] = halve(u, j, MaxInteger)
        BY <2>2, <2>4, <3>4 DEF DoubleNext
      <4>2. j # MaxInteger
        BY <2>4, <3>4
      <4>3. asize(u) < j /\ j < MaxInteger
        BY <1>0, <2>1, <3>1, <4>2
      <4> QED
        BY <1>0, <2>1, <3>1, <3>4, <4>1, <4>3, HalveIs
    <3> QED
      BY <3>2, <3>3, <3>4
  <2> QED
    BY <2>3, <2>4
<1>3. \A j \in Positive : Left(j) \in Nat
  BY <1>0 DEF Positive
<1>4. Start0(asize(u) + 1, j0)
  <2>1. Has(u, asize(u) + 1)
    <3>1. asize(u) + 1 \in Int /\ asize(u) + 1 \notin 1..asize(u)
      BY <1>0
    <3> QED
      BY <3>1, HasFacts
  <2> QED
    BY <1>0, <1>1, <2>1 DEF Positive
<1>5. \A i, j : Start0(i, j) => j \in Positive
  OBVIOUS
<1> HIDE DEF Start0, Left
<1>6. Border(u, c[<<asize(u) + 1, j0, rnd>>])
  <2>1. SUFFICES ASSUME ~Border(u, c[<<asize(u) + 1, j0, rnd>>]) PROVE FALSE
    OBVIOUS
  <2>2. Left(j0) \in Bad
    BY <1>1, <1>3, <1>4, <2>1
  <2>3. PICK d \in Bad : \A e \in Bad : d <= e
    BY <2>2, LeastNat
  <2>4. PICK i, j, r : Start0(i, j) /\ r \in Nat /\ d = Left(j) /\ ~Border(u, c[<<i, j, r>>])
    BY <2>3
  <2>5. \A y, s : Start0(j, y) /\ s \in Nat /\ Left(y) < Left(j) => Border(u, c[<<j, y, s>>])
    <3> TAKE y, s
    <3> HAVE Start0(j, y) /\ s \in Nat /\ Left(y) < Left(j)
    <3>1. SUFFICES ASSUME ~Border(u, c[<<j, y, s>>]) PROVE FALSE
      OBVIOUS
    <3>2. Left(y) \in Bad /\ Left(y) \in Nat
      BY <1>3, <1>5, <3>1
    <3>3. d <= Left(y) /\ d \in Nat
      BY <2>3, <3>2
    <3> QED
      BY <2>4, <3>2, <3>3
  <2> QED
    BY <1>2, <2>4, <2>5
<1> QED
  BY <1>1, <1>6

LEMMA LargestOfTwo ==
  ASSUME NEW a \in Int, NEW b \in Int
  PROVE  Largest({a, b}) \in {a, b} /\ a <= Largest({a, b}) /\ b <= Largest({a, b})
<1> DEFINE S == {a, b}
<1>1. \E n \in S : \A m \in S : m <= n
  BY DEF S
<1>2. Largest(S) = CHOOSE n \in S : \A m \in S : m <= n
  BY DEF Largest
<1> HIDE DEF S
<1>3. Largest(S) \in S /\ \A m \in S : m <= Largest(S)
  BY <1>1, <1>2
<1> QED
  BY <1>3 DEF S

LEMMA SmallestOfTwo ==
  ASSUME NEW a \in Int, NEW b \in Int
  PROVE  Smallest({a, b}) \in {a, b} /\ Smallest({a, b}) <= a /\ Smallest({a, b}) <= b
<1> DEFINE S == {a, b}
<1>1. \E n \in S : \A m \in S : n <= m
  BY DEF S
<1>2. Smallest(S) = CHOOSE n \in S : \A m \in S : n <= m
  BY DEF Smallest
<1> HIDE DEF S
<1>3. Smallest(S) \in S /\ \A m \in S : Smallest(S) <= m
  BY <1>1, <1>2
<1> QED
  BY <1>3 DEF S

LEMMA InArrayHas ==
  ASSUME NEW u, TableOK(u), NEW i \in 1..asize(u)
  PROVE  Has(u, i) <=> u.array[i] # Empty
<1>1. i \in Int
  OBVIOUS
<1> QED
  BY <1>1, HasFacts, Zenon

LEMMA BinsearchIs ==
  ASSUME NEW u, TableOK(u), NEW i \in Nat, NEW j \in 1..asize(u), i < j, u.array[j] = Empty,
         i = 0 \/ u.array[i] # Empty, NEW r, r = binsearch(u, i, j)
  PROVE  Border(u, r) /\ r \in Nat /\ r < j
<1> DEFINE there == {m \in 1..asize(u) : u.array[m] # Empty}
<1>0. asize(u) \in Nat
  BY HashTyped, ArrayFacts DEF TableOK
<1>1. r = Halved(there, i, j)
  BY DEF binsearch
<1>2. j \notin there /\ j \in Nat
  BY <1>0
<1> HIDE DEF there
<1>3. r \in Nat /\ i <= r /\ r < j /\ (r = i \/ r \in there) /\ r + 1 \notin there
  BY <1>1, <1>2, HalvedIs
<1>4. r + 1 \in 1..asize(u) /\ (r = 0 \/ r \in 1..asize(u))
  BY <1>0, <1>3
<1>5. u.array[r + 1] = Empty
  BY <1>3, <1>4 DEF there
<1>6. r = 0 \/ u.array[r] # Empty
  BY <1>3, <1>4 DEF there
<1>7. ~Has(u, r + 1)
  BY <1>4, <1>5, InArrayHas
<1>8. r = 0 \/ Has(u, r)
  BY <1>4, <1>6, InArrayHas
<1> QED
  BY <1>3, <1>7, <1>8 DEF Border

(* A key of the array with none after it in the array.                     *)
LEMMA ArrayBorder ==
  ASSUME NEW u, TableOK(u), NEW n \in 1..asize(u), n + 1 \in 1..asize(u), u.array[n] # Empty, u.array[n + 1] = Empty
  PROVE  Border(u, n)
<1>1. Has(u, n) /\ ~Has(u, n + 1) /\ n \in Nat
  BY InArrayHas
<1> QED
  BY <1>1 DEF Border

LEMMA GetnIs ==
  ASSUME NEW u, TableOK(u), NEW rnd \in Nat
  PROVE  /\ Border(u, luaH_getn(u, rnd).border)
         /\ luaH_getn(u, rnd).hint \in Nat /\ luaH_getn(u, rnd).hint <= asize(u)
<1> DEFINE a == u.array
           s == asize(u)
           limit == IF u.hint = 0 THEN 1 ELSE u.hint
           lowest == Largest({1, limit - MaxVicinity})
           highest == Smallest({s, limit + MaxVicinity})
           below == {i \in lowest..(limit - 1) : a[i] # Empty}
           above == {i \in (limit + 1)..highest : a[i] = Empty}
           after == [border |-> IF InHashPart(u, s + 1) THEN hash_search(u, rnd) ELSE s, hint |-> s]
           w == luaH_getn(u, rnd)
           Right(x) == Border(u, x.border) /\ x.hint \in Nat /\ x.hint <= s
<1>0. s \in Nat /\ u.hint \in Nat /\ u.hint <= s /\ MaxVicinity \in Nat
  <2>1. s \in Nat /\ u.hint \in Nat /\ u.hint <= s
    BY HashTyped, ArrayFacts DEF TableOK
  <2> QED
    BY <2>1, BoundsAssumption
<1>1. w = CASE s = 0 -> after
            [] s > 0 /\ a[limit] = Empty -> Found(IF below # {} THEN Largest(below) ELSE binsearch(u, 0, lowest))
            [] s > 0 /\ a[limit] # Empty /\ above # {} -> Found(Smallest(above) - 1)
            [] OTHER -> IF a[s] = Empty THEN Found(binsearch(u, highest, s)) ELSE after
  BY Zenon DEF luaH_getn
<1>2. \A n : Found(n).border = n /\ Found(n).hint = n
  BY DEF Found
<1>3. limit \in Nat /\ 1 <= limit /\ (s > 0 => limit <= s)
  BY <1>0
<1> HIDE DEF limit
<1>4. lowest \in Nat /\ 1 <= lowest /\ lowest <= limit
  <2>1. 1 \in Int /\ limit - MaxVicinity \in Int
    BY <1>0, <1>3
  <2>2. lowest \in {1, limit - MaxVicinity} /\ 1 <= lowest
    BY <2>1, LargestOfTwo
  <2> HIDE DEF lowest
  <2> QED
    BY <1>0, <1>3, <2>2
<1>5. s > 0 => highest \in Nat /\ limit <= highest /\ highest <= s
  <2>1. s \in Int /\ limit + MaxVicinity \in Int
    BY <1>0, <1>3
  <2>2. highest \in {s, limit + MaxVicinity} /\ highest <= s
    BY <2>1, SmallestOfTwo
  <2> HIDE DEF highest, s
  <2> QED
    BY <1>0, <1>3, <2>2
<1> HIDE DEF lowest, highest
<1>6. ASSUME s = 0 \/ a[s] # Empty PROVE Right(after)
  <2>1. after.border = (IF InHashPart(u, s + 1) THEN hash_search(u, rnd) ELSE s) /\ after.hint = s
    OBVIOUS
  <2> HIDE DEF after
  <2>2. CASE InHashPart(u, s + 1)
    BY <1>0, <2>1, <2>2, SearchIs
  <2>3. CASE ~InHashPart(u, s + 1)
    <3>1. s + 1 \in Int /\ s + 1 \notin 1..s
      BY <1>0
    <3>2. ~Has(u, s + 1)
      BY <2>3, <3>1, HasFacts
    <3>3. s = 0 \/ Has(u, s)
      <4>1. s = 0 \/ s \in 1..s
        BY <1>0
      <4> QED
        BY <1>6, <4>1, InArrayHas
    <3> QED
      BY <1>0, <2>1, <2>3, <3>2, <3>3 DEF Border
  <2> QED
    BY <2>2, <2>3
<1> HIDE DEF w, after
<1>7. CASE s = 0
  <2>1. w = after
    BY <1>1, <1>7
  <2> QED
    BY <1>6, <1>7, <2>1 DEF w
<1>8. CASE s > 0 /\ a[limit] = Empty /\ below # {}
  <2>1. w = Found(Largest(below))
    BY <1>0, <1>1, <1>8
  <2>2. below \in SUBSET Nat /\ \A n \in below : n <= limit
    BY <1>3, <1>4
  <2> DEFINE b == Largest(below)
  <2>3. b \in below /\ \A n \in below : n <= b
    BY <1>3, <1>8, <2>2, LargestNat
  <2> HIDE DEF b
  <2>4. b \in Nat /\ lowest <= b /\ b < limit /\ a[b] # Empty
    BY <1>3, <1>4, <2>2, <2>3
  <2>5. b + 1 = limit \/ b + 1 \in lowest..(limit - 1)
    BY <1>3, <1>4, <2>4
  <2>6. a[b + 1] = Empty
    <3>1. b + 1 \notin below
      BY <2>3, <2>4
    <3> QED
      BY <1>8, <2>5, <3>1
  <2>7. b \in 1..s /\ b + 1 \in 1..s /\ b <= s
    BY <1>0, <1>3, <1>4, <1>8, <2>4
  <2>8. Border(u, b)
    BY <2>4, <2>6, <2>7, ArrayBorder
  <2> QED
    BY <1>2, <2>1, <2>4, <2>7, <2>8 DEF b, w
<1>9. CASE s > 0 /\ a[limit] = Empty /\ below = {}
  <2> DEFINE r == binsearch(u, 0, lowest)
  <2>1. w = Found(r)
    BY <1>0, <1>1, <1>9
  <2>2. lowest \in 1..s /\ a[lowest] = Empty
    <3>1. lowest = limit \/ lowest \in lowest..(limit - 1)
      BY <1>3, <1>4
    <3> QED
      BY <1>0, <1>3, <1>4, <1>9, <3>1
  <2>3. Border(u, r) /\ r \in Nat /\ r < lowest
    BY <1>4, <2>2, BinsearchIs
  <2> HIDE DEF r
  <2>4. r <= s
    BY <1>0, <2>2, <2>3
  <2> QED
    BY <1>2, <2>1, <2>3, <2>4 DEF w
<1>10. CASE s > 0 /\ a[limit] # Empty /\ above # {}
  <2> DEFINE m == Smallest(above)
  <2>1. w = Found(m - 1)
    BY <1>0, <1>1, <1>10
  <2>2. above \in SUBSET Nat
    BY <1>3, <1>5, <1>10
  <2>3. m \in above /\ \A n \in above : m <= n
    BY <1>10, <2>2, SmallestNat
  <2> HIDE DEF m
  <2>4. m \in Nat /\ limit < m /\ m <= highest /\ a[m] = Empty
    BY <1>3, <1>5, <1>10, <2>2, <2>3
  <2> DEFINE b == m - 1
  <2>5. b \in Nat /\ b + 1 = m /\ (b = limit \/ b \in (limit + 1)..highest) /\ b < m
    BY <1>3, <1>5, <1>10, <2>4
  <2>6. a[b] # Empty
    <3>1. b \notin above
      BY <2>3, <2>4, <2>5
    <3> QED
      BY <1>10, <2>5, <3>1
  <2>7. b \in 1..s /\ b + 1 \in 1..s /\ b <= s
    BY <1>0, <1>3, <1>5, <1>10, <2>4, <2>5
  <2>8. a[b + 1] = Empty
    BY <2>4, <2>5
  <2> HIDE DEF b
  <2>9. Border(u, b)
    BY <2>6, <2>7, <2>8, ArrayBorder
  <2> QED
    BY <1>2, <2>1, <2>5, <2>7, <2>9 DEF b, w
<1>11. CASE s > 0 /\ a[limit] # Empty /\ above = {}
  <2>1. w = IF a[s] = Empty THEN Found(binsearch(u, highest, s)) ELSE after
    BY <1>0, <1>1, <1>11
  <2>2. CASE a[s] # Empty
    BY <1>6, <2>1, <2>2 DEF w
  <2>3. CASE a[s] = Empty
    <3> DEFINE r == binsearch(u, highest, s)
    <3>1. a[highest] # Empty
      <4>1. highest = limit \/ highest \in (limit + 1)..highest
        BY <1>3, <1>5, <1>11
      <4> QED
        BY <1>11, <4>1
    <3>2. highest \in Nat /\ highest < s /\ s \in 1..s
      <4>1. highest # s
        BY <2>3, <3>1
      <4> QED
        BY <1>0, <1>5, <1>11, <4>1
    <3>3. Border(u, r) /\ r \in Nat /\ r < s
      BY <2>3, <3>1, <3>2, BinsearchIs
    <3>4. w = Found(r)
      BY <2>1, <2>3
    <3> HIDE DEF r
    <3> QED
      BY <1>0, <1>2, <3>3, <3>4 DEF w
  <2> QED
    BY <2>2, <2>3
<1>12. s = 0 \/ s > 0
  BY <1>0
<1> HIDE DEF s, a, below, above
<1> QED
  BY <1>7, <1>8, <1>9, <1>10, <1>11, <1>12, Zenon

----------------------------------------------------------------------------
(* The program at work on the table.                                       *)

Fields(u) == [k \in Keys |-> luaH_get(u, k)]
TableInv == TableOK(t) /\ fields = Fields(t)

LEMMA FirstTable ==
  ASSUME NEW na \in ArraySizes, NEW nh \in HashSizes, NEW w, w = luaH_resize(luaH_new, na, nh, "none")
  PROVE  TableOK(w) /\ Items(w) = {}
<1> DEFINE u == luaH_new
<1>1. /\ u \in TableRec /\ HashOK(u) /\ Pairs(u) = {} /\ u.array = <<>> /\ u.asserts = TRUE /\ u.hint = 0
  BY NewTable
<1>2. w = luaH_resize(u, na, nh, "none")
  OBVIOUS
<1> HIDE DEF u
<1>3. asize(u) = 0
  BY <1>1 DEF asize
<1>4. Split(u)
  BY <1>1, UsedPairs DEF Split
<1>5. TableOK(u)
  BY <1>1, <1>3, <1>4 DEF TableOK, ArrayKeys
<1>6. Items(u) = {}
  BY <1>1, <1>3 DEF Items, ArrayPairs, InArrayNow
<1>7. na \in Nat /\ nh \in Nat
  BY SizesAssumption
<1>8. Fits(u, na, nh, {})
  <2>1. OutOf({}, na) = {} /\ Functional({})
    BY DEF OutOf, Functional
  <2>2. IsFiniteSet({}) /\ Cardinality({}) = 0
    BY FS_EmptySet
  <2> QED
    BY <1>5, <1>6, <1>7, <2>1, <2>2 DEF Fits
<1>9. ~Fails(u, na, nh, "none")
  BY DEF Fails
<1> QED
  BY <1>2, <1>6, <1>8, <1>9, ResizeMoves

LEMMA StartInv == TableInit => TableInv
<1> SUFFICES ASSUME TableInit PROVE TableInv
  OBVIOUS
<1>1. PICK na \in ArraySizes, nh \in HashSizes : t = luaH_resize(luaH_new, na, nh, "none")
  BY DEF TableInit
<1>2. TableOK(t)
  BY <1>1, FirstTable
<1> QED
  BY <1>2 DEF TableInit, TableInv, Fields

LEMMA FieldsSame ==
  ASSUME NEW u, TableOK(u), NEW w, TableOK(w), Items(w) = Items(u)
  PROVE  Fields(w) = Fields(u)
<1>1. \A k \in Keys : luaH_get(w, k) = luaH_get(u, k)
  BY GetSame
<1> QED
  BY <1>1 DEF Fields

(* One field is assigned, the others are as they were.                     *)
OneField(u, w, k) ==
  /\ TableOK(w) /\ luaH_get(w, k) \in Cell
  /\ \A j \in Keys \ {k} : luaH_get(w, j) = luaH_get(u, j)

LEMMA SetFieldStep ==
  ASSUME TableInv, NEW k \in Keys, NEW v \in Values \cup {Empty}, NEW fail, SetField(k, v, fail)
  PROVE  TableInv' /\ OneField(t, t', k)
<1>1. TableOK(t) /\ t' = luaH_set(t, k, v, fail) /\ fields' = Fields(t')
  BY DEF TableInv, SetField, Read, Fields
<1>2. v \in Cell
  BY DEF Cell
<1>3. IsSet(t, t', k, v) \/ (TableOK(t') /\ Items(t') = Items(t))
  BY <1>1, <1>2, SetIs
<1>4. OneField(t, t', k)
  BY <1>1, <1>2, <1>3, ReadAfter DEF OneField
<1> QED
  BY <1>1, <1>4 DEF TableInv, OneField

(* The hash part has room for what is in it.                               *)
LEMMA ArrayFits ==
  ASSUME NEW u, TableOK(u), NEW na \in Nat, na > asize(u)
  PROVE  Fits(u, na, HashSize(u), Items(u))
<1>1. /\ HashOK(u) /\ u \in TableRec /\ asize(u) \in Nat /\ u.lsizenode \in Nat /\ sizenode(u) \in Nat
      /\ u.dummy \in BOOLEAN
  BY HashTyped, ArrayFacts DEF TableOK
<1>2. Items(u) \subseteq Keys \X Values /\ Functional(Items(u))
  BY ItemFacts
<1>3. OutOf(Items(u), na) \subseteq Pairs(u)
  BY <1>1 DEF OutOf, Items, ArrayPairs, InArrayNow
<1>4. IsFiniteSet(NodesOf(u)) /\ Cardinality(NodesOf(u)) = sizenode(u)
  BY <1>1, Places
<1>5. IsFiniteSet(Pairs(u)) /\ Cardinality(Pairs(u)) <= Cardinality(Used(u)) /\ Cardinality(Used(u)) <= sizenode(u)
  <2> DEFINE f == [n \in Used(u) |-> <<u.node[n].key, u.node[n].val>>]
  <2>1. f \in [Used(u) -> Pairs(u)] /\ \A y \in Pairs(u) : \E n \in Used(u) : f[n] = y
    BY DEF Pairs
  <2>2. Used(u) \in SUBSET NodesOf(u)
    BY DEF Used
  <2> HIDE DEF f
  <2>3. IsFiniteSet(Used(u)) /\ Cardinality(Used(u)) <= sizenode(u)
    BY <1>4, <2>2, FS_Subset
  <2> QED
    BY <2>1, <2>3, SurjectionBound
<1>6. IsFiniteSet(OutOf(Items(u), na)) /\ Cardinality(OutOf(Items(u), na)) <= Cardinality(Pairs(u))
  <2>1. OutOf(Items(u), na) \in SUBSET Pairs(u)
    BY <1>3
  <2> QED
    BY <1>5, <2>1, FS_Subset
<1>7. HashSize(u) \in Nat /\ Cardinality(OutOf(Items(u), na)) <= HashSize(u)
  <2>1. /\ Cardinality(OutOf(Items(u), na)) \in Nat /\ Cardinality(Pairs(u)) \in Nat
        /\ Cardinality(Used(u)) \in Nat
    <3>1. Used(u) \in SUBSET NodesOf(u)
      BY DEF Used
    <3>2. IsFiniteSet(Used(u))
      BY <1>4, <3>1, FS_Subset
    <3> QED
      BY <1>5, <1>6, <3>2, Sizes
  <2>2. CASE ~u.dummy
    BY <1>1, <1>5, <1>6, <2>1, <2>2 DEF HashSize
  <2>3. CASE u.dummy
    <3>1. PICK pos : HashWith(u, pos)
      BY <1>1 DEF HashOK
    <3>2. NodesOf(u) = 0..0 /\ u.node[0] = dummynode
      BY <2>3, <3>1, TwoTo DEF HashWith, DummyOK, NodesOf, sizenode
    <3>3. Pairs(u) = {}
      BY <3>2 DEF Pairs, Used, dummynode
    <3>4. Cardinality(Pairs(u)) = 0
      BY <3>3, FS_EmptySet
    <3> QED
      BY <1>6, <2>1, <2>3, <3>4 DEF HashSize
  <2> QED
    BY <2>2, <2>3
<1> QED
  BY <1>1, <1>2, <1>6, <1>7 DEF Fits

LEMMA SetListStep ==
  ASSUME TableInv, NEW na \in ArraySizes, NEW v \in Values, NEW fail, SetList(na, v, fail)
  PROVE  TableInv' /\ <<"int", na>> \in Keys /\ OneField(t, t', <<"int", na>>)
<1> DEFINE k == <<"int", na>>
           r == luaH_resizearray(t, na, fail)
<1>1. /\ TableOK(t) /\ fields = Fields(t) /\ na > asize(t) /\ fields' = Fields(t')
      /\ t' = IF Fails(t, na, HashSize(t), fail) THEN r ELSE luaH_set(r, k, v, "none")
  BY DEF TableInv, SetList, Read, Fields
<1>2. asize(t) \in Nat /\ na \in Nat /\ na <= MaxInteger
  <2>1. asize(t) \in Nat
    BY <1>1, HashTyped, ArrayFacts DEF TableOK
  <2> QED
    BY <2>1, SizesAssumption, BoundsAssumption
<1>3. k \in Keys
  <2>1. na \in 1..MaxInteger
    BY <1>1, <1>2, BoundsAssumption
  <2> QED
    BY <2>1, KeysAssumption
<1>4. Fits(t, na, HashSize(t), Items(t))
  BY <1>1, <1>2, ArrayFits
<1>5. r = luaH_resize(t, na, HashSize(t), fail)
  BY DEF luaH_resizearray
<1> HIDE DEF k, r
<1>6. TableOK(r) /\ Items(r) = Items(t)
  <2>1. CASE Fails(t, na, HashSize(t), fail)
    BY <1>4, <1>5, <2>1, ResizeFails
  <2>2. CASE ~Fails(t, na, HashSize(t), fail)
    BY <1>4, <1>5, <2>2, ResizeMoves
  <2> QED
    BY <2>1, <2>2
<1>7. v \in Cell
  BY ValueFacts
<1>8. IsSet(r, t', k, v) \/ (TableOK(t') /\ Items(t') = Items(r))
  BY <1>1, <1>3, <1>6, <1>7, SetIs
<1>9. /\ TableOK(t') /\ luaH_get(t', k) \in Cell
      /\ \A j \in Keys \ {k} : luaH_get(t', j) = luaH_get(r, j)
  BY <1>3, <1>6, <1>7, <1>8, ReadAfter
<1>10. \A j \in Keys : luaH_get(r, j) = luaH_get(t, j)
  BY <1>1, <1>6, GetSame
<1>11. OneField(t, t', k)
  BY <1>9, <1>10 DEF OneField
<1> QED
  BY <1>1, <1>3, <1>9, <1>11 DEF TableInv, k

LEMMA LengthStep ==
  ASSUME TableInv, NEW rnd \in Randoms, Length(rnd)
  PROVE  TableInv' /\ fields' = fields
<1>1. /\ TableOK(t) /\ fields = Fields(t) /\ fields' = Fields(t')
      /\ t' = [t EXCEPT !.hint = luaH_getn(t, rnd).hint]
  BY DEF TableInv, Length, Read, Fields
<1>2. rnd \in Nat
  BY SizesAssumption
<1> DEFINE n == luaH_getn(t, rnd).hint
<1>3. n \in Nat /\ n <= asize(t)
  BY <1>1, <1>2, GetnIs
<1>4. t' = [t EXCEPT !.hint = n]
  BY <1>1
<1> HIDE DEF n
<1>5. TableOK(t') /\ Items(t') = Items(t)
  BY <1>1, <1>3, <1>4, HintIs
<1>6. Fields(t') = Fields(t)
  BY <1>1, <1>5, FieldsSame
<1> QED
  BY <1>1, <1>5, <1>6 DEF TableInv

LEMMA CollectStep ==
  ASSUME TableInv, Collect
  PROVE  TableInv' /\ fields' = fields
<1>1. TableOK(t) /\ fields = Fields(t) /\ fields' = Fields(t') /\ t' = clearkeys(t)
  BY DEF TableInv, Collect, Read, Fields
<1>2. TableOK(t') /\ Items(t') = Items(t)
  BY <1>1, ClearIs
<1>3. Fields(t') = Fields(t)
  BY <1>1, <1>2, FieldsSame
<1> QED
  BY <1>1, <1>2, <1>3 DEF TableInv

LEMMA TableStep == TableInv /\ [TableNext]_tableVars => TableInv'
<1> SUFFICES ASSUME TableInv, [TableNext]_tableVars PROVE TableInv'
  OBVIOUS
<1>1. ASSUME NEW k \in Keys, NEW v \in Values \cup {Empty}, NEW fail \in Failures, SetField(k, v, fail) PROVE TableInv'
  BY <1>1, SetFieldStep
<1>2. ASSUME NEW na \in ArraySizes, NEW v \in Values, NEW fail \in Failures, SetList(na, v, fail) PROVE TableInv'
  BY <1>2, SetListStep
<1>3. ASSUME NEW rnd \in Randoms, Length(rnd) PROVE TableInv'
  BY <1>3, LengthStep
<1>4. CASE Start \/ Visit \/ UNCHANGED tableVars
  <2>1. t' = t /\ fields' = fields
    BY <1>4 DEF Start, Visit, tableVars
  <2> QED
    BY <2>1 DEF TableInv
<1>5. CASE Collect
  BY <1>5, CollectStep
<1> QED
  BY <1>1, <1>2, <1>3, <1>4, <1>5 DEF TableNext

(* The hash part and the array are sound, and what the program reads is    *)
(* what they hold.                                                         *)
THEOREM TableSound == TableSpec => []TableInv
<1>1. TableInit => TableInv
  BY StartInv
<1>2. TableInv /\ [TableNext]_tableVars => TableInv'
  BY TableStep
<1> QED
  BY <1>1, <1>2, PTL DEF TableSpec

(* The asserts of ltable.c hold, whichever allocations fail.               *)
THEOREM TableAsserts == TableSpec => []TableAssertions
<1>1. TableInv => TableAssertions
  BY DEF TableInv, TableOK, TableAssertions
<1> QED
  BY <1>1, TableSound, PTL

(* luaH_getn gives a border, wherever its search starts.                   *)
THEOREM LengthRight == TableSpec => []LengthIsBorder
<1>1. TableInv => LengthIsBorder
  <2> SUFFICES ASSUME TableInv, NEW rnd \in Randoms
               PROVE  LET n == luaH_getn(t, rnd).border
                      IN /\ n = 0 \/ fields[<<"int", n>>] # Empty
                         /\ n = MaxInteger \/ fields[<<"int", n + 1>>] = Empty
    BY DEF LengthIsBorder
  <2>1. TableOK(t) /\ fields = Fields(t) /\ rnd \in Nat /\ MaxInteger \in Nat /\ MaxInteger > 0
    BY SizesAssumption, BoundsAssumption DEF TableInv
  <2> DEFINE n == luaH_getn(t, rnd).border
  <2>2. n \in Nat /\ (n = 0 \/ Has(t, n)) /\ (n = MaxInteger \/ ~Has(t, n + 1))
    BY <2>1, GetnIs DEF Border
  <2> HIDE DEF n
  <2>3. n \in Int /\ n + 1 \in Int
    BY <2>2
  <2>4. \A i \in Int : /\ Has(t, i) => <<"int", i>> \in Keys /\ i <= MaxInteger
                       /\ <<"int", i>> \in Keys => (luaH_get(t, <<"int", i>>) # Empty <=> Has(t, i))
    BY <2>1, HasFacts
  <2>5. \A k \in Keys : fields[k] = luaH_get(t, k)
    BY <2>1 DEF Fields
  <2>6. n = 0 \/ fields[<<"int", n>>] # Empty
    BY <2>2, <2>3, <2>4, <2>5
  <2>7. n <= MaxInteger
    <3>1. CASE n = 0
      BY <2>1, <3>1
    <3>2. CASE Has(t, n)
      <4>1. n \in Int
        BY <2>3
      <4> QED
        BY <4>1, <3>2, <2>4, Zenon
    <3> QED
      BY <2>2, <3>1, <3>2
  <2>8. n = MaxInteger \/ <<"int", n + 1>> \in Keys
    <3>1. n = MaxInteger \/ n + 1 \in 1..MaxInteger
      BY <2>1, <2>2, <2>7
    <3> QED
      BY <3>1, KeysAssumption
  <2>9. n = MaxInteger \/ fields[<<"int", n + 1>>] = Empty
    BY <2>2, <2>3, <2>4, <2>5, <2>8
  <2> QED
    BY <2>6, <2>9 DEF n
<1> QED
  BY <1>1, TableSound, PTL

(* Each step of the program assigns one field of a mapping or none.        *)
LEMMA MappingStep ==
  ASSUME TableInv, NEW k \in Keys, OneField(t, t', k), fields' = Fields(t')
  PROVE  Abstract!MappingNext
<1>1. fields = Fields(t)
  BY DEF TableInv
<1>2. \A j \in Keys \ {k} : fields'[j] = fields[j]
  BY <1>1 DEF OneField, Fields
<1>3. fields'[k] \in Values \cup {Empty}
  BY DEF OneField, Fields, Cell
<1> QED
  BY <1>2, <1>3 DEF Abstract!MappingNext, Abstract!Assign

(* The table implements the mapping: a step of the program assigns one     *)
(* field of it or none.                                                    *)
THEOREM TableMaps == TableSpec => IsMapping
<1>1. TableInit => Abstract!MappingInit
  <2> SUFFICES ASSUME TableInit PROVE Abstract!MappingInit
    OBVIOUS
  <2>1. PICK na \in ArraySizes, nh \in HashSizes : t = luaH_resize(luaH_new, na, nh, "none")
    BY DEF TableInit
  <2>2. TableOK(t) /\ Items(t) = {}
    BY <2>1, FirstTable
  <2>3. \A k \in Keys : luaH_get(t, k) = Empty
    BY <2>2, GetIs
  <2> QED
    BY <2>3 DEF TableInit, Abstract!MappingInit
<1>2. TableInv /\ [TableNext]_tableVars => [Abstract!MappingNext]_fields
  <2> SUFFICES ASSUME TableInv, [TableNext]_tableVars PROVE [Abstract!MappingNext]_fields
    OBVIOUS
  <2>1. ASSUME NEW k \in Keys, NEW v \in Values \cup {Empty}, NEW fail \in Failures, SetField(k, v, fail)
        PROVE  Abstract!MappingNext
    <3>1. TableInv' /\ OneField(t, t', k)
      BY <2>1, SetFieldStep
    <3>2. fields' = Fields(t')
      BY <3>1 DEF TableInv
    <3> QED
      BY <3>1, <3>2, MappingStep
  <2>2. ASSUME NEW na \in ArraySizes, NEW v \in Values, NEW fail \in Failures, SetList(na, v, fail)
        PROVE  Abstract!MappingNext
    <3>1. TableInv' /\ <<"int", na>> \in Keys /\ OneField(t, t', <<"int", na>>)
      BY <2>2, SetListStep
    <3>2. fields' = Fields(t')
      BY <3>1 DEF TableInv
    <3> QED
      BY <3>1, <3>2, MappingStep
  <2>3. ASSUME NEW rnd \in Randoms, Length(rnd) PROVE fields' = fields
    BY <2>3, LengthStep
  <2>4. CASE Start \/ Visit \/ UNCHANGED tableVars
    BY <2>4 DEF Start, Visit, tableVars
  <2>5. CASE Collect
    BY <2>5, CollectStep
  <2> QED
    BY <2>1, <2>2, <2>3, <2>4, <2>5 DEF TableNext
<1> QED
  BY <1>1, <1>2, TableSound, PTL DEF TableSpec, IsMapping, Abstract!MappingSpec

----------------------------------------------------------------------------
(* Going through a table.                                                  *)

(* The keys are where they were, those of dead objects too.                *)
Laid(u, w) ==
  /\ asize(w) = asize(u) /\ w.lsizenode = u.lsizenode /\ NodesOf(w) = NodesOf(u)
  /\ \A n \in NodesOf(u) : /\ w.node[n].next = u.node[n].next
                           /\ Original(w.node[n].key) = Original(u.node[n].key)

LEMMA EqualOriginal ==
  ASSUME NEW k \in Keys, NEW n, n.key \in Keys \cup DeadKeys \cup Unkeyed
  PROVE  equalkey(k, n, TRUE) <=> Original(n.key) = k
<1>1. k = <<k[1], k[2]>> /\ k \notin Unkeyed /\ k \notin DeadKeys
  BY KeyFacts
<1>2. k[1] = "str" => <<"dead", k[2]>> \in DeadKeys
  BY DEF DeadKeys
<1>3. CASE n.key \in Keys
  <2>1. Original(n.key) = n.key /\ n.key \notin DeadKeys
    BY <1>3, KeyFacts
  <2> QED
    BY <1>2, <2>1 DEF equalkey
<1>4. CASE n.key \in DeadKeys
  <2>1. n.key \notin Keys /\ Original(n.key) = <<"str", n.key[2]>>
    BY <1>4, KeyFacts
  <2>2. PICK j \in Keys : j[1] = "str" /\ n.key = <<"dead", j[2]>>
    BY <1>4 DEF DeadKeys
  <2>3. n.key = <<"dead", n.key[2]>>
    BY <2>2
  <2> QED
    BY <1>1, <2>1, <2>3 DEF equalkey
<1>5. CASE n.key \in Unkeyed
  <2>1. n.key \notin DeadKeys
    BY <1>5, KeyFacts
  <2>2. Original(n.key) = n.key
    BY <1>5 DEF Unkeyed, NoKey, Original
  <2> QED
    BY <1>1, <1>2, <1>5, <2>1, <2>2 DEF equalkey
<1> QED
  BY <1>3, <1>4, <1>5

LEMMA SameIndex ==
  ASSUME NEW u, TableOK(u), NEW w, TableOK(w), Laid(u, w), NEW k \in Keys \cup {NoKey}
  PROVE  findindex(w, k) = findindex(u, k)
<1>1. HashOK(u) /\ HashOK(w) /\ asize(w) = asize(u) /\ w.lsizenode = u.lsizenode /\ NodesOf(w) = NodesOf(u)
      /\ \A n \in NodesOf(u) : /\ w.node[n].next = u.node[n].next
                               /\ Original(w.node[n].key) = Original(u.node[n].key)
  BY DEF TableOK, Laid
<1>2. CASE k = NoKey
  <2>1. k[1] = "nil" /\ ~InArray(u, k) /\ ~InArray(w, k)
    BY <1>2 DEF NoKey, InArray
  <2> QED
    BY <1>2, <2>1 DEF findindex
<1>3. CASE k \in Keys
  <2>1. PICK pos : HashWith(u, pos)
    BY <1>1 DEF HashOK
  <2>2. PICK pos2 : HashWith(w, pos2)
    BY <1>1 DEF HashOK
  <2>3. mainposition(u, k) \in NodesOf(u)
    <3>1. u.lsizenode \in Nat
      BY <1>1, HashTyped
    <3> QED
      BY <1>3, <3>1, MainPosition
  <2>4. mainposition(u, k) = mainposition(w, k)
    <3>1. sizenode(u) = sizenode(w)
      BY <1>1 DEF sizenode
    <3>2. Mod(u) = Mod(w)
      BY <3>1 DEF Mod
    <3> QED
      BY <3>1, <3>2 DEF mainposition
  <2>5. \A n \in NodesOf(u) : equalkey(k, u.node[n], TRUE) <=> equalkey(k, w.node[n], TRUE)
    <3> TAKE n \in NodesOf(u)
    <3>1. u.node[n].key \in Keys \cup DeadKeys \cup Unkeyed /\ w.node[n].key \in Keys \cup DeadKeys \cup Unkeyed
      BY <1>1, <2>1, <2>2, HashParts
    <3>2. equalkey(k, u.node[n], TRUE) <=> Original(u.node[n].key) = k
      BY <1>3, <3>1, EqualOriginal
    <3>3. equalkey(k, w.node[n], TRUE) <=> Original(w.node[n].key) = k
      BY <1>3, <3>1, EqualOriginal
    <3> QED
      BY <1>1, <3>2, <3>3
  <2>6. getgeneric(u, k, TRUE) = getgeneric(w, k, TRUE)
    <3> DEFINE d == TRUE
    <3>1. SameNodes(u, w, k, d)
      BY <1>1, <2>5 DEF SameNodes
    <3>2. NodesOf(u) = NodesOf(w)
      BY <1>1
    <3> HIDE DEF d
    <3>3. getgeneric(u, k, d) = getgeneric(w, k, d)
      BY <2>1, <2>2, <2>3, <2>4, <3>1, <3>2, FindsSame, SMT
    <3> QED
      BY <3>3 DEF d
  <2>7. InArray(w, k) <=> InArray(u, k)
    BY <1>1 DEF InArray
  <2> QED
    BY <1>1, <2>6, <2>7 DEF findindex
<1> QED
  BY <1>2, <1>3

LEMMA EntryFacts ==
  ASSUME NEW u, TableOK(u)
  PROVE  /\ asize(u) \in Nat /\ sizenode(u) \in Nat /\ Len(Entries(u)) = asize(u) + sizenode(u)
         /\ \A j \in 1..asize(u) : Entries(u)[j].key = <<"int", j>> /\ Entries(u)[j].val = u.array[j]
         /\ \A n \in NodesOf(u) : /\ Entries(u)[n + 1 + asize(u)].key = u.node[n].key
                                  /\ Entries(u)[n + 1 + asize(u)].val = u.node[n].val
<1> DEFINE a == asize(u)
           z == sizenode(u)
           A == [j \in 1..a |-> [key |-> <<"int", j>>, val |-> u.array[j]]]
           B == [j \in 1..z |-> [key |-> u.node[j - 1].key, val |-> u.node[j - 1].val]]
           E == [key : {<<"int", j>> : j \in 1..a} \cup {u.node[n].key : n \in NodesOf(u)},
                 val : {u.array[j] : j \in 1..a} \cup {u.node[n].val : n \in NodesOf(u)}]
<1>1. a \in Nat /\ z \in Nat /\ NodesOf(u) = 0..(z - 1)
  BY HashTyped, ArrayFacts DEF TableOK
<1>2. Entries(u) = A \o B
  BY DEF Entries
<1>3. /\ \A j \in 1..a : [key |-> <<"int", j>>, val |-> u.array[j]] \in E
      /\ \A j \in 1..z : j - 1 \in NodesOf(u) /\ [key |-> u.node[j - 1].key, val |-> u.node[j - 1].val] \in E
  BY <1>1
<1>4. /\ \A j \in 1..a : A[j].key = <<"int", j>> /\ A[j].val = u.array[j]
      /\ \A j \in 1..z : B[j].key = u.node[j - 1].key /\ B[j].val = u.node[j - 1].val
  OBVIOUS
<1>5. A \in [1..a -> E] /\ B \in [1..z -> E]
  <2> HIDE DEF E, a, z
  <2> QED
    BY <1>3
<1> HIDE DEF A, B, E, a, z
<1>6. A \in Seq(E) /\ Len(A) = a /\ B \in Seq(E) /\ Len(B) = z
  BY <1>1, <1>5
<1>7. /\ Len(A \o B) = a + z
      /\ \A j \in 1..(a + z) : (A \o B)[j] = IF j <= a THEN A[j] ELSE B[j - a]
  BY <1>1, <1>6
<1>8. \A j \in 1..a : (A \o B)[j] = A[j]
  BY <1>1, <1>7
<1>9. \A n \in NodesOf(u) : (A \o B)[n + 1 + a] = B[n + 1]
  <2> TAKE n \in NodesOf(u)
  <2>1. n \in Nat /\ n < z
    BY <1>1
  <2>2. n + 1 + a \in 1..(a + z) /\ ~(n + 1 + a <= a) /\ (n + 1 + a) - a = n + 1
    BY <1>1, <2>1
  <2> QED
    BY <1>7, <2>2
<1>10. \A n \in NodesOf(u) : B[n + 1].key = u.node[n].key /\ B[n + 1].val = u.node[n].val
  <2> TAKE n \in NodesOf(u)
  <2>1. n + 1 \in 1..z /\ (n + 1) - 1 = n
    BY <1>1
  <2> QED
    BY <1>4, <2>1
<1>11. Len(Entries(u)) = a + z
  BY <1>2, <1>7
<1>12. \A j \in 1..a : Entries(u)[j].key = <<"int", j>> /\ Entries(u)[j].val = u.array[j]
  BY <1>2, <1>4, <1>8
<1>13. \A n \in NodesOf(u) : /\ Entries(u)[n + 1 + a].key = u.node[n].key
                             /\ Entries(u)[n + 1 + a].val = u.node[n].val
  BY <1>2, <1>9, <1>10
<1> QED
  BY <1>1, <1>11, <1>12, <1>13 DEF a, z

(* A field that is there is the entry that its key leads to.               *)
IsEntry(u, k, j) ==
  j \in 1..Len(Entries(u)) /\ Entries(u)[j].key = k /\ Entries(u)[j].val # Empty

LEMMA IndexOf ==
  ASSUME NEW u, TableOK(u), NEW k \in Keys, luaH_get(u, k) # Empty
  PROVE  IsEntry(u, k, findindex(u, k))
<1>1. HashOK(u) /\ Normal(k) = k /\ k[1] \notin {"nil", "nan"} /\ k = <<k[1], k[2]>> /\ k # NoKey
  BY KeyNormal, KeyFacts DEF TableOK, Unkeyed
<1>2. /\ asize(u) \in Nat /\ sizenode(u) \in Nat /\ Len(Entries(u)) = asize(u) + sizenode(u)
      /\ \A j \in 1..asize(u) : Entries(u)[j].key = <<"int", j>> /\ Entries(u)[j].val = u.array[j]
      /\ \A n \in NodesOf(u) : /\ Entries(u)[n + 1 + asize(u)].key = u.node[n].key
                               /\ Entries(u)[n + 1 + asize(u)].val = u.node[n].val
  BY EntryFacts
<1>3. luaH_get(u, k) = IF InArray(u, k) THEN u.array[k[2]] ELSE ValueAt(u, getgeneric(u, k, FALSE))
  BY <1>1 DEF luaH_get
<1>4. CASE InArray(u, k)
  <2>1. k[1] = "int" /\ k[2] \in 1..asize(u) /\ findindex(u, k) = k[2]
    BY <1>1, <1>4 DEF InArray, findindex
  <2>2. k[2] \in 1..Len(Entries(u))
    BY <1>2, <2>1
  <2> QED
    BY <1>1, <1>2, <1>3, <1>4, <2>1, <2>2 DEF IsEntry
<1>5. CASE ~InArray(u, k)
  <2> DEFINE n == getgeneric(u, k, FALSE)
  <2>1. n # Absent
    BY <1>3, <1>5 DEF ValueAt
  <2>2. n \in NodesOf(u) /\ u.node[n].key = k
    BY <1>1, <2>1, FoundHasKey
  <2>3. u.node[n].val # Empty
    BY <1>3, <1>5, <2>1 DEF ValueAt
  <2> HIDE DEF n
  <2>4. getgeneric(u, k, TRUE) = n
    <3>1. u.node[n].key \in Keys
      BY <2>2
    <3>2. getgeneric(u, u.node[n].key, TRUE) = n
      BY <1>1, <2>2, <3>1, FindsKey
    <3> QED
      BY <2>2, <3>2
  <2>5. findindex(u, k) = n + 1 + asize(u)
    BY <1>1, <1>5, <2>1, <2>4 DEF findindex
  <2>6. n + 1 + asize(u) \in 1..Len(Entries(u))
    <3>1. NodesOf(u) = 0..(sizenode(u) - 1)
      BY <1>1, HashTyped
    <3> QED
      BY <1>2, <2>2, <3>1
  <2> QED
    BY <1>2, <2>2, <2>3, <2>5, <2>6 DEF IsEntry
<1> QED
  BY <1>4, <1>5

LEMMA EntryIs ==
  ASSUME NEW u, TableOK(u), NEW j \in 1..Len(Entries(u)), Entries(u)[j].val # Empty
  PROVE  \E k \in Keys : Entries(u)[j].key = k /\ luaH_get(u, k) # Empty /\ findindex(u, k) = j
<1>1. HashOK(u) /\ ArrayKeys(u) /\ Split(u)
  BY DEF TableOK
<1>2. /\ asize(u) \in Nat /\ sizenode(u) \in Nat /\ Len(Entries(u)) = asize(u) + sizenode(u)
      /\ \A i \in 1..asize(u) : Entries(u)[i].key = <<"int", i>> /\ Entries(u)[i].val = u.array[i]
      /\ \A n \in NodesOf(u) : /\ Entries(u)[n + 1 + asize(u)].key = u.node[n].key
                               /\ Entries(u)[n + 1 + asize(u)].val = u.node[n].val
  BY EntryFacts
<1>3. CASE j \in 1..asize(u)
  <2> DEFINE k == <<"int", j>>
  <2>1. Entries(u)[j].key = k /\ u.array[j] # Empty
    BY <1>2, <1>3
  <2>2. k \in Keys /\ InArray(u, k) /\ k[2] = j
    BY <1>1, <1>3, <2>1 DEF ArrayKeys, InArray
  <2> HIDE DEF k
  <2>3. Normal(k) = k /\ k[1] \notin {"nil", "nan"} /\ k # NoKey
    BY <2>2, KeyNormal, KeyFacts DEF Unkeyed
  <2>4. luaH_get(u, k) = u.array[j] /\ findindex(u, k) = j
    BY <2>2, <2>3 DEF luaH_get, findindex
  <2> QED
    BY <2>1, <2>2, <2>4
<1>4. CASE j \notin 1..asize(u)
  <2> DEFINE n == j - 1 - asize(u)
  <2>1. j \in Nat /\ asize(u) < j /\ j <= asize(u) + sizenode(u)
    BY <1>2, <1>4
  <2>2. n \in 0..(sizenode(u) - 1) /\ n + 1 + asize(u) = j /\ n # Absent
    BY <1>2, <2>1 DEF Absent
  <2> HIDE DEF n
  <2>3. n \in NodesOf(u)
    BY <1>1, <2>2, HashTyped
  <2>4. Entries(u)[j].key = u.node[n].key /\ u.node[n].val # Empty
    BY <1>2, <2>2, <2>3
  <2> DEFINE k == u.node[n].key
  <2>5. k \in Keys /\ ~InArray(u, k)
    BY <1>1, <2>3, <2>4, UsedPairs DEF Split
  <2>6. getgeneric(u, k, TRUE) = n /\ getgeneric(u, k, FALSE) = n
    BY <1>1, <2>3, <2>5, FindsKey
  <2> DEFINE v == u.node[n].val
  <2>7. v # Empty /\ v = u.node[n].val /\ Entries(u)[j].key = k
    BY <2>4
  <2> HIDE DEF k, v
  <2>8. Normal(k) = k /\ k[1] \notin {"nil", "nan"} /\ k # NoKey
    BY <2>5, KeyNormal, KeyFacts DEF Unkeyed
  <2>9. luaH_get(u, k) = v
    BY <2>2, <2>5, <2>6, <2>7, <2>8 DEF luaH_get, ValueAt
  <2>10. findindex(u, k) = j
    BY <2>2, <2>5, <2>6, <2>8 DEF findindex
  <2> QED
    BY <2>5, <2>7, <2>9, <2>10
<1> QED
  BY <1>3, <1>4

----------------------------------------------------------------------------
(* The traversal.                                                          *)

Ahead(u, f, at) == {k \in Keys : f[k] # Empty /\ findindex(u, k) > findindex(u, at)}
TravInv ==
  /\ iter \in [on : BOOLEAN, at : Keys \cup {NoKey}, due : SUBSET Keys, ok : BOOLEAN]
  /\ iter.ok
  /\ iter.on => findindex(t, iter.at) \in Nat /\ iter.due = Ahead(t, fields, iter.at)

LEMMA LaidAfter ==
  ASSUME NEW u, NEW w, Revalued(u, w)
  PROVE  Laid(u, w)
<1>1. w.array = u.array /\ w.lsizenode = u.lsizenode /\ NodesOf(w) = NodesOf(u)
  BY DEF Revalued, Alike
<1>2. asize(w) = asize(u)
  BY <1>1 DEF asize
<1> QED
  BY <1>1, <1>2 DEF Revalued, Laid

(* Assigning to a field that is there, or nothing to one that is not.      *)
LEMMA SetLaid ==
  ASSUME NEW u, TableOK(u), NEW k \in Keys, NEW v \in Cell, v = Empty \/ luaH_get(u, k) # Empty,
         NEW fail, NEW w, w = luaH_set(u, k, v, fail)
  PROVE  Laid(u, w)
<1> DEFINE n == getgeneric(u, k, FALSE)
<1>1. Normal(k) = k /\ k[1] \notin {"nil", "nan"} /\ HashOK(u)
  BY KeyNormal DEF TableOK
<1>2. luaH_get(u, k) = IF InArray(u, k) THEN u.array[k[2]] ELSE ValueAt(u, n)
  BY <1>1 DEF luaH_get
<1>3. w = CASE InArray(u, k) -> Celled(u, k[2], v)
            [] ~InArray(u, k) /\ n # Absent -> Valued(u, n, v)
            [] OTHER -> IF v = Empty THEN u ELSE luaH_newkey(u, k, v, fail)
  BY <1>1 DEF luaH_set, Celled, Valued
<1>4. \/ n \in NodesOf(u) /\ n # Absent /\ u.node[n].key = k
      \/ n = Absent
  BY <1>1, FoundHasKey
<1> HIDE DEF n
<1>5. CASE InArray(u, k)
  <2> DEFINE i == k[2]
  <2>1. w = Celled(u, i, v) /\ i \in 1..asize(u)
    BY <1>3, <1>5 DEF InArray
  <2> HIDE DEF i
  <2>2. w = [u EXCEPT !.array[i] = v]
    BY <2>1 DEF Celled
  <2>3. SameFrame(u, w)
    BY <1>1, <2>1, <2>2, ArrayPut
  <2>4. u \in TableRec
    BY <1>1, HashTyped
  <2>5. w.node = u.node /\ w.lsizenode = u.lsizenode
    BY <2>2, <2>4 DEF TableRec
  <2>6. NodesOf(w) = NodesOf(u)
    BY <2>5 DEF NodesOf, sizenode
  <2> QED
    BY <2>3, <2>5, <2>6 DEF Laid, SameFrame
<1>6. CASE ~InArray(u, k) /\ n # Absent
  <2>1. w = Valued(u, n, v) /\ n \in NodesOf(u) /\ u.node[n].key = k
    BY <1>3, <1>4, <1>6
  <2>2. Revalued(u, w)
    BY <1>6, <2>1, NodeSets
  <2> QED
    BY <2>2, LaidAfter
<1>7. CASE ~InArray(u, k) /\ n = Absent
  <2>1. v = Empty
    BY <1>2, <1>7 DEF ValueAt
  <2>2. w = u
    BY <1>3, <1>7, <2>1
  <2> QED
    BY <2>2 DEF Laid
<1> QED
  BY <1>5, <1>6, <1>7

(* What is ahead changes with the fields only.                             *)
LEMMA AheadSame ==
  ASSUME NEW u, TableOK(u), NEW w, TableOK(w), Laid(u, w), NEW f, NEW at \in Keys \cup {NoKey}
  PROVE  Ahead(w, f, at) = Ahead(u, f, at) /\ findindex(w, at) = findindex(u, at)
<1>1. \A k \in Keys \cup {NoKey} : findindex(w, k) = findindex(u, k)
  BY SameIndex
<1> QED
  BY <1>1 DEF Ahead

LEMMA SetFieldGoes ==
  ASSUME TableInv, TravInv, NEW k \in Keys, NEW v \in Values \cup {Empty}, NEW fail, SetField(k, v, fail)
  PROVE  TravInv'
<1>1. /\ TableOK(t) /\ fields = Fields(t) /\ t' = luaH_set(t, k, v, fail) /\ TableOK(t') /\ fields' = Fields(t')
      /\ \A j \in Keys \ {k} : luaH_get(t', j) = luaH_get(t, j)
  BY SetFieldStep DEF TableInv, SetField, OneField
<1>2. /\ iter \in [on : BOOLEAN, at : Keys \cup {NoKey}, due : SUBSET Keys, ok : BOOLEAN] /\ iter.ok
      /\ iter.on => findindex(t, iter.at) \in Nat /\ iter.due = Ahead(t, fields, iter.at)
  BY DEF TravInv
<1>3. iter' = IF fields'[k] = Empty THEN [iter EXCEPT !.due = @ \ {k}] ELSE iter
  BY DEF SetField, Keep
<1>4. /\ iter' \in [on : BOOLEAN, at : Keys \cup {NoKey}, due : SUBSET Keys, ok : BOOLEAN] /\ iter'.ok
      /\ iter'.on = iter.on /\ iter'.at = iter.at
      /\ iter'.due = IF fields'[k] = Empty THEN iter.due \ {k} ELSE iter.due
  BY <1>2, <1>3
<1>5. ASSUME iter.on PROVE findindex(t', iter.at) \in Nat /\ iter'.due = Ahead(t', fields', iter.at)
  <2>1. v \in Cell /\ iter.at \in Keys \cup {NoKey}
    BY <1>2 DEF Cell
  <2>2. v = Empty \/ luaH_get(t, k) # Empty
    BY <1>1, <1>5 DEF SetField, Allowed, Present, Fields
  <2>3. Laid(t, t')
    BY <1>1, <2>1, <2>2, SetLaid
  <2>4. Ahead(t', fields', iter.at) = Ahead(t, fields', iter.at) /\ findindex(t', iter.at) = findindex(t, iter.at)
    BY <1>1, <2>1, <2>3, AheadSame
  <2>5. \A j \in Keys \ {k} : fields'[j] = fields[j]
    BY <1>1 DEF Fields
  <2>6. fields[k] = Empty => fields'[k] = Empty
    <3>1. SUFFICES ASSUME luaH_get(t, k) = Empty, luaH_get(t', k) # Empty PROVE FALSE
      BY <1>1 DEF Fields
    <3>2. v = Empty
      BY <2>2, <3>1
    <3>3. IsSet(t, t', k, v) \/ (TableOK(t') /\ Items(t') = Items(t))
      BY <1>1, <2>1, SetIs
    <3>4. CASE IsSet(t, t', k, v)
      <4>1. \A p \in Items(t') : p[1] # k
        BY <3>2, <3>4 DEF IsSet, Changed
      <4>2. <<k, luaH_get(t', k)>> \in Items(t')
        BY <1>1, <3>1, GetIs
      <4>3. <<k, luaH_get(t', k)>>[1] = k
        OBVIOUS
      <4> QED
        BY <4>1, <4>2, <4>3
    <3>5. CASE TableOK(t') /\ Items(t') = Items(t)
      <4>1. luaH_get(t', k) = luaH_get(t, k)
        BY <1>1, <3>5, GetSame
      <4> QED
        BY <3>1, <4>1
    <3> QED
      BY <3>3, <3>4, <3>5
  <2>7. iter.due = Ahead(t, fields, iter.at)
    BY <1>2, <1>5
  <2>8. iter'.due = Ahead(t, fields', iter.at)
    BY <1>4, <2>5, <2>6, <2>7 DEF Ahead
  <2> QED
    BY <1>2, <1>5, <2>4, <2>8
<1> QED
  BY <1>4, <1>5 DEF TravInv

(* The other steps of the program leave the fields as they are.            *)
LEMMA StaysAhead ==
  ASSUME TableInv, TableInv', TravInv, Laid(t, t'), fields' = fields, iter' = iter
  PROVE  TravInv'
<1>1. TableOK(t) /\ TableOK(t') /\ iter.at \in Keys \cup {NoKey}
  BY DEF TableInv, TravInv
<1>2. Ahead(t', fields, iter.at) = Ahead(t, fields, iter.at) /\ findindex(t', iter.at) = findindex(t, iter.at)
  BY <1>1, AheadSame
<1> QED
  BY <1>2 DEF TravInv

LEMMA CollectGoes ==
  ASSUME TableInv, TravInv, Collect
  PROVE  TravInv'
<1>1. TableOK(t) /\ t' = clearkeys(t) /\ iter' = iter
  BY DEF TableInv, Collect
<1>2. Revalued(t, t')
  BY <1>1, ClearIs
<1> QED
  BY <1>1, <1>2, LaidAfter, CollectStep, StaysAhead

LEMMA LengthGoes ==
  ASSUME TableInv, TravInv, NEW rnd \in Randoms, Length(rnd)
  PROVE  TravInv'
<1> DEFINE n == luaH_getn(t, rnd).hint
<1>1. TableOK(t) /\ rnd \in Nat /\ t' = [t EXCEPT !.hint = n] /\ iter' = iter
  BY SizesAssumption DEF TableInv, Length
<1>2. n \in Nat /\ n <= asize(t)
  BY <1>1, GetnIs
<1> HIDE DEF n
<1>3. NodesOf(t') = NodesOf(t) /\ asize(t') = asize(t) /\ t'.node = t.node /\ t'.lsizenode = t.lsizenode
  BY <1>1, <1>2, HintIs
<1>4. Laid(t, t')
  BY <1>3 DEF Laid
<1> QED
  BY <1>1, <1>4, LengthStep, StaysAhead

LEMMA SetListGoes ==
  ASSUME TableInv, TravInv, NEW na, NEW v, NEW fail, SetList(na, v, fail)
  PROVE  TravInv'
BY DEF TravInv, SetList

LEMMA StartGoes ==
  ASSUME TableInv, TravInv, Start
  PROVE  TravInv'
<1>1. /\ TableOK(t) /\ fields = Fields(t) /\ t' = t /\ fields' = fields
      /\ iter' = [on |-> TRUE, at |-> NoKey, due |-> Present, ok |-> TRUE]
  BY DEF TableInv, Start
<1>2. findindex(t, NoKey) = 0
  <2>1. ~InArray(t, NoKey)
    BY DEF InArray, NoKey
  <2> QED
    BY <2>1 DEF findindex
<1>3. \A k \in Present : findindex(t, k) > 0
  <2> TAKE k \in Present
  <2>1. k \in Keys /\ luaH_get(t, k) # Empty
    BY <1>1 DEF Present, Fields
  <2>2. findindex(t, k) \in 1..Len(Entries(t))
    BY <1>1, <2>1, IndexOf DEF IsEntry
  <2>3. Len(Entries(t)) \in Int
    BY <1>1, EntryFacts
  <2> QED
    BY <2>2, <2>3
<1>4. Present = Ahead(t, fields, NoKey)
  BY <1>2, <1>3 DEF Present, Ahead
<1>5. Present \subseteq Keys
  BY DEF Present
<1> HIDE DEF Present
<1> QED
  BY <1>1, <1>2, <1>4, <1>5 DEF TravInv

(* The next entry is the first of those ahead.                             *)
LEMMA NextIs ==
  ASSUME NEW u, TableOK(u), NEW at, findindex(u, at) \in Nat
  PROVE  \/ luaH_next(u, at) = NoKey /\ Ahead(u, Fields(u), at) = {}
         \/ /\ luaH_next(u, at) \in Ahead(u, Fields(u), at) /\ findindex(u, luaH_next(u, at)) \in Nat
            /\ Ahead(u, Fields(u), luaH_next(u, at)) = Ahead(u, Fields(u), at) \ {luaH_next(u, at)}
<1> DEFINE i == findindex(u, at)
           rest == {j \in (i + 1)..Len(Entries(u)) : Entries(u)[j].val # Empty}
<1>1. i \in Nat /\ i # Absent /\ Len(Entries(u)) \in Nat
  BY EntryFacts DEF Absent
<1>2. luaH_next(u, at) = IF rest = {} THEN NoKey ELSE Entries(u)[Smallest(rest)].key
  <2>1. i # Absent
    BY <1>1
  <2> QED
    BY <2>1, Zenon DEF luaH_next, Smallest
<1>3. \A k \in Keys : Fields(u)[k] = luaH_get(u, k)
  BY DEF Fields
<1>4. ASSUME NEW k \in Keys, luaH_get(u, k) # Empty
      PROVE  /\ findindex(u, k) \in 1..Len(Entries(u)) /\ Entries(u)[findindex(u, k)].key = k
             /\ findindex(u, k) > i <=> findindex(u, k) \in rest
  <2>1. IsEntry(u, k, findindex(u, k))
    BY <1>4, IndexOf
  <2> QED
    BY <1>1, <2>1 DEF IsEntry
<1>5. \A j \in rest : j \in Nat /\ j > i /\ j \in 1..Len(Entries(u)) /\ Entries(u)[j].val # Empty
  BY <1>1
<1> HIDE DEF i, rest
<1>6. CASE rest = {}
  BY <1>2, <1>3, <1>4, <1>6 DEF Ahead, i
<1>7. CASE rest # {}
  <2> DEFINE j == Smallest(rest)
  <2>1. rest \in SUBSET Nat
    BY <1>5
  <2>2. j \in rest /\ \A l \in rest : j <= l
    BY <1>7, <2>1, SmallestNat
  <2> HIDE DEF j
  <2>3. j \in Nat /\ j > i /\ j \in 1..Len(Entries(u)) /\ Entries(u)[j].val # Empty
    BY <1>5, <2>2
  <2>4. PICK k \in Keys : Entries(u)[j].key = k /\ luaH_get(u, k) # Empty /\ findindex(u, k) = j
    BY <2>3, EntryIs
  <2>5. luaH_next(u, at) = k
    BY <1>2, <1>7, <2>4 DEF j
  <2>6. k \in Ahead(u, Fields(u), at)
    BY <1>3, <2>3, <2>4 DEF Ahead, i
  <2>7. ASSUME NEW l \in Keys, Fields(u)[l] # Empty
        PROVE  findindex(u, l) > j <=> findindex(u, l) > i /\ l # k
    <3>1. luaH_get(u, l) # Empty
      BY <1>3, <2>7
    <3>2. /\ findindex(u, l) \in 1..Len(Entries(u)) /\ Entries(u)[findindex(u, l)].key = l
          /\ findindex(u, l) > i <=> findindex(u, l) \in rest
      BY <1>4, <3>1
    <3> DEFINE x == findindex(u, l)
    <3>3. x \in Nat /\ (x = j => l = k) /\ (l = k => x = j) /\ (x > i => j <= x)
      BY <1>1, <2>2, <2>4, <3>2
    <3> HIDE DEF x
    <3>4. x > j <=> x > i /\ l # k
      BY <1>1, <2>3, <3>3
    <3> QED
      BY <3>4 DEF x
  <2>8. Ahead(u, Fields(u), k) = Ahead(u, Fields(u), at) \ {k}
    BY <2>4, <2>7 DEF Ahead, i
  <2> QED
    BY <2>3, <2>4, <2>5, <2>6, <2>8
<1> QED
  BY <1>6, <1>7

LEMMA VisitGoes ==
  ASSUME TableInv, TravInv, Visit
  PROVE  TravInv'
<1> DEFINE k == luaH_next(t, iter.at)
<1>1. /\ TableOK(t) /\ fields = Fields(t) /\ t' = t /\ fields' = fields /\ iter.on
      /\ iter' = IF k = NoKey THEN [Resting EXCEPT !.ok = iter.ok /\ iter.due = {}]
                 ELSE [iter EXCEPT !.at = k, !.due = @ \ {k}, !.ok = @ /\ k \in iter.due]
  BY DEF TableInv, Visit
<1>2. /\ iter \in [on : BOOLEAN, at : Keys \cup {NoKey}, due : SUBSET Keys, ok : BOOLEAN] /\ iter.ok
      /\ findindex(t, iter.at) \in Nat /\ iter.due = Ahead(t, fields, iter.at)
  BY <1>1 DEF TravInv
<1>3. \/ k = NoKey /\ iter.due = {}
      \/ /\ k \in iter.due /\ findindex(t, k) \in Nat
         /\ Ahead(t, fields, k) = iter.due \ {k}
  BY <1>1, <1>2, NextIs
<1> HIDE DEF k
<1>4. CASE k = NoKey /\ iter.due = {}
  <2>1. iter' = [Resting EXCEPT !.ok = TRUE]
    BY <1>1, <1>2, <1>4
  <2> QED
    BY <2>1 DEF Resting, TravInv
<1>5. CASE k \in iter.due /\ findindex(t, k) \in Nat /\ Ahead(t, fields, k) = iter.due \ {k}
  <2>1. k \in Keys /\ k # NoKey
    <3>1. k \in Keys
      BY <1>2, <1>5
    <3> QED
      BY <3>1, KeyFacts DEF Unkeyed
  <2>2. iter' = [iter EXCEPT !.at = k, !.due = iter.due \ {k}, !.ok = TRUE]
    BY <1>1, <1>2, <1>5, <2>1
  <2>3. /\ iter' \in [on : BOOLEAN, at : Keys \cup {NoKey}, due : SUBSET Keys, ok : BOOLEAN]
        /\ iter'.ok /\ iter'.at = k /\ iter'.due = iter.due \ {k}
    BY <1>2, <2>1, <2>2
  <2> QED
    BY <1>1, <1>5, <2>3 DEF TravInv
<1> QED
  BY <1>3, <1>4, <1>5

LEMMA TraversalStep == TableInv /\ TravInv /\ [TableNext]_tableVars => TravInv'
<1> SUFFICES ASSUME TableInv, TravInv, [TableNext]_tableVars PROVE TravInv'
  OBVIOUS
<1>1. ASSUME NEW k \in Keys, NEW v \in Values \cup {Empty}, NEW fail \in Failures, SetField(k, v, fail) PROVE TravInv'
  BY <1>1, SetFieldGoes
<1>2. ASSUME NEW na \in ArraySizes, NEW v \in Values, NEW fail \in Failures, SetList(na, v, fail) PROVE TravInv'
  BY <1>2, SetListGoes
<1>3. ASSUME NEW rnd \in Randoms, Length(rnd) PROVE TravInv'
  BY <1>3, LengthGoes
<1>4. CASE Start
  BY <1>4, StartGoes
<1>5. CASE Visit
  BY <1>5, VisitGoes
<1>6. CASE Collect
  BY <1>6, CollectGoes
<1>7. CASE UNCHANGED tableVars
  BY <1>7 DEF TravInv, tableVars
<1> QED
  BY <1>1, <1>2, <1>3, <1>4, <1>5, <1>6, <1>7 DEF TableNext

(* luaH_next goes through all fields there are, each once, though fields   *)
(* are assigned, cleared and collected meanwhile.                          *)
THEOREM TraversalRight == TableSpec => []TraversalComplete
<1>1. TableInit => TravInv
  BY DEF TableInit, Resting, TravInv
<1>2. TableInv /\ TravInv /\ [TableNext]_tableVars => TravInv'
  BY TraversalStep
<1>3. TravInv => TraversalComplete
  BY DEF TravInv, TraversalComplete
<1> QED
  BY <1>1, <1>2, <1>3, TableSound, PTL DEF TableSpec
=============================================================================
